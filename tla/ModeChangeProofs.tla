-------------------------- MODULE ModeChangeProofs --------------------------
(***************************************************************************)
(* What holds of the system for every set of clients, every configuration  *)
(* of the manager, however slow the clients are and whatever the network   *)
(* does to the datagrams.  The system runs the manager: what a datagram is *)
(* decoded to is what was sent, so that the theorems about the manager and *)
(* about the channel hold in it.                                           *)
(***************************************************************************)
EXTENDS ModeChange, NetLayerRMProofs, ControlChannelProofs

LEMMA SystemConstants ==
  /\ Switches \subseteq Clients /\ ServiceOf \in [Clients -> Services]
  /\ RM \notin Clients /\ Nodes = Clients \cup {RM} /\ Loopback \notin Nodes
  /\ MaxLength \in Nat /\ MaxStall \in Nat /\ Afterwards \in Nat
  BY SystemAssumption DEF SystemAssumption

-----------------------------------------------------------------------------
(* What is on the network and in the receivers' messages. *)

RequestOf(c, payload) ==
    [to |-> RM, datagram |-> Datagram(SyncRequest(c, ServiceOf[c], payload))]

DatagramOf(message) == [to |-> message.to, datagram |-> Datagram(ControlMessage(message))]

IsRequest(d) ==
    \E c \in Clients, payload \in {EmptyBuffer, ResourceRequest} : d = RequestOf(c, payload)

(* The manager posts its messages, and those without a payload have no     *)
(* timestamps.                                                             *)
PostedInv == posted \subseteq Messages /\ \A p \in posted : PlainHasNone(p)

(* A datagram under way is a client's request or what the manager posted.  *)
NetworkInv == \A d \in network : IsRequest(d) \/ \E p \in posted : d = DatagramOf(p)

(* The message a node receives into can be received into again. *)
ObjectsInv == DOMAIN rm_message = Nodes /\ \A n \in Nodes : IsMessage(rm_message[n])

ChannelInv == PostedInv /\ NetworkInv /\ ObjectsInv

LEMMA SentDatagram ==
  ASSUME NEW object, NEW address, SendoutControlMessage(object, address)
  PROVE  network' = network \cup {[to |-> address, datagram |-> Datagram(object)]}
  BY DEF SendoutControlMessage, Datagram

(* The steps of the timer thread that send something: a sweep serves the   *)
(* service at its cursor.                                                  *)
LEMMA PostsServe ==
  ASSUME TypeOK, TimerStep, Posts
  PROVE  /\ Serve /\ pc \in Sweeps /\ cursor \in Listed /\ HasMode(pc, cursor)
         /\ sent'[Len(sent')] = SweepMessage(cursor)
<1>1. sent \in Seq(Messages)
  BY DEF TypeOK
<1>2. CASE Serve
  <2>1. pc \in Sweeps /\ cursor \in Listed /\ HasMode(pc, cursor)
        /\ sent' = Append(sent, SweepMessage(cursor))
    BY <1>2 DEF Serve, Posts
  <2>2. SweepMessage(cursor) \in Messages
    BY <2>1, SweepMessageType
  <2> QED BY <1>1, <1>2, <2>1, <2>2
<1>3. CASE InitialStart \/ PlanRound \/ StoppingExperiment
  BY <1>3 DEF InitialStart, PlanRound, StoppingExperiment, BeginSweep, Posts
<1>4. CASE EndSweep \/ ExperimentSelection \/ Gap \/ EndExperiment
  BY <1>4 DEF EndSweep, ExperimentSelection, Gap, EndExperiment, Posts
<1> QED BY <1>2, <1>3, <1>4 DEF TimerStep

LEMMA SweepMessagePlain ==
  ASSUME NEW s PROVE PlainHasNone(SweepMessage(s))
<1>1. PlainHasNone(StartMessage(s))
  BY DEF StartMessage, Message, PlainHasNone, PlainTypes
<1>2. PlainHasNone(StopMessage(s))
  BY DEF StopMessage, Message, PlainHasNone, PlainTypes
<1>3. ASSUME NEW mode
      PROVE  /\ PlainHasNone(PlainMessage(s, mode)) /\ PlainHasNone(TimestampMessage(s, mode))
             /\ PlainHasNone(HyperperiodMessage(s, mode))
  BY DEF PlainMessage, TimestampMessage, HyperperiodMessage, Message, PlainHasNone, PlainTypes
<1>4. PlainHasNone(RoundMessage(s))
  BY <1>3 DEF RoundMessage
<1> QED BY <1>1, <1>2, <1>4 DEF SweepMessage

(* What a manager's step posts. *)
LEMMA ManagerPosts ==
  ASSUME TypeOK, ManagerStep
  PROVE  \/ UNCHANGED <<network, posted>>
         \/ /\ Serve /\ pc \in Sweeps /\ cursor \in Listed /\ HasMode(pc, cursor)
            /\ SweepMessage(cursor) \in Messages
            /\ network' = network \cup {DatagramOf(SweepMessage(cursor))}
            /\ posted' = posted \cup {SweepMessage(cursor)}
<1>1. CASE Posts
  <2>1. /\ Serve /\ pc \in Sweeps /\ cursor \in Listed /\ HasMode(pc, cursor)
        /\ sent'[Len(sent')] = SweepMessage(cursor)
    BY <1>1, PostsServe DEF ManagerStep
  <2> DEFINE message == SweepMessage(cursor)
  <2>2. /\ SendoutControlMessage(ControlMessage(message), message.to)
        /\ posted' = posted \cup {message}
    BY <1>1, <2>1 DEF ManagerStep
  <2>3. message \in Messages
    BY <2>1, SweepMessageType
  <2> HIDE DEF message
  <2>4. network' = network \cup {DatagramOf(message)}
    BY <2>2, SentDatagram DEF DatagramOf
  <2> QED BY <2>1, <2>2, <2>3, <2>4 DEF message
<1>2. CASE ~Posts
  BY <1>2 DEF ManagerStep
<1> QED BY <1>1, <1>2

-----------------------------------------------------------------------------
(* What is received. *)

LEMMA Addresses ==
  ASSUME PostedInv, NEW p \in posted
  PROVE  p.to # RM /\ p.type \in MessageTypes /\ p.mode \in Nat
<1>1. p \in Messages
  BY DEF PostedInv
<1>2. p.to \in Clients \cup {Loopback} /\ p.type \in MessageTypes /\ p.mode \in Nat
  BY <1>1 DEF Messages
<1> QED BY <1>2, SystemConstants

(* The receiver's message after the datagram of an object. *)
LEMMA ObjectReceived ==
  ASSUME ObjectsInv, NEW d, NEW duplicated, ReceiveControlMessage(d, duplicated)
  PROVE  /\ d.to \in Nodes /\ IsMessage(rm_message[d.to])
         /\ \A object : d.datagram = Datagram(object) =>
               rm_message'[d.to] = Received(object, rm_message[d.to])
         /\ DOMAIN rm_message' = Nodes
         /\ \A n \in Nodes \ {d.to} : rm_message'[n] = rm_message[n]
         /\ network' \subseteq network
  BY DEF ObjectsInv, ReceiveControlMessage, Take, Received

(* The manager reads who asks for which service. *)
LEMMA RequestReceived ==
  ASSUME 170 < MaxLength, ChannelInv, NEW d \in network, d.to = RM,
         NEW duplicated, ReceiveControlMessage(d, duplicated)
  PROVE  /\ IsMessage(rm_message'[RM])
         /\ \E c \in Clients : /\ rm_message'[RM].source_id = c
                               /\ rm_message'[RM].service_id = ServiceOf[c]
<1>1. IsRequest(d)
  BY Addresses DEF ChannelInv, NetworkInv, DatagramOf
<1>2. PICK c \in Clients, payload \in {EmptyBuffer, ResourceRequest} : d = RequestOf(c, payload)
  BY <1>1 DEF IsRequest
<1> DEFINE old == rm_message[RM]
           service == ServiceOf[c]
           new == Received(SyncRequest(c, service, payload), old)
<1>3. IsMessage(old) /\ rm_message'[RM] = new
  BY <1>2, ObjectReceived DEF ChannelInv, RequestOf
<1>4. payload \in {EmptyBuffer, ResourceRequest} /\ c \in Clients
  BY <1>2
<1> HIDE DEF old, service
<1>5. IsMessage(new) /\ new.source_id = c /\ new.service_id = service
  BY <1>3, <1>4, SystemConstants, RequestDecoded
<1> QED BY <1>3, <1>4, <1>5 DEF service

(* What a client makes of a message. *)
AsReceived(p) ==
    [type |-> p.type, mode |-> p.mode % 256, stop |-> p.stop, reconfig |-> p.reconfig,
     start |-> p.start]

(* A client reads what the manager posted to it. *)
LEMMA ControlReceived ==
  ASSUME 170 < MaxLength, ChannelInv, NEW d \in network, d.to \in Clients,
         NEW duplicated, ReceiveControlMessage(d, duplicated)
  PROVE  /\ IsMessage(rm_message'[d.to])
         /\ \E p \in posted : /\ p.to = d.to
                              /\ ClientMessage(rm_message'[d.to]) = AsReceived(p)
<1>1. ~IsRequest(d)
  BY SystemConstants DEF IsRequest, RequestOf
<1>2. PICK p \in posted : d = DatagramOf(p)
  BY <1>1 DEF ChannelInv, NetworkInv
<1> DEFINE old == rm_message[d.to]
           new == Received(ControlMessage(p), old)
<1>3. IsMessage(old) /\ rm_message'[d.to] = new
  BY <1>2, ObjectReceived DEF ChannelInv, DatagramOf
<1>4. p.to = d.to /\ PlainHasNone(p)
  BY <1>2 DEF DatagramOf, ChannelInv, PostedInv
<1> HIDE DEF old
<1>5. IsMessage(new) /\ ClientMessage(new) = AsReceived(p)
  BY <1>3, <1>4, SystemConstants, DecodedAsSent DEF AsReceived
<1> QED BY <1>3, <1>4, <1>5

LEMMA ObjectsKept ==
  ASSUME 170 < MaxLength, ChannelInv, NEW d \in network,
         NEW duplicated, ReceiveControlMessage(d, duplicated)
  PROVE  ObjectsInv' /\ network' \subseteq network
<1>1. d.to \in Clients \/ d.to = RM
  BY ObjectReceived, SystemConstants DEF ChannelInv
<1>2. IsMessage(rm_message'[d.to])
  BY <1>1, RequestReceived, ControlReceived
<1>3. /\ DOMAIN rm_message' = Nodes /\ network' \subseteq network
      /\ \A n \in Nodes \ {d.to} : rm_message'[n] = rm_message[n]
  BY ObjectReceived DEF ChannelInv
<1> QED BY <1>2, <1>3 DEF ChannelInv, ObjectsInv, IsMessage, Bytes

-----------------------------------------------------------------------------
(* Every step of the system is one of the manager or none. *)

SystemInv == TypeOK /\ ChannelInv

LEMMA ManagerMoves ==
  ASSUME 170 < MaxLength, SystemInv, [SystemNext]_systemVars
  PROVE  \/ (\E c \in Clients : ReceiveMessage(ServiceOf[c], c)) /\ UNCHANGED posted
         \/ HandlerStep /\ UNCHANGED posted
         \/ ManagerStep
         \/ UNCHANGED vars /\ UNCHANGED posted
<1> USE DEF SystemInv
<1>1. ASSUME NEW d \in network, NEW duplicated \in BOOLEAN, DeliverRequest(d, duplicated)
      PROVE  (\E c \in Clients : ReceiveMessage(ServiceOf[c], c)) /\ UNCHANGED posted
  BY <1>1, RequestReceived DEF DeliverRequest, historyVars
<1>2. ManagerHandles => HandlerStep /\ UNCHANGED posted
  BY DEF ManagerHandles, historyVars
<1>3. ASSUME NEW c \in Clients, RequestResources(c) \/ ClientStep(c)
      PROVE  UNCHANGED vars /\ UNCHANGED posted
  BY <1>3 DEF RequestResources, ClientStep, historyVars
<1>4. ASSUME NEW d \in network,
             LoseDatagram(d) \/ \E duplicated \in BOOLEAN : DeliverControl(d, duplicated)
      PROVE  UNCHANGED vars /\ UNCHANGED posted
  BY <1>4 DEF LoseDatagram, DeliverControl, historyVars
<1>5. CASE Tick \/ UNCHANGED systemVars
  BY <1>5 DEF Tick, systemVars, historyVars
<1> QED BY <1>1, <1>2, <1>3, <1>4, <1>5 DEF SystemNext

LEMMA ManagerSteps ==
  ASSUME 170 < MaxLength, SystemInv, [SystemNext]_systemVars
  PROVE  [Next]_vars
<1>1. \A c \in Clients : ServiceOf[c] \in Services
  BY SystemConstants
<1> QED BY <1>1, ManagerMoves DEF Next, ManagerStep

LEMMA ChannelStarts == SystemInit => ChannelInv
<1> SUFFICES ASSUME SystemInit PROVE ChannelInv
  OBVIOUS
<1>1. posted = {} /\ network = {} /\ rm_message = [n \in Nodes |-> EmptyRMMessage]
  BY DEF SystemInit, ChannelInit
<1>2. IsMessage(EmptyRMMessage)
  BY DEF EmptyRMMessage, IsMessage, HeaderNames, NoBytes, Bytes
<1> QED BY <1>1, <1>2 DEF ChannelInv, PostedInv, NetworkInv, ObjectsInv

(* What is posted stays posted, and more may be. *)
LEMMA NetworkShrinks ==
  ASSUME NetworkInv, network' \subseteq network, posted \subseteq posted'
  PROVE  NetworkInv'
<1>1. \A d : IsRequest(d)' = IsRequest(d)
  BY DEF IsRequest, RequestOf, Datagram
<1> QED BY <1>1 DEF NetworkInv, DatagramOf

LEMMA NetworkGrows ==
  ASSUME NetworkInv, NEW e, IsRequest(e) \/ \E p \in posted' : e = DatagramOf(p),
         network' = network \cup {e}, posted \subseteq posted'
  PROVE  NetworkInv'
<1>1. \A d : IsRequest(d)' = IsRequest(d)
  BY DEF IsRequest, RequestOf, Datagram
<1>2. \A d \in network' : IsRequest(d) \/ \E p \in posted' : d = DatagramOf(p)
  BY DEF NetworkInv
<1> QED BY <1>1, <1>2 DEF NetworkInv, DatagramOf

LEMMA ChannelKept ==
  ASSUME 170 < MaxLength, SystemInv, [SystemNext]_systemVars
  PROVE  ChannelInv'
<1> USE DEF SystemInv
<1>0. ChannelInv /\ PostedInv /\ NetworkInv /\ ObjectsInv
  BY DEF ChannelInv
<1>1. ASSUME UNCHANGED posted, network' \subseteq network, ObjectsInv' PROVE ChannelInv'
  <2>1. NetworkInv'
    BY <1>0, <1>1, NetworkShrinks
  <2> QED BY <1>0, <1>1, <2>1 DEF ChannelInv, PostedInv, PlainHasNone
<1>2. ASSUME UNCHANGED posted, network' \subseteq network, UNCHANGED rm_message PROVE ChannelInv'
  <2>1. ObjectsInv'
    BY <1>0, <1>2 DEF ObjectsInv
  <2> QED BY <1>1, <1>2, <2>1
<1>3. ASSUME NEW d \in network, NEW duplicated \in BOOLEAN,
             DeliverRequest(d, duplicated) \/ DeliverControl(d, duplicated)
      PROVE  ChannelInv'
  <2>1. ReceiveControlMessage(d, duplicated) /\ UNCHANGED posted
    BY <1>3 DEF DeliverRequest, DeliverControl, historyVars
  <2> QED BY <1>1, <2>1, ObjectsKept
<1>4. ASSUME NEW c \in Clients, RequestResources(c) PROVE ChannelInv'
  <2>1. PICK payload \in {EmptyBuffer, ResourceRequest} :
            SendoutControlMessage(SyncRequest(c, ServiceOf[c], payload), RM)
    BY <1>4 DEF RequestResources
  <2>2. network' = network \cup {RequestOf(c, payload)}
    BY <2>1, SentDatagram DEF RequestOf
  <2>3. IsRequest(RequestOf(c, payload))
    BY <2>1 DEF IsRequest
  <2>4. UNCHANGED <<posted, rm_message>>
    BY <1>4 DEF RequestResources, historyVars
  <2>5. NetworkInv'
    BY <1>0, <2>2, <2>3, <2>4, NetworkGrows
  <2> QED BY <1>0, <2>4, <2>5 DEF ChannelInv, PostedInv, ObjectsInv
<1>5. CASE ManagerStep
  <2>1. UNCHANGED rm_message
    BY <1>5 DEF ManagerStep
  <2>2. CASE UNCHANGED <<network, posted>>
    BY <1>2, <2>1, <2>2
  <2>3. ASSUME NEW message, message \in Messages, PlainHasNone(message),
               network' = network \cup {DatagramOf(message)},
               posted' = posted \cup {message}
        PROVE  ChannelInv'
    <3>1. NetworkInv'
      BY <1>0, <2>3, NetworkGrows
    <3>2. PostedInv'
      BY <1>0, <2>3 DEF PostedInv
    <3> QED BY <1>0, <2>1, <3>1, <3>2 DEF ChannelInv, ObjectsInv
  <2> QED BY <1>5, <2>2, <2>3, ManagerPosts, SweepMessagePlain
<1>6. CASE ManagerHandles \/ Tick \/ UNCHANGED systemVars
  BY <1>2, <1>6 DEF ManagerHandles, Tick, systemVars, channelVars, historyVars
<1>7. ASSUME NEW c \in Clients, ClientStep(c) PROVE ChannelInv'
  BY <1>2, <1>7 DEF ClientStep, channelVars
<1>8. ASSUME NEW d \in network, LoseDatagram(d) PROVE ChannelInv'
  BY <1>2, <1>8 DEF LoseDatagram, Lose, historyVars
<1> QED BY <1>3, <1>4, <1>5, <1>6, <1>7, <1>8 DEF SystemNext

LEMMA SystemInvariant ==
  ASSUME 170 < MaxLength PROVE System => []SystemInv
<1>1. SystemInit => SystemInv
  BY TypeInit, ChannelStarts DEF SystemInit, SystemInv
<1>2. SystemInv /\ [SystemNext]_systemVars => SystemInv'
  BY ManagerSteps, ChannelKept, TypeStep DEF SystemInv
<1> QED BY <1>1, <1>2, PTL DEF System

(* The manager of the system is the manager: every step of the system is   *)
(* one of NetLayerRM or leaves the manager as it is, and the requests it   *)
(* receives are those of its clients for their services, whatever the      *)
(* network does.  What is proved of the manager holds in the system.       *)
THEOREM SystemRunsManager ==
  ASSUME 170 < MaxLength PROVE System => Spec
<1>1. SystemInit => Init
  BY DEF SystemInit
<1>2. SystemInv /\ [SystemNext]_systemVars => [Next]_vars
  BY ManagerSteps
<1> QED BY <1>1, <1>2, SystemInvariant, PTL DEF System, Spec

-----------------------------------------------------------------------------
(* What the clients have before them was posted to them. *)

ReceivedBy(c) == {AsReceived(p) : p \in {q \in posted : q.to = c}}

ClientInv(c) ==
    /\ queue[c] \in Seq(ReceivedBy(c))
    /\ handling[c] \in ReceivedBy(c) \cup {NoMessage}
    /\ done[c] \in 0..1
    /\ effect[c] \in {NoEffect} \cup [message : ReceivedBy(c), step : 0..2]

ClientsInv ==
    /\ DOMAIN queue = Clients /\ DOMAIN handling = Clients
    /\ DOMAIN done = Clients /\ DOMAIN effect = Clients
    /\ \A c \in Clients : ClientInv(c)

ClockInv ==
    /\ requested \subseteq Clients
    /\ clock \in Nat
    /\ ~Ended => clock <= now

LEMMA ReceivedTyped ==
  ASSUME PostedInv, NEW c PROVE ReceivedBy(c) \subseteq ClientMessages
<1> SUFFICES ASSUME NEW p \in posted PROVE AsReceived(p) \in ClientMessages
  BY DEF ReceivedBy
<1>1. /\ p.type \in MessageTypes /\ p.mode \in Nat
      /\ p.stop \in Timespecs /\ p.reconfig \in Timespecs /\ p.start \in Timespecs
  BY DEF PostedInv, Messages
<1>2. p.mode % 256 \in Nat
  BY <1>1
<1> QED BY <1>1, <1>2 DEF AsReceived, ClientMessages

LEMMA SequencesOfMore ==
  ASSUME NEW S, NEW T, S \subseteq T, NEW s \in Seq(S) PROVE s \in Seq(T)
  OBVIOUS

(* The timestamps a client waits for: two at most. *)
LEMMA TargetsTyped ==
  ASSUME NEW c, NEW m \in ClientMessages
  PROVE  /\ Targets(c, m) \in Seq(Timespecs) /\ Len(Targets(c, m)) \in 0..2
         /\ \A k \in 1..Len(Targets(c, m)) : Total(Targets(c, m)[k]) \in Int
<1>1. m.stop \in Timespecs /\ m.reconfig \in Timespecs /\ m.start \in Timespecs
  BY DEF ClientMessages
<1>2. Targets(c, m) \in {<<>>, <<m.start>>, <<m.reconfig>>, <<m.stop>>, <<m.stop, m.start>>,
                         <<m.reconfig, m.start>>}
  BY DEF Targets, SwitchTargets, EndnodeTargets
<1>3. Targets(c, m) \in Seq(Timespecs) /\ Len(Targets(c, m)) \in 0..2
  <2>0. <<>> \in Seq(Timespecs) /\ Len(<<>>) = 0
    OBVIOUS
  <2>1. \A a, b \in Timespecs : /\ <<a>> \in Seq(Timespecs) /\ Len(<<a>>) = 1
                                /\ <<a, b>> \in Seq(Timespecs) /\ Len(<<a, b>>) = 2
    OBVIOUS
  <2>2. \/ Targets(c, m) = <<>>
        \/ \E a \in Timespecs : Targets(c, m) = <<a>>
        \/ \E a, b \in Timespecs : Targets(c, m) = <<a, b>>
    BY <1>1, <1>2
  <2> DEFINE targets == Targets(c, m)
  <2> HIDE DEF targets
  <2>3. targets \in Seq(Timespecs) /\ (Len(targets) = 0 \/ Len(targets) = 1 \/ Len(targets) = 2)
    <3>1. CASE targets = <<>>
      BY <2>0, <3>1
    <3>2. CASE \E a \in Timespecs : targets = <<a>>
      BY <2>1, <3>2
    <3>3. CASE \E a, b \in Timespecs : targets = <<a, b>>
      BY <2>1, <3>3
    <3> QED BY <2>2, <3>1, <3>2, <3>3 DEF targets
  <2> QED BY <2>3 DEF targets
<1>4. \A t \in Timespecs : Total(t) \in Int
  BY DEF Timespecs, Total
<1> QED BY <1>3, <1>4

LEMMA ReceivedGrows ==
  ASSUME posted \subseteq posted', NEW c PROVE ReceivedBy(c) \subseteq ReceivedBy(c)'
  BY DEF ReceivedBy, AsReceived

LEMMA ClientsWait ==
  ASSUME ClientsInv, UNCHANGED <<queue, handling, done, effect>>, posted \subseteq posted'
  PROVE  ClientsInv'
<1> SUFFICES ASSUME NEW c \in Clients PROVE ClientInv(c)'
  BY DEF ClientsInv
<1>1. ClientInv(c) /\ ReceivedBy(c) \subseteq ReceivedBy(c)'
  BY ReceivedGrows DEF ClientsInv
<1>2. queue[c] \in Seq(ReceivedBy(c)')
  BY <1>1, SequencesOfMore DEF ClientInv
<1> QED BY <1>1, <1>2 DEF ClientInv

(* A step of one client. *)
LEMMA OneClient ==
  ASSUME ClientsInv, NEW c \in Clients, UNCHANGED posted,
         DOMAIN queue' = Clients, DOMAIN handling' = Clients,
         DOMAIN done' = Clients, DOMAIN effect' = Clients,
         \A e \in Clients \ {c} : /\ queue'[e] = queue[e] /\ handling'[e] = handling[e]
                                  /\ done'[e] = done[e] /\ effect'[e] = effect[e],
         ClientInv(c)'
  PROVE  ClientsInv'
<1>1. ASSUME NEW e \in Clients PROVE ClientInv(e)'
  <2>1. CASE e = c
    BY <2>1
  <2>2. CASE e # c
    <3>1. ReceivedBy(e)' = ReceivedBy(e)
      BY DEF ReceivedBy, AsReceived
    <3>2. ClientInv(e)
      BY DEF ClientsInv
    <3> QED BY <2>2, <3>1, <3>2 DEF ClientInv
  <2> QED BY <2>1, <2>2
<1> QED BY <1>1 DEF ClientsInv

LEMMA MessageArrives ==
  ASSUME 170 < MaxLength, ChannelInv, ClientsInv, NEW d \in network, NEW duplicated,
         DeliverControl(d, duplicated)
  PROVE  /\ ClientsInv'
         /\ Side!Next
<1> DEFINE c == d.to
           m == ClientMessage(rm_message'[c])
<1>1. c \in Clients /\ ReceiveControlMessage(d, duplicated) /\ Side!Arrive(c, m)
      /\ UNCHANGED posted
  BY DEF DeliverControl
<1>2. m \in ReceivedBy(c)
  BY <1>1, ControlReceived DEF ReceivedBy
<1>3. m \in ClientMessages
  BY <1>2, ReceivedTyped DEF ChannelInv
<1>4. queue[c] \in Seq(ReceivedBy(c)) /\ ReceivedBy(c)' = ReceivedBy(c)
  BY <1>1 DEF ClientsInv, ClientInv, ReceivedBy, AsReceived
<1> HIDE DEF c, m
<1>5. queue'[c] = Append(queue[c], m) /\ UNCHANGED <<handling, done, effect>>
      /\ queue' = [queue EXCEPT ![c] = Append(@, m)]
  BY <1>1 DEF Side!Arrive, ClientsInv
<1>6. queue'[c] \in Seq(ReceivedBy(c)')
  BY <1>2, <1>4, <1>5
<1>7. ClientInv(c)'
  BY <1>1, <1>4, <1>5, <1>6 DEF ClientInv, ClientsInv
<1>8. ClientsInv'
  BY <1>1, <1>5, <1>7, OneClient DEF ClientsInv
<1> QED BY <1>1, <1>3, <1>8 DEF Side!Next

LEMMA ClientWorks ==
  ASSUME ChannelInv, ClientsInv, NEW c \in Clients, ClientStep(c)
  PROVE  ClientsInv' /\ Side!Next
<1>1. Side!ClientStep(c) /\ UNCHANGED posted
  BY DEF ClientStep
<1> DEFINE received == ReceivedBy(c)
<1>2. /\ queue[c] \in Seq(received) /\ handling[c] \in received \cup {NoMessage}
      /\ done[c] \in 0..1 /\ effect[c] \in {NoEffect} \cup [message : received, step : 0..2]
      /\ ReceivedBy(c)' = received
  BY <1>1 DEF ClientsInv, ClientInv, ReceivedBy, AsReceived
<1>3. \A m \in received : m \in ClientMessages
  BY ReceivedTyped DEF ChannelInv
<1> HIDE DEF received
<1>4. ASSUME Side!Idle(c)
      PROVE  Side!Oldest(c) \in received /\ Tail(queue[c]) \in Seq(received)
  BY <1>2, <1>4 DEF Side!Idle, Side!Oldest
<1>5. \A m \in received, step \in 0..2 : \A old, time :
          Effect(c, m, step, old, time) \in [message : received, step : 0..2]
  BY DEF Effect
<1>6. SUFFICES /\ queue'[c] \in Seq(received) /\ handling'[c] \in received \cup {NoMessage}
               /\ done'[c] \in 0..1
               /\ effect'[c] \in {NoEffect} \cup [message : received, step : 0..2]
               /\ DOMAIN queue' = Clients /\ DOMAIN handling' = Clients
               /\ DOMAIN done' = Clients /\ DOMAIN effect' = Clients
               /\ \A e \in Clients \ {c} :
                     /\ queue'[e] = queue[e] /\ handling'[e] = handling[e]
                     /\ done'[e] = done[e] /\ effect'[e] = effect[e]
  <2>1. ClientInv(c)'
    BY <1>2, <1>6 DEF ClientInv
  <2>2. ClientsInv'
    BY <1>1, <1>6, <2>1, OneClient
  <2> QED BY <1>1, <2>2 DEF Side!Next
<1>7. CASE Side!HandleAtOnce(c)
  <2> DEFINE new == Effect(c, Side!Oldest(c), 0, effect[c], clock)
  <2>1. /\ queue' = [queue EXCEPT ![c] = Tail(@)] /\ effect' = [effect EXCEPT ![c] = new]
        /\ UNCHANGED <<handling, done>> /\ Side!Idle(c)
    BY <1>7 DEF Side!HandleAtOnce, ClientsInv
  <2>2. new \in [message : received, step : 0..2]
    BY <1>4, <1>5, <2>1
  <2> HIDE DEF new
  <2> QED BY <1>2, <1>4, <2>1, <2>2 DEF ClientsInv
<1>8. CASE Side!Begin(c)
  <2>1. /\ queue' = [queue EXCEPT ![c] = Tail(@)]
        /\ handling' = [handling EXCEPT ![c] = Side!Oldest(c)]
        /\ UNCHANGED <<effect, done>> /\ Side!Idle(c)
    BY <1>8 DEF Side!Begin
  <2> QED BY <1>2, <1>4, <2>1 DEF ClientsInv
<1>9. CASE Side!Abandon(c)
  <2>1. /\ handling' = [handling EXCEPT ![c] = NoMessage]
        /\ done' = [done EXCEPT ![c] = 0]
        /\ UNCHANGED <<queue, effect>>
    BY <1>9 DEF Side!Abandon
  <2> QED BY <1>2, <2>1 DEF ClientsInv
<1>10. ASSUME handling[c] # NoMessage, NEW k \in Side!Left(c), Side!Act(c, k)
       PROVE  /\ queue'[c] \in Seq(received) /\ handling'[c] \in received \cup {NoMessage}
              /\ done'[c] \in 0..1
              /\ effect'[c] \in {NoEffect} \cup [message : received, step : 0..2]
              /\ DOMAIN queue' = Clients /\ DOMAIN handling' = Clients
              /\ DOMAIN done' = Clients /\ DOMAIN effect' = Clients
              /\ \A e \in Clients \ {c} :
                    /\ queue'[e] = queue[e] /\ handling'[e] = handling[e]
                    /\ done'[e] = done[e] /\ effect'[e] = effect[e]
  <2> DEFINE m == handling[c]
             last == Len(Targets(c, m))
             new == Effect(c, m, k, effect[c], clock)
  <2>1. m \in received /\ last \in 0..2
    BY <1>2, <1>3, <1>10, TargetsTyped
  <2>2. k \in (done[c] + 1)..last
    BY <1>10 DEF Side!Left
  <2>3. k \in 1..2 /\ (k # last => k = 1)
    <3> HIDE DEF last, m
    <3>0. done[c] \in 0..1 /\ last \in 0..2
      BY <1>2, <2>1
    <3>1. done[c] \in Int /\ done[c] >= 0 /\ last \in Int /\ last <= 2
      BY <3>0
    <3>2. k \in Int /\ done[c] + 1 <= k /\ k <= last
      BY <2>2, <3>1
    <3> QED BY <3>1, <3>2
  <2>4. new \in [message : received, step : 0..2]
    BY <1>5, <2>1, <2>3
  <2>5. /\ effect' = [effect EXCEPT ![c] = new] /\ UNCHANGED queue
        /\ \/ /\ handling' = [handling EXCEPT ![c] = NoMessage]
              /\ done' = [done EXCEPT ![c] = 0]
           \/ /\ UNCHANGED handling /\ done' = [done EXCEPT ![c] = 1]
    BY <1>10, <2>3 DEF Side!Act, ClientsInv
  <2> HIDE DEF m, new, last
  <2> QED BY <1>2, <2>4, <2>5 DEF ClientsInv
<1> QED BY <1>1, <1>7, <1>8, <1>9, <1>10 DEF Side!ClientStep

(* The clock goes on to a moment of the manager or of a client. *)
LEMMA ClockTicks ==
  ASSUME TypeOK, ChannelInv, ClientsInv, ClockInv, Tick
  PROVE  ClockInv' /\ ClientsInv' /\ Side!Next
<1>1. PICK time \in Moments : time <= LastMoment /\ Side!Tick(time)
  BY DEF Tick
<1>2. time > clock /\ clock' = time /\ UNCHANGED <<queue, handling, done, since, effect>>
  BY <1>1 DEF Side!Tick
<1>3. UNCHANGED <<vars, requested, posted>>
  BY DEF Tick
<1>4. UNCHANGED <<pc, now>>
  BY <1>3 DEF vars, timeVars
<1>5. now \in Nat /\ clock \in Nat /\ LastMoment \in Nat /\ (~Ended => LastMoment = now)
  BY SystemConstants DEF TypeOK, ClockInv, LastMoment
<1>6. time \in Int
  <2>1. CASE time = LastMoment
    BY <1>5, <2>1
  <2>2. ASSUME NEW c \in Clients, handling[c] # NoMessage, NEW k \in Side!Left(c)
        PROVE  Total(Side!Target(c, k)) + 1 \in Int
    <3>1. handling[c] \in ClientMessages /\ done[c] \in Nat
      BY <2>2, ReceivedTyped DEF ClientsInv, ClientInv, ChannelInv
    <3>2. k \in 1..Len(Targets(c, handling[c]))
      BY <3>1, TargetsTyped DEF Side!Left
    <3> QED BY <3>1, <3>2, TargetsTyped DEF Side!Target
  <2> QED BY <2>1, <2>2 DEF Moments
<1>7. clock' \in Nat
  BY <1>2, <1>5, <1>6
<1>8. ClockInv'
  BY <1>1, <1>2, <1>3, <1>4, <1>5, <1>7 DEF ClockInv, Ended
<1>9. ClientsInv'
  BY <1>2, <1>3, ClientsWait
<1> QED BY <1>1, <1>2, <1>7, <1>8, <1>9 DEF Side!Next

-----------------------------------------------------------------------------
(* Every step of the system is one of its clients or none. *)

LEMMA TimeGoesOn ==
  ASSUME TypeOK, TimerStep PROVE now' \in Nat /\ now' >= now
<1>1. now \in Nat
  BY DEF TypeOK
<1>2. ASSUME NEW duration \in Nat, Passes(duration) PROVE now' \in Nat /\ now' >= now
  <2>1. PICK d \in Delays : now' = now + duration + d
    BY <1>2 DEF Passes
  <2> QED BY <1>1, <2>1, Durations
<1>3. CASE InitialStart \/ ExperimentSelection \/ StoppingExperiment
  BY <1>2, <1>3, Durations DEF InitialStart, ExperimentSelection, StoppingExperiment
<1>4. CASE Gap
  <2>1. PICK gap \in (GapMin \div 1000)..(GapMax \div 1000) : Passes(1000 * gap)
    BY <1>4 DEF Gap
  <2>2. 1000 * gap \in Nat
    BY Durations
  <2> QED BY <1>2, <2>1, <2>2
<1>5. CASE Serve \/ EndSweep \/ PlanRound \/ EndExperiment
  BY <1>1, <1>5 DEF Serve, EndSweep, PlanRound, EndExperiment, timeVars
<1> QED BY <1>3, <1>4, <1>5 DEF TimerStep

WholeInv == SystemInv /\ ClientsInv /\ ClockInv

LEMMA ClientSteps ==
  ASSUME 170 < MaxLength, WholeInv, [SystemNext]_systemVars
  PROVE  ClientsInv' /\ ClockInv' /\ [Side!Next]_(Side!vars)
<1> USE DEF WholeInv, SystemInv
<1>1. ASSUME UNCHANGED <<pc, now, requested, clock>> PROVE ClockInv'
  BY <1>1 DEF ClockInv, Ended
<1>2. ASSUME UNCHANGED clientVars, posted \subseteq posted'
      PROVE  ClientsInv' /\ UNCHANGED Side!vars
  BY <1>2, ClientsWait DEF clientVars, Side!vars
<1>3. ASSUME NEW c \in Clients, RequestResources(c) PROVE ClientsInv' /\ ClockInv' /\ UNCHANGED Side!vars
  <2>1. /\ UNCHANGED <<pc, now, clock, posted>> /\ UNCHANGED clientVars
        /\ requested' = requested \cup {c}
    BY <1>3 DEF RequestResources, vars, timeVars, clientVars, historyVars
  <2> QED BY <1>2, <2>1 DEF ClockInv, Ended
<1>4. ASSUME NEW c \in Clients, ClientStep(c) PROVE ClientsInv' /\ ClockInv' /\ Side!Next
  <2>1. UNCHANGED <<pc, now, requested>> /\ Side!ClientStep(c)
    BY <1>4 DEF ClientStep, vars, timeVars
  <2>2. UNCHANGED clock
    BY <2>1 DEF Side!ClientStep, Side!HandleAtOnce, Side!Begin, Side!Abandon, Side!Act
  <2> QED BY <1>1, <1>4, <2>1, <2>2, ClientWorks
<1>5. ASSUME NEW d \in network, NEW duplicated, DeliverRequest(d, duplicated)
      PROVE  ClientsInv' /\ ClockInv' /\ UNCHANGED Side!vars
  <2>1. UNCHANGED <<pc, now, requested, clock, posted>> /\ UNCHANGED clientVars
    BY <1>5 DEF DeliverRequest, ReceiveMessage, timeVars, clientVars, historyVars
  <2> QED BY <1>1, <1>2, <2>1
<1>6. ASSUME NEW d \in network, NEW duplicated, DeliverControl(d, duplicated)
      PROVE  ClientsInv' /\ ClockInv' /\ Side!Next
  <2>1. UNCHANGED <<pc, now, requested, clock>>
    BY <1>6 DEF DeliverControl, vars, timeVars, Side!Arrive
  <2> QED BY <1>1, <1>6, <2>1, MessageArrives
<1>7. ASSUME NEW d \in network, LoseDatagram(d)
      PROVE  ClientsInv' /\ ClockInv' /\ UNCHANGED Side!vars
  <2>1. UNCHANGED <<pc, now, requested, clock, posted>> /\ UNCHANGED clientVars
    BY <1>7 DEF LoseDatagram, vars, timeVars, clientVars, historyVars
  <2> QED BY <1>1, <1>2, <2>1
<1>8. CASE ManagerHandles
  <2>1. UNCHANGED <<pc, now, requested, clock, posted>> /\ UNCHANGED clientVars
    BY <1>8 DEF ManagerHandles, HandlerStep, HandleMessage, InsertService, timeVars,
                clientVars, historyVars
  <2> QED BY <1>1, <1>2, <2>1
<1>9. CASE ManagerStep
  <2>1. UNCHANGED clientVars /\ UNCHANGED <<requested, clock>> /\ posted \subseteq posted'
        /\ clock = now /\ TimerStep
    BY <1>9 DEF ManagerStep, clientVars
  <2>2. now' >= now
    BY <2>1, TimeGoesOn
  <2>3. ClockInv'
    BY <2>1, <2>2 DEF ClockInv
  <2> QED BY <1>2, <2>1, <2>3
<1>10. CASE Tick
  BY <1>10, ClockTicks
<1>11. CASE UNCHANGED systemVars
  <2>1. UNCHANGED <<pc, now, requested, clock, posted>> /\ UNCHANGED clientVars
    BY <1>11 DEF systemVars, vars, timeVars, clientVars, historyVars
  <2> QED BY <1>1, <1>2, <2>1
<1> QED BY <1>3, <1>4, <1>5, <1>6, <1>7, <1>8, <1>9, <1>10, <1>11 DEF SystemNext

LEMMA ClientsStart ==
  ASSUME SystemInit PROVE ClientsInv /\ ClockInv /\ Side!Init
<1>1. Side!Init /\ requested = {} /\ clock = now
  BY DEF SystemInit
<1>2. now \in Nat
  BY TypeInit DEF SystemInit, TypeOK
<1>3. ClientsInv
  BY <1>1 DEF Side!Init, ClientsInv, ClientInv
<1> QED BY <1>1, <1>2, <1>3 DEF ClockInv

LEMMA WholeInvariant ==
  ASSUME 170 < MaxLength PROVE System => []WholeInv
<1>1. SystemInit => ClientsInv /\ ClockInv
  BY ClientsStart
<1>2. WholeInv /\ [SystemNext]_systemVars => ClientsInv' /\ ClockInv'
  BY ClientSteps
<1>3. SystemInv /\ ClientsInv /\ ClockInv => WholeInv
  BY DEF WholeInv
<1>4. WholeInv => SystemInv /\ ClientsInv /\ ClockInv
  BY DEF WholeInv
<1> QED BY <1>1, <1>2, <1>3, <1>4, SystemInvariant, PTL DEF System

(* The clients of the system are the clients of TimedClient, which the     *)
(* programs of the end nodes and of the switches implement: nothing the    *)
(* manager or the network does is a step that a client cannot take.        *)
THEOREM SystemRunsClients ==
  ASSUME 170 < MaxLength PROVE System => Side!Spec
<1>1. SystemInit => Side!Init
  BY ClientsStart
<1>2. WholeInv /\ [SystemNext]_systemVars => [Side!Next]_(Side!vars)
  BY ClientSteps
<1> QED BY <1>1, <1>2, WholeInvariant, PTL DEF System, Side!Spec

(* The variables of the system have their types: what a client receives is *)
(* decoded to a message with timestamps, whatever was received before it,  *)
(* and the clock does not overtake the manager.                            *)
THEOREM SystemTypeCorrect ==
  ASSUME 170 < MaxLength PROVE System => []SystemTypeOK
<1>1. WholeInv => SystemTypeOK
  <2> SUFFICES ASSUME WholeInv PROVE SystemTypeOK
    OBVIOUS
  <2> USE DEF WholeInv, SystemInv
  <2>1. ASSUME NEW d \in network PROVE d.to \in Clients \cup {RM, Loopback}
    <3>1. CASE IsRequest(d)
      BY <3>1 DEF IsRequest, RequestOf
    <3>2. ASSUME NEW p \in posted, d = DatagramOf(p) PROVE d.to \in Clients \cup {Loopback}
      <4>1. p \in Messages
        BY DEF ChannelInv, PostedInv
      <4>2. p.to \in Clients \cup {Loopback}
        BY <4>1 DEF Messages
      <4> QED BY <3>2, <4>2 DEF DatagramOf
    <3> QED BY <3>1, <3>2 DEF ChannelInv, NetworkInv
  <2>2. ASSUME NEW c \in Clients
        PROVE  /\ queue[c] \in Seq(ClientMessages)
               /\ handling[c] \in ClientMessages \cup {NoMessage}
               /\ done[c] \in 0..1 /\ effect[c] \in Effects
    <3>1. ClientInv(c) /\ ReceivedBy(c) \subseteq ClientMessages
      BY ReceivedTyped DEF ClientsInv, ChannelInv
    <3>2. queue[c] \in Seq(ClientMessages)
      BY <3>1, SequencesOfMore DEF ClientInv
    <3> QED BY <3>1, <3>2 DEF ClientInv, Effects
  <2> QED BY <2>1, <2>2 DEF ClockInv, SystemTypeOK
<1> QED BY <1>1, WholeInvariant, PTL

-----------------------------------------------------------------------------
(* The modes of the clients. *)

(* What the manager may set a client to while the experiment runs. *)
ModesOf(c) ==
    {mode \in Nat :
        \/ c \in DOMAIN StartupMode /\ mode = StartupMode[c]
        \/ \E m \in NetworkModes : /\ c \in DOMAIN ReconfigurationMap[m]
                                    /\ mode = ReconfigurationMap[m][c]}

(* A mode is a byte of the header. *)
ModesFit == \A c \in Clients : \A mode \in ModesOf(c) : mode < 256

LEMMA SweepMessageMode ==
  ASSUME TypeOK, pc \in Sweeps, NEW s \in Listed, HasMode(pc, s)
  PROVE  /\ pc = "stop" => SweepMessage(s).mode = 10
         /\ pc # "stop" => SweepMessage(s).mode \in ModesOf(service_list[s])
<1> DEFINE c == service_list[s]
<1>1. CASE pc = "start"
  <2>1. SweepMessage(s).mode = StartupMode[c] /\ c \in DOMAIN StartupMode
    BY <1>1 DEF SweepMessage, StartMessage, Message, HasMode
  <2>2. StartupMode[c] \in Nat
    BY <2>1, ManagerAssumption DEF ManagerAssumption
  <2> QED BY <1>1, <2>1, <2>2 DEF ModesOf
<1>2. CASE pc = "round"
  <2> DEFINE mode == ReconfigurationMap[NetworkMode][c]
  <2>1. NetworkMode \in NetworkModes /\ c \in DOMAIN ReconfigurationMap[NetworkMode]
    BY <1>2 DEF HasMode
  <2>2. mode \in Nat
    BY <2>1, ManagerAssumption DEF ManagerAssumption
  <2>3. /\ PlainMessage(s, mode).mode = mode /\ TimestampMessage(s, mode).mode = mode
        /\ HyperperiodMessage(s, mode).mode = mode
    BY DEF PlainMessage, TimestampMessage, HyperperiodMessage, Message
  <2>4. SweepMessage(s).mode = mode
    BY <1>2, <2>3 DEF SweepMessage, RoundMessage
  <2> HIDE DEF mode
  <2>5. mode \in ModesOf(c)
    BY <2>1, <2>2 DEF ModesOf, mode
  <2> QED BY <1>2, <2>4, <2>5
<1>3. CASE pc = "stop"
  BY <1>3 DEF SweepMessage, StopMessage, Message
<1> QED BY <1>1, <1>2, <1>3 DEF Sweeps

PostedModes == \A p \in posted : p.mode < 256

LEMMA ModesInvariant ==
  ASSUME 170 < MaxLength, ModesFit PROVE System => []PostedModes
<1>1. SystemInit => PostedModes
  BY DEF SystemInit, PostedModes
<1>2. SystemInv /\ PostedModes /\ [SystemNext]_systemVars => PostedModes'
  <2> SUFFICES ASSUME SystemInv, PostedModes, [SystemNext]_systemVars PROVE PostedModes'
    OBVIOUS
  <2>1. CASE UNCHANGED posted
    BY <2>1 DEF PostedModes
  <2>2. ASSUME cursor \in Listed, pc \in Sweeps, HasMode(pc, cursor)
        PROVE  SweepMessage(cursor).mode < 256
    <3>1. service_list[cursor] \in Clients
      BY <2>2 DEF SystemInv, TypeOK
    <3> QED BY <2>2, <3>1, SweepMessageMode DEF ModesFit, SystemInv
  <2> QED BY <2>1, <2>2, ManagerMoves, ManagerPosts DEF PostedModes, SystemInv
<1> QED BY <1>1, <1>2, SystemInvariant, PTL DEF System

(* What a client has before it or has done was sent to it by the manager,  *)
(* with this type, mode and these timestamps: whatever is lost, doubled,   *)
(* late or overtaken, and although objects and buffers are used again, no  *)
(* client carries out another's message or a mixture of two.               *)
THEOREM HandledWasSent ==
  ASSUME 170 < MaxLength, ModesFit PROVE System => []HandledAsSent
<1>1. WholeInv /\ PostedModes => HandledAsSent
  <2> SUFFICES ASSUME WholeInv, PostedModes, NEW c \in Clients, NEW m \in Seen(c)
               PROVE  \E p \in posted :
                         /\ p.to = c
                         /\ m = [type |-> p.type, mode |-> p.mode, stop |-> p.stop,
                                 reconfig |-> p.reconfig, start |-> p.start]
    BY DEF HandledAsSent
  <2>1. ClientInv(c)
    BY DEF WholeInv, ClientsInv
  <2>2. \A i \in DOMAIN queue[c] : queue[c][i] \in ReceivedBy(c)
    BY <2>1 DEF ClientInv
  <2>3. m \in ReceivedBy(c)
    BY <2>1, <2>2 DEF Seen, Waiting, ClientInv
  <2>4. PICK p \in posted : p.to = c /\ m = AsReceived(p)
    BY <2>3 DEF ReceivedBy
  <2>5. p.mode \in Nat /\ p.mode < 256
    BY Addresses DEF WholeInv, SystemInv, ChannelInv, PostedModes
  <2>6. p.mode % 256 = p.mode
    BY <2>5
  <2> QED BY <2>4, <2>6 DEF AsReceived
<1> QED BY <1>1, WholeInvariant, ModesInvariant, PTL

-----------------------------------------------------------------------------
(* Who is registered, and the slots of what is posted. *)

(* A client asks for its own service. *)
OwnService(r) == r.service = ServiceOf[r.client]

RegisteredInv ==
    /\ \A i \in DOMAIN nRM_in_handle_queue : OwnService(nRM_in_handle_queue[i])
    /\ inserting # NoService => OwnService(inserting)
    /\ \A s \in Listed : s = ServiceOf[service_list[s]]

LEMMA RegisteredKept ==
  ASSUME TypeOK, RegisteredInv,
         \/ \E c \in Clients : ReceiveMessage(ServiceOf[c], c)
         \/ HandlerStep \/ TimerStep \/ UNCHANGED vars
  PROVE  RegisteredInv'
<1> USE DEF handlerVars
<1>0. nRM_in_handle_queue \in Seq(Requested)
  BY DEF TypeOK
<1>1. ASSUME NEW c \in Clients, ReceiveMessage(ServiceOf[c], c) PROVE RegisteredInv'
  <2> DEFINE r == [service |-> ServiceOf[c], client |-> c]
  <2>1. /\ nRM_in_handle_queue' = Append(nRM_in_handle_queue, r)
        /\ UNCHANGED <<inserting, service_list>>
    BY <1>1 DEF ReceiveMessage
  <2>2. OwnService(r)
    BY DEF OwnService
  <2>3. r \in Requested
    BY SystemConstants DEF Requested
  <2> HIDE DEF r
  <2>4. \A i \in DOMAIN nRM_in_handle_queue' :
            \/ nRM_in_handle_queue'[i] = r
            \/ i \in DOMAIN nRM_in_handle_queue /\ nRM_in_handle_queue'[i] = nRM_in_handle_queue[i]
    BY <1>0, <2>1, <2>3
  <2> QED BY <2>1, <2>2, <2>4 DEF RegisteredInv, Listed, OwnService
<1>2. CASE HandleMessage
  <2>1. nRM_in_handle_queue # <<>> /\ nRM_in_handle_queue' = Tail(nRM_in_handle_queue)
        /\ inserting' \in {NoService, Head(nRM_in_handle_queue)} /\ UNCHANGED service_list
    BY <1>2 DEF HandleMessage
  <2>2. \A i \in DOMAIN nRM_in_handle_queue' :
            i + 1 \in DOMAIN nRM_in_handle_queue
            /\ nRM_in_handle_queue'[i] = nRM_in_handle_queue[i + 1]
    BY <1>0, <2>1
  <2>3. 1 \in DOMAIN nRM_in_handle_queue
        /\ Head(nRM_in_handle_queue) = nRM_in_handle_queue[1]
    BY <1>0, <2>1
  <2> QED BY <2>1, <2>2, <2>3 DEF RegisteredInv, Listed, OwnService
<1>3. CASE InsertService
  BY <1>3 DEF InsertService, RegisteredInv, Listed, OwnService
<1>4. CASE TimerStep \/ UNCHANGED vars
  <2>1. UNCHANGED <<nRM_in_handle_queue, inserting, service_list>>
    BY <1>4 DEF TimerStep, InitialStart, Serve, EndSweep, ExperimentSelection, PlanRound, Gap,
                EndExperiment, StoppingExperiment, vars
  <2> QED BY <2>1 DEF RegisteredInv, Listed, OwnService
<1> QED BY <1>1, <1>2, <1>3, <1>4 DEF HandlerStep

LEMMA RegisteredInvariant ==
  ASSUME 170 < MaxLength PROVE System => []RegisteredInv
<1>1. SystemInit => RegisteredInv
  BY DEF SystemInit, Init, RegisteredInv, Listed
<1>2. SystemInv /\ RegisteredInv /\ [SystemNext]_systemVars => RegisteredInv'
  BY ManagerMoves, RegisteredKept DEF SystemInv, ManagerStep
<1> QED BY <1>1, <1>2, SystemInvariant, PTL DEF System

(* A restart that is posted to a client is that of its service, in one of  *)
(* its modes, the slot after a point of the grid of hyperperiods.          *)
Restarts(p) ==
    p.to \in Clients /\ p.start # Zero /\ p.type # "RM_CLIENT_SYNC_TIMESTAMP_EXIT"

SlotInv(p) ==
    Restarts(p) => /\ p.service = ServiceOf[p.to]
                   /\ p.mode \in ModesOf(p.to)
                   /\ (Base(p) - Total(grid)) % 100 = 0

PostedSlots ==
    OnHyperperiods => /\ pc = "init" => posted = {}
                      /\ \A p \in posted : SlotInv(p)

LEMMA GridStays ==
  ASSUME TimerStep, pc # "init" PROVE UNCHANGED grid /\ pc' # "init"
  BY DEF TimerStep, InitialStart, Serve, EndSweep, ExperimentSelection, PlanRound, Gap,
         EndExperiment, StoppingExperiment, BeginSweep, AfterSweep, timeVars, Sweeps

LEMMA SweepMessageSlot ==
  ASSUME TypeOK, GridInv, RegisteredInv, OnHyperperiods, DistributionPhase % 100 = 0,
         pc \in Sweeps, cursor \in Listed, HasMode(pc, cursor)
  PROVE  SlotInv(SweepMessage(cursor))
<1> DEFINE p == SweepMessage(cursor)
           c == service_list[cursor]
<1> SUFFICES ASSUME Restarts(p)
             PROVE  /\ p.service = ServiceOf[p.to] /\ p.mode \in ModesOf(p.to)
                    /\ (Base(p) - Total(grid)) % 100 = 0
  BY DEF SlotInv
<1>1. p.to = ClientAddress(c)
  BY DEF SweepMessage, StartMessage, RoundMessage, StopMessage, HyperperiodMessage,
         TimestampMessage, PlainMessage, Message
<1>2. p.to = c
  BY <1>1, SystemConstants DEF ClientAddress, Restarts
<1>3. p.service = cursor /\ cursor = ServiceOf[c]
  BY SweepMessageService DEF RegisteredInv
<1>4. pc \in {"start", "round"}
  <2>1. pc = "stop" => p.type = "RM_CLIENT_SYNC_TIMESTAMP_EXIT"
    BY DEF SweepMessage, StopMessage, Message, OnHyperperiods, HyperperiodExperiments,
           TimestampExperiments
  <2> QED BY <2>1 DEF Sweeps, Restarts
<1>5. p.mode \in ModesOf(c)
  BY <1>4, SweepMessageMode
<1>6. Base(p) = 1000 * target.sec
  BY <1>4, SweepMessageBase
<1>7. grid.ms = DistributionPhase % 1000 /\ grid \in Timespecs /\ target.sec \in Int
  BY <1>4 DEF GridInv, TypeOK, Timespecs
<1>8. (1000 * target.sec - Total(grid)) % 100 = 0
  BY <1>7, SecondsOnGrid
<1> QED BY <1>2, <1>3, <1>5, <1>6, <1>8

LEMMA SlotsInvariant ==
  ASSUME 170 < MaxLength, DistributionPhase % 100 = 0
  PROVE  System => []PostedSlots
<1>1. SystemInit => PostedSlots
  BY DEF SystemInit, PostedSlots
<1>2. SystemInv /\ GridInv /\ RegisteredInv /\ PostedSlots /\ [SystemNext]_systemVars
        => PostedSlots'
  <2> SUFFICES ASSUME SystemInv, GridInv, RegisteredInv, PostedSlots, [SystemNext]_systemVars
               PROVE  PostedSlots'
    OBVIOUS
  <2>2. ASSUME OnHyperperiods, UNCHANGED <<posted, grid>>, pc' = "init" => pc = "init"
        PROVE  PostedSlots'
    BY <2>2 DEF PostedSlots, SlotInv, Restarts, Base
  <2>3. ASSUME HandlerStep \/ UNCHANGED vars
               \/ \E c \in Clients : ReceiveMessage(ServiceOf[c], c)
        PROVE  UNCHANGED <<pc, grid>>
    BY <2>3 DEF HandlerStep, HandleMessage, InsertService, ReceiveMessage, vars, timeVars
  <2>4. ASSUME OnHyperperiods, ManagerStep PROVE PostedSlots'
    <3>1. TimerStep
      BY <2>4 DEF ManagerStep
    <3>2. CASE pc = "init"
      <4>1. UNCHANGED posted
        BY <2>4, <3>2, ManagerPosts DEF SystemInv, Sweeps
      <4> QED BY <2>4, <3>2, <4>1 DEF PostedSlots
    <3>3. CASE pc # "init"
      <4>1. UNCHANGED grid /\ pc' # "init"
        BY <3>1, <3>3, GridStays
      <4>2. CASE UNCHANGED posted
        BY <2>2, <2>4, <4>1, <4>2
      <4>3. CASE /\ pc \in Sweeps /\ cursor \in Listed /\ HasMode(pc, cursor)
                 /\ posted' = posted \cup {SweepMessage(cursor)}
        <5>1. SlotInv(SweepMessage(cursor))
          BY <2>4, <4>3, SweepMessageSlot DEF SystemInv
        <5>2. \A p \in posted' : SlotInv(p)
          BY <2>4, <4>3, <5>1 DEF PostedSlots
        <5>3. \A p : SlotInv(p)' = SlotInv(p)
          BY <4>1 DEF SlotInv, Restarts, Base
        <5> QED BY <2>4, <4>1, <5>2, <5>3 DEF PostedSlots
      <4> QED BY <2>4, <4>2, <4>3, ManagerPosts DEF SystemInv
    <3> QED BY <3>2, <3>3
  <2>5. ~OnHyperperiods => PostedSlots'
    BY DEF PostedSlots, OnHyperperiods
  <2> QED BY <2>2, <2>3, <2>4, <2>5, ManagerMoves
<1> QED BY <1>1, <1>2, SystemInvariant, SystemRunsManager, GridInvariant, RegisteredInvariant, PTL
     DEF System

-----------------------------------------------------------------------------
(* Slots of the hyperperiod. *)

(* The configuration gives two clients different slots in whatever modes   *)
(* they are.                                                               *)
SlotsApart(c, d) ==
    \A m \in ModesOf(c), n \in ModesOf(d) :
        (Slot(ServiceOf[c], m) - Slot(ServiceOf[d], n)) % 100 # 0

(* A client that transmits started in its slot of a hyperperiod.           *)
LEMMA TransmitsInSlot ==
  ASSUME WholeInv, PostedModes, PostedSlots, OnHyperperiods, NEW c \in EndNodes, Transmits(c)
  PROVE  /\ Total(effect[c].message.start) \in Int
         /\ \E m \in ModesOf(c) :
               (Total(effect[c].message.start) - Slot(ServiceOf[c], m) - Total(grid)) % 100 = 0
<1>1. c \in Clients /\ ClientInv(c)
  BY DEF EndNodes, WholeInv, ClientsInv
<1>2. effect[c].message \in ReceivedBy(c)
  BY <1>1 DEF Transmits, ClientInv
<1>3. PICK p \in posted : p.to = c /\ effect[c].message = AsReceived(p)
  BY <1>2 DEF ReceivedBy
<1>4. effect[c].message.start = p.start /\ effect[c].message.type = p.type
  BY <1>3 DEF AsReceived
<1>5. Restarts(p)
  BY <1>1, <1>3, <1>4 DEF Transmits, Restarts
<1>6. p.service = ServiceOf[c] /\ p.mode \in ModesOf(c) /\ (Base(p) - Total(grid)) % 100 = 0
  BY <1>3, <1>5 DEF PostedSlots, SlotInv
<1>7. p.start \in Timespecs
  BY DEF WholeInv, SystemInv, ChannelInv, PostedInv, Messages
<1>8. Total(p.start) \in Int
  BY <1>7 DEF Total, Timespecs
<1> QED BY <1>4, <1>6, <1>8 DEF Base

LEMMA DifferentSlots ==
  ASSUME NEW a \in Int, NEW b \in Int, NEW s \in Int, NEW t \in Int, NEW g \in Int,
         (a - s - g) % 100 = 0, (b - t - g) % 100 = 0, (s - t) % 100 # 0
  PROVE  (a - b) % 100 # 0
<1> DEFINE q == (a - s - g) \div 100
           r == (b - t - g) \div 100
           k == (a - b) \div 100
<1>1. q \in Int /\ r \in Int /\ a - s - g = 100 * q /\ b - t - g = 100 * r
  OBVIOUS
<1>2. SUFFICES ASSUME (a - b) % 100 = 0 PROVE FALSE
  OBVIOUS
<1>3. k \in Int /\ a - b = 100 * k
  BY <1>2
<1> HIDE DEF q, r, k
<1>4. s - t = 100 * (k - q + r)
  BY <1>1, <1>3
<1>5. \A j \in Int : (100 * j) % 100 = 0
  OBVIOUS
<1> QED BY <1>1, <1>3, <1>4, <1>5

LEMMA PairApart ==
  ASSUME WholeInv, PostedModes, PostedSlots, OnHyperperiods,
         NEW c \in EndNodes, NEW d \in EndNodes, SlotsApart(c, d), Transmits(c), Transmits(d)
  PROVE  (Total(effect[c].message.start) - Total(effect[d].message.start)) % 100 # 0
<1> DEFINE a == Total(effect[c].message.start)
           b == Total(effect[d].message.start)
           g == Total(grid)
<1>1. a \in Int /\ b \in Int
  BY TransmitsInSlot
<1>2. PICK m \in ModesOf(c) : (a - Slot(ServiceOf[c], m) - g) % 100 = 0
  BY TransmitsInSlot
<1>3. PICK n \in ModesOf(d) : (b - Slot(ServiceOf[d], n) - g) % 100 = 0
  BY TransmitsInSlot
<1> DEFINE s == Slot(ServiceOf[c], m)
           t == Slot(ServiceOf[d], n)
<1>4. (s - t) % 100 # 0
  BY DEF SlotsApart
<1>5. g \in Int
  BY DEF WholeInv, SystemInv, TypeOK, Timespecs, Total
<1>6. s \in Int /\ t \in Int
  BY SlotType
<1>7. (a - s - g) % 100 = 0 /\ (b - t - g) % 100 = 0
  BY <1>2, <1>3
<1> HIDE DEF a, b, g, s, t
<1>8. (a - b) % 100 # 0
  BY <1>1, <1>4, <1>5, <1>6, <1>7, DifferentSlots
<1> QED BY <1>8 DEF a, b

(* Two end nodes whose slots are apart never transmit at the same place of *)
(* the hyperperiod, whichever rounds the messages they got have left them  *)
(* in: it takes the hyperperiod of the code, a distribution phase that is  *)
(* a multiple of it, and nothing of the network.                           *)
THEOREM PairsKeepTheirSlots ==
  ASSUME 170 < MaxLength, ModesFit, OnHyperperiods,
         HyperperiodDuration = 100, DistributionPhase % 100 = 0,
         NEW c \in EndNodes, NEW d \in EndNodes, SlotsApart(c, d)
  PROVE  System => [](Transmits(c) /\ Transmits(d) =>
                        (Total(effect[c].message.start) - Total(effect[d].message.start))
                            % HyperperiodDuration # 0)
<1>1. WholeInv /\ PostedModes /\ PostedSlots =>
        (Transmits(c) /\ Transmits(d) =>
            (Total(effect[c].message.start) - Total(effect[d].message.start))
                % HyperperiodDuration # 0)
  BY PairApart
<1> QED BY <1>1, WholeInvariant, ModesInvariant, SlotsInvariant, PTL

(* When that holds of any two end nodes, all of them keep their slots.     *)
THEOREM SlotsStayApart ==
  ASSUME 170 < MaxLength, ModesFit, OnHyperperiods,
         HyperperiodDuration = 100, DistributionPhase % 100 = 0,
         \A c, d \in EndNodes : c # d => SlotsApart(c, d)
  PROVE  System => []SlotsKept
<1>1. WholeInv /\ PostedModes /\ PostedSlots => SlotsKept
  BY PairApart DEF SlotsKept
<1> QED BY <1>1, WholeInvariant, ModesInvariant, SlotsInvariant, PTL

-----------------------------------------------------------------------------
(* The rounds a client is sent follow one another at a distance. *)

(* What was sent for a sweep before is over before the target, by what a   *)
(* message of this sweep may come before it.                               *)
Past(p, slack) ==
    \A t \in StampsOf(p) :
        1000 * (t.sec + 1) + slack + ReconfigOffset <= 1000 * target.sec

Current(p) == p.service \in Listed /\ p = SweepMessage(p.service)

(* The seconds of p's timestamps are over when those of q pass. *)
Before(p, q, slack) ==
    \A t \in StampsOf(p), u \in StampsOf(q) : 1000 * (t.sec + 1) + slack <= Total(u)

Apart(p, q, slack) == p.to = q.to /\ p.to \in Clients => p = q \/ Before(p, q, slack) \/ Before(q, p, slack)

Banded(p, span) ==
    \A t \in StampsOf(p) :
        t.ms >= 0 /\ t.ms <= 999 /\ 1000 * (t.sec + 1) <= 1000 * target.sec + span

RestartSet(p) == p.type \in RestartTypes => p.start # Zero

RoundsInv(span, slack) ==
    /\ pc = "init" => posted = {}
    /\ \A p \in posted : Banded(p, span) /\ RestartSet(p)
    /\ StampedSweep => \A p \in posted : Past(p, slack) \/ Current(p)
    /\ \A p, q \in posted : Apart(p, q, slack)

LEMMA StampTypes ==
  ASSUME NEW p \in Messages, NEW t \in StampsOf(p)
  PROVE  t \in Timespecs /\ t.sec \in Int /\ t.ms \in Int /\ Total(t) \in Int
  BY DEF StampsOf, Messages, Timespecs, Total

(* A step inside a sweep or a rest: the messages of the sweep stay the same. *)
SameSweep ==
    /\ UNCHANGED <<pc, target, iterator, position>>
    /\ Listed \subseteq Listed'
    /\ \A s \in Listed : service_list'[s] = service_list[s]

LEMMA SameMessages ==
  ASSUME SameSweep, NEW s \in Listed PROVE SweepMessage(s)' = SweepMessage(s)
<1>1. UNCHANGED <<pc, target, iterator, position>> /\ service_list'[s] = service_list[s]
  BY DEF SameSweep
<1>2. \A type, mode, stop, reconfig, start :
          Message(type, s, mode, stop, reconfig, start)'
            = Message(type, s, mode, stop, reconfig, start)
  BY <1>1 DEF Message
<1>3. StartMessage(s)' = StartMessage(s)
  BY <1>1, <1>2 DEF StartMessage
<1>4. StopMessage(s)' = StopMessage(s)
  BY <1>1, <1>2 DEF StopMessage
<1>5. RoundMessage(s)' = RoundMessage(s)
  BY <1>1, <1>2 DEF RoundMessage, NetworkMode, HyperperiodMessage, TimestampMessage, PlainMessage
<1> QED BY <1>1, <1>3, <1>4, <1>5 DEF SweepMessage

LEMMA SweepGoesOn ==
  ASSUME SameSweep, NEW span, NEW slack
  PROVE  /\ StampedSweep' = StampedSweep
         /\ \A p : Past(p, slack)' = Past(p, slack) /\ Banded(p, span)' = Banded(p, span)
         /\ \A p : Current(p) => Current(p)'
<1>1. UNCHANGED <<pc, target>>
  BY DEF SameSweep
<1>2. ASSUME NEW p, Current(p) PROVE Current(p)'
  <2>1. p.service \in Listed /\ p.service \in Listed' /\ p = SweepMessage(p.service)
    BY <1>2 DEF Current, SameSweep
  <2> QED BY <2>1, SameMessages DEF Current
<1> QED BY <1>1, <1>2 DEF StampedSweep, Past, Banded

LEMMA NothingPosted ==
  ASSUME SameSweep, UNCHANGED posted, NEW span, NEW slack, RoundsInv(span, slack)
  PROVE  RoundsInv(span, slack)'
<1>1. UNCHANGED pc
  BY DEF SameSweep
<1>2. \A p, q : Apart(p, q, slack)' = Apart(p, q, slack) /\ RestartSet(p)' = RestartSet(p)
  BY DEF Apart, Before, RestartSet
<1> QED BY <1>1, <1>2, SweepGoesOn DEF RoundsInv

(* The new message of a client comes after all that were sent for the      *)
(* sweeps before, and a sweep has one message for a client.                *)
LEMMA NextApart ==
  ASSUME TypeOK, PostedInv, RegisteredInv, NEW pause, PaceInv(pause),
         NEW span \in Nat, NEW slack \in Nat, SpanFits(span), RoundsInv(span, slack),
         pc \in Sweeps, cursor \in Listed, HasMode(pc, cursor), NEW q \in posted
  PROVE  Apart(q, SweepMessage(cursor), slack) /\ Apart(SweepMessage(cursor), q, slack)
<1> DEFINE p == SweepMessage(cursor)
<1>1. SUFFICES ASSUME q.to = p.to, p.to \in Clients PROVE p = q \/ Before(q, p, slack)
  BY DEF Apart
<1>2. /\ \A t \in StampsOf(p) : Near(t, span)
      /\ ~StampedSweep => StampsOf(p) = {}
  BY SweepMessageNear
<1>3. CASE ~StampedSweep
  BY <1>2, <1>3 DEF Before
<1>4. CASE Past(q, slack)
  <2>1. target.sec \in Int /\ ReconfigOffset \in Nat
    BY Durations, SystemConstants DEF TypeOK, Timespecs
  <2>2. q \in Messages
    BY DEF PostedInv
  <2>3. p \in Messages
    BY SweepMessageType
  <2> HIDE DEF p
  <2>4. ASSUME NEW t \in StampsOf(q), NEW u \in StampsOf(p)
        PROVE  1000 * (t.sec + 1) + slack <= Total(u)
    <3>1. t.sec \in Int /\ Total(u) \in Int
      BY <2>2, <2>3, StampTypes
    <3>2. 1000 * (t.sec + 1) + slack + ReconfigOffset <= 1000 * target.sec
      BY <1>4 DEF Past
    <3>3. Total(u) + ReconfigOffset >= 1000 * target.sec
      BY <1>2 DEF Near
    <3> QED BY <2>1, <3>1, <3>2, <3>3
  <2> QED BY <2>4 DEF Before
<1>5. CASE Current(q)
  <2>1. q.service \in Listed /\ q = SweepMessage(q.service)
    BY <1>5 DEF Current
  <2>2. \A s : SweepMessage(s).to = ClientAddress(service_list[s])
    BY DEF SweepMessage, StartMessage, RoundMessage, StopMessage, HyperperiodMessage,
           TimestampMessage, PlainMessage, Message
  <2>3. p.to = service_list[cursor] /\ q.to = service_list[q.service]
    BY <1>1, <2>1, <2>2, SystemConstants DEF ClientAddress
  <2>4. cursor = ServiceOf[service_list[cursor]] /\ q.service = ServiceOf[service_list[q.service]]
    BY <2>1 DEF RegisteredInv
  <2>5. q.service = cursor
    BY <1>1, <2>3, <2>4
  <2> QED BY <2>1, <2>5
<1> QED BY <1>3, <1>4, <1>5 DEF RoundsInv

LEMMA RoundServed ==
  ASSUME TypeOK, PostedInv, RegisteredInv, NEW pause, PaceInv(pause),
         NEW span \in Nat, NEW slack \in Nat, SpanFits(span), RoundsInv(span, slack), SameSweep,
         pc \in Sweeps, cursor \in Listed, HasMode(pc, cursor),
         posted' = posted \cup {SweepMessage(cursor)}
  PROVE  RoundsInv(span, slack)'
<1> DEFINE p == SweepMessage(cursor)
<1>1. /\ \A t \in StampsOf(p) : Near(t, span)
      /\ ~StampedSweep => StampsOf(p) = {}
  BY SweepMessageNear
<1>2. Banded(p, span)
  BY <1>1 DEF Banded, Near
<1>3. RestartSet(p)
  BY SweepMessageRestarts DEF RestartSet
<1>4. Current(p)
  <2>1. p.service = cursor
    BY SweepMessageService
  <2> QED BY <2>1 DEF Current
<1>5. \A q \in posted : Apart(p, q, slack) /\ Apart(q, p, slack)
  BY NextApart
<1>6. pc # "init" /\ UNCHANGED pc
  BY DEF SameSweep, Sweeps
<1> HIDE DEF p
<1>7. Apart(p, p, slack)
  BY DEF Apart
<1>8. \A a, b : Apart(a, b, slack)' = Apart(a, b, slack) /\ RestartSet(a)' = RestartSet(a)
  BY DEF Apart, Before, RestartSet
<1>9. /\ \A q \in posted' : Banded(q, span) /\ RestartSet(q)
      /\ StampedSweep => \A q \in posted' : Past(q, slack) \/ Current(q)
      /\ \A a, b \in posted' : Apart(a, b, slack)
  BY <1>2, <1>3, <1>4, <1>5, <1>7 DEF RoundsInv, p
<1> QED BY <1>6, <1>8, <1>9, SweepGoesOn DEF RoundsInv

(* When a sweep that sends timestamps begins all that was sent is past. *)
LEMMA TargetMoves ==
  ASSUME PostedInv, UNCHANGED posted, target \in Timespecs, target' \in Timespecs,
         NEW span \in Nat, NEW slack \in Nat, RoundsInv(span, slack), NEW pause \in Nat,
         pause >= 3000 + span + slack + ReconfigOffset,
         1000 * target'.sec + 3000 >= 1000 * target.sec + pause,
         pc' # "init"
  PROVE  RoundsInv(span, slack)'
<1>1. /\ target.sec \in Int /\ target'.sec \in Int
      /\ ReconfigOffset \in Nat
  BY Durations, SystemConstants DEF Timespecs
<1>2. ASSUME NEW p \in posted, NEW t \in StampsOf(p)
      PROVE  /\ 1000 * (t.sec + 1) <= 1000 * target'.sec + span
             /\ 1000 * (t.sec + 1) + slack + ReconfigOffset <= 1000 * target'.sec
             /\ t.ms >= 0 /\ t.ms <= 999
  <2>1. t.sec \in Int /\ t.ms \in Int
    BY StampTypes DEF PostedInv
  <2>2. Banded(p, span)
    BY DEF RoundsInv
  <2>3. 1000 * (t.sec + 1) <= 1000 * target.sec + span /\ t.ms >= 0 /\ t.ms <= 999
    BY <2>2 DEF Banded
  <2> QED BY <1>1, <2>1, <2>3
<1>3. \A p \in posted : Past(p, slack)' /\ Banded(p, span)'
  BY <1>2 DEF Past, Banded
<1>4. \A p, q : Apart(p, q, slack)' = Apart(p, q, slack) /\ RestartSet(p)' = RestartSet(p)
  BY DEF Apart, Before, RestartSet
<1> QED BY <1>3, <1>4 DEF RoundsInv

LEMMA TargetRests ==
  ASSUME UNCHANGED <<posted, target>>, NEW span, NEW slack, RoundsInv(span, slack),
         ~StampedSweep', pc' # "init"
  PROVE  RoundsInv(span, slack)'
<1>1. \A p, q : /\ Apart(p, q, slack)' = Apart(p, q, slack) /\ RestartSet(p)' = RestartSet(p)
                /\ Banded(p, span)' = Banded(p, span)
  BY DEF Apart, Before, RestartSet, Banded
<1> QED BY <1>1 DEF RoundsInv

LEMMA RoundsStep ==
  ASSUME 170 < MaxLength, HyperperiodDuration = 100, UintMod = Uint32Values,
         DistributionPhase <= LongSpan,
         NEW span \in Nat, NEW slack \in Nat, SpanFits(span),
         NEW pause \in Nat, pause >= 3000 + span + slack + ReconfigOffset,
         SystemInv, InsertsNew, ReferenceInv, PaceInv(pause), RegisteredInv, RoundsInv(span, slack),
         [SystemNext]_systemVars
  PROVE  RoundsInv(span, slack)'
<1> USE DEF SystemInv
<1>0. TypeOK /\ TypeOK' /\ PostedInv /\ target \in Timespecs /\ target' \in Timespecs
  <2>1. TypeOK /\ TypeOK' /\ PostedInv
    BY ManagerSteps, TypeStep DEF ChannelInv
  <2>2. target \in Timespecs
    BY <2>1 DEF TypeOK
  <2>3. target' \in Timespecs
    BY <2>1 DEF TypeOK
  <2> QED BY <2>1, <2>2, <2>3
<1>1. CASE /\ UNCHANGED posted
           /\ \/ HandlerStep \/ UNCHANGED vars
              \/ \E c \in Clients : ReceiveMessage(ServiceOf[c], c)
  <2>1. /\ UNCHANGED <<pc, target, iterator, position>>
        /\ UNCHANGED service_list \/ InsertService
    <3>1. CASE HandleMessage
      BY <3>1 DEF HandleMessage, roundVars, timeVars
    <3>2. CASE InsertService
      BY <3>2 DEF InsertService, roundVars, timeVars
    <3>3. CASE UNCHANGED vars
      BY <3>3 DEF vars, handlerVars, roundVars, timeVars
    <3>4. ASSUME NEW c \in Clients, ReceiveMessage(ServiceOf[c], c)
          PROVE  UNCHANGED <<pc, target, iterator, position, service_list>>
      BY <3>4 DEF ReceiveMessage, roundVars, timeVars
    <3> QED BY <1>1, <3>1, <3>2, <3>3, <3>4 DEF HandlerStep
  <2>2. CASE UNCHANGED service_list
    BY <1>1, <2>1, <2>2, NothingPosted DEF SameSweep, Listed
  <2>3. CASE InsertService
    <3>1. /\ Listed' = Listed \cup {inserting.service}
          /\ \A s \in Listed : s # inserting.service => service_list'[s] = service_list[s]
      BY <2>3 DEF InsertService, Listed
    <3>2. inserting.service \notin Listed
      BY <2>3 DEF InsertsNew, InsertService
    <3> QED BY <1>1, <2>1, <3>1, <3>2, NothingPosted DEF SameSweep
  <2> QED BY <2>1, <2>2, <2>3
<1>2. CASE ManagerStep
  <2>1. TimerStep
    BY <1>2 DEF ManagerStep
  <2>2. CASE Serve
    <3>1. SameSweep
      BY <2>2 DEF Serve, SameSweep, Listed, handlerVars, roundVars
    <3>2. CASE UNCHANGED posted
      BY <3>1, <3>2, NothingPosted
    <3>3. CASE posted' # posted
      BY <1>0, <1>2, <3>1, <3>3, ManagerPosts, RoundServed
    <3> QED BY <3>2, <3>3
  <2>3. CASE ~Serve
    <3>0. UNCHANGED posted
      BY <1>0, <1>2, <2>3, ManagerPosts
    <3>1. CASE InitialStart
      <4>1. posted = {} /\ posted' = {}
        BY <3>0, <3>1 DEF InitialStart, RoundsInv
      <4> QED BY <4>1 DEF RoundsInv
    <3>2. CASE EndSweep \/ ExperimentSelection \/ Gap \/ EndExperiment
      <4>1. pc' \notin Sweeps /\ pc' # "init" /\ UNCHANGED target
        BY <3>2 DEF EndSweep, AfterSweep, ExperimentSelection, Gap, EndExperiment, Sweeps, timeVars
      <4>2. ~StampedSweep'
        BY <4>1 DEF StampedSweep, Sweeps
      <4> QED BY <3>0, <4>1, <4>2, TargetRests
    <3>3. CASE PlanRound
      <4>1. pc' = "round"
        BY <3>3 DEF PlanRound, BeginSweep
      <4>2. CASE ExperimentNumber \in HyperperiodExperiments \cup TimestampExperiments
        <5>1. 1000 * target'.sec + 3000 >= 1000 * target.sec + pause
          BY <1>0, <3>3, <4>2, NextRoundTarget
        <5> QED BY <1>0, <3>0, <4>1, <5>1, TargetMoves
      <4>3. CASE ExperimentNumber \notin HyperperiodExperiments \cup TimestampExperiments
        <5>1. UNCHANGED target
          BY <3>3, <4>3 DEF PlanRound
        <5>2. ~StampedSweep'
          BY <4>1, <4>3 DEF StampedSweep
        <5> QED BY <3>0, <4>1, <5>1, <5>2, TargetRests
      <4> QED BY <4>2, <4>3
    <3>4. CASE StoppingExperiment
      <4>1. pc' = "stop"
        BY <3>4 DEF StoppingExperiment, BeginSweep
      <4>2. CASE ExperimentNumber \notin TimestampExperiments
        <5>1. 1000 * target'.sec + 3000 >= 1000 * target.sec + pause
          BY <1>0, <3>4, <4>2, StopTarget
        <5> QED BY <1>0, <3>0, <4>1, <5>1, TargetMoves
      <4>3. CASE ExperimentNumber \in TimestampExperiments
        <5>1. UNCHANGED target
          BY <3>4, <4>3 DEF StoppingExperiment
        <5>2. ~StampedSweep'
          BY <4>1, <4>3 DEF StampedSweep
        <5> QED BY <3>0, <4>1, <5>1, <5>2, TargetRests
      <4> QED BY <4>2, <4>3
    <3> QED BY <2>1, <2>3, <3>1, <3>2, <3>3, <3>4 DEF TimerStep
  <2> QED BY <2>2, <2>3
<1> QED BY <1>1, <1>2, ManagerMoves

(* Rounds stay apart when the manager waits between two of them three      *)
(* seconds longer than a round's timestamps, the distance and the lead of  *)
(* a reconfiguration take; three seconds are what rounding and the timer   *)
(* cost.                                                                   *)
LEMMA RoundsInvariant ==
  ASSUME 170 < MaxLength, HyperperiodDuration = 100, UintMod = Uint32Values,
         \A s, m : Slot(s, m) + 1000 < BeginOffset,
         NEW late \in Nat, \A d \in Delays : d <= late,
         DistributionPhase + BeginOffset + GapMax + late + 1000 < LongSpan,
         NEW span \in Nat, NEW slack \in Nat, SpanFits(span),
         NEW pause \in Nat, pause >= 3000 + span + slack + ReconfigOffset,
         pause <= BeginOffset, pause + 1000 <= GapMin
  PROVE  System => []RoundsInv(span, slack)
<1>1. pause >= 4000 /\ GapMin >= 1000 /\ DistributionPhase <= LongSpan
  BY Durations, Spans, SystemConstants DEF SpanFits
<1>2. Spec => []ReferenceInv
  BY <1>1, ReferenceInvariant
<1>3. Spec => []PaceInv(pause)
  BY <1>1, PaceInvariant
<1>4. System => [](RegisteredInv)
  BY RegisteredInvariant
<1>5. SystemInit => RoundsInv(span, slack)
  BY DEF SystemInit, Init, RoundsInv, StampedSweep
<1>6. /\ SystemInv /\ InsertsNew /\ ReferenceInv /\ PaceInv(pause) /\ RegisteredInv
      /\ RoundsInv(span, slack) /\ [SystemNext]_systemVars
      => RoundsInv(span, slack)'
  BY <1>1, RoundsStep
<1> QED BY <1>2, <1>3, <1>4, <1>5, <1>6, SystemInvariant, SystemRunsManager, InsertsNewInvariant, PTL
     DEF System

-----------------------------------------------------------------------------
(* What a client has done. *)

(* A timestamp that a client has acted on was set and has passed. *)
EffectPassed ==
    \A c \in Clients :
        effect[c] # NoEffect /\ effect[c].step > 0 =>
            /\ effect[c].step \in 1..Len(Targets(c, effect[c].message))
            /\ Targets(c, effect[c].message)[effect[c].step].sec # 0
            /\ Total(Targets(c, effect[c].message)[effect[c].step]) < clock

(* A new effect with a step is that of the message being handled. *)
LEMMA EffectChanges ==
  ASSUME ClientsInv, [Side!Next]_(Side!vars), NEW c \in Clients,
         effect'[c] # effect[c], effect'[c].step > 0
  PROVE  /\ UNCHANGED clock
         /\ \E k \in Side!Left(c) :
               /\ handling[c] # NoMessage /\ Side!Due(Side!Target(c, k))
               /\ effect'[c] = [message |-> handling[c], step |-> k]
<1>1. DOMAIN effect = Clients
  BY DEF ClientsInv
<1>2. PICK d \in Clients : Side!ClientStep(d)
  BY DEF Side!Next, Side!vars, Side!Tick, Side!Arrive
<1>3. CASE Side!HandleAtOnce(d)
  <2>1. effect' = [effect EXCEPT ![d] = Effect(d, Side!Oldest(d), 0, effect[d], clock)]
    BY <1>3 DEF Side!HandleAtOnce
  <2>2. effect'[c].step = 0
    BY <1>1, <2>1 DEF Effect
  <2> QED BY <2>2
<1>4. CASE Side!Begin(d) \/ Side!Abandon(d)
  BY <1>4 DEF Side!Begin, Side!Abandon
<1>5. ASSUME handling[d] # NoMessage, NEW k \in Side!Left(d), Side!Act(d, k)
      PROVE  /\ UNCHANGED clock
             /\ \E j \in Side!Left(c) :
                   /\ handling[c] # NoMessage /\ Side!Due(Side!Target(c, j))
                   /\ effect'[c] = [message |-> handling[c], step |-> j]
  <2>1. /\ effect' = [effect EXCEPT ![d] = Effect(d, handling[d], k, effect[d], clock)]
        /\ Side!Due(Side!Target(d, k)) /\ UNCHANGED clock
    BY <1>5 DEF Side!Act
  <2>2. c = d
    BY <1>1, <2>1
  <2>3. effect'[c] = [message |-> handling[c], step |-> k]
    BY <1>1, <2>1, <2>2 DEF Effect
  <2> QED BY <1>5, <2>1, <2>2, <2>3
<1> QED BY <1>2, <1>3, <1>4, <1>5 DEF Side!ClientStep

LEMMA EffectInvariant ==
  ASSUME 170 < MaxLength PROVE System => []EffectPassed
<1>1. SystemInit => EffectPassed
  BY DEF SystemInit, Side!Init, EffectPassed
<1>2. WholeInv /\ EffectPassed /\ [SystemNext]_systemVars => EffectPassed'
  <2> SUFFICES ASSUME WholeInv, EffectPassed, [SystemNext]_systemVars, NEW c \in Clients,
                      effect'[c] # NoEffect, effect'[c].step > 0
               PROVE  /\ effect'[c].step \in 1..Len(Targets(c, effect'[c].message))
                      /\ Targets(c, effect'[c].message)[effect'[c].step].sec # 0
                      /\ Total(Targets(c, effect'[c].message)[effect'[c].step]) < clock'
    BY DEF EffectPassed, Targets
  <2>1. [Side!Next]_(Side!vars) /\ ClientsInv /\ PostedInv
    BY ClientSteps DEF WholeInv, SystemInv, ChannelInv
  <2>2. CASE effect'[c] # effect[c]
    <3>1. UNCHANGED clock
      BY <2>1, <2>2, EffectChanges
    <3>2. PICK k \in Side!Left(c) :
             /\ handling[c] # NoMessage /\ Side!Due(Side!Target(c, k))
             /\ effect'[c] = [message |-> handling[c], step |-> k]
      BY <2>1, <2>2, EffectChanges
    <3>3. done[c] \in 0..1
      BY <2>1 DEF ClientsInv, ClientInv
    <3>4. k \in 1..Len(Targets(c, handling[c]))
      <4>1. handling[c] \in ClientMessages
        BY <2>1, <3>2, ReceivedTyped DEF ClientsInv, ClientInv
      <4>2. Len(Targets(c, handling[c])) \in 0..2
        BY <4>1, TargetsTyped
      <4> QED BY <3>3, <4>2 DEF Side!Left
    <3> DEFINE targets == Targets(c, handling[c])
    <3>5. targets[k].sec # 0 /\ Total(targets[k]) < clock
      BY <3>2 DEF Side!Due, Side!Target, Side!Total, Total
    <3> HIDE DEF targets
    <3>6. effect'[c].step = k /\ effect'[c].message = handling[c]
      BY <3>2
    <3> QED BY <3>1, <3>4, <3>5, <3>6 DEF targets
  <2>3. CASE effect'[c] = effect[c]
    <3>1. effect[c].message \in ClientMessages
      BY <2>1, <2>3, ReceivedTyped DEF ClientsInv, ClientInv
    <3> DEFINE t == Targets(c, effect[c].message)[effect[c].step]
    <3>2. effect[c].step \in 1..Len(Targets(c, effect[c].message)) /\ t.sec # 0 /\ Total(t) < clock
      BY <2>3 DEF EffectPassed
    <3>3. Total(t) \in Int
      BY <3>1, <3>2, TargetsTyped
    <3>4. clock \in Nat /\ clock' \in Nat /\ clock' >= clock
      <4>1. clock \in Nat /\ clock' \in Nat
        BY ClientSteps DEF WholeInv, ClockInv
      <4>2. clock' = clock \/ clock' > clock
        BY <2>1 DEF Side!Next, Side!vars, Side!Tick, Side!Arrive, Side!ClientStep,
                    Side!HandleAtOnce, Side!Begin, Side!Abandon, Side!Act
      <4> QED BY <4>1, <4>2
    <3> HIDE DEF t
    <3>5. Total(t) < clock'
      BY <3>2, <3>3, <3>4
    <3> QED BY <2>3, <3>2, <3>5 DEF t
  <2> QED BY <2>2, <2>3
<1> QED BY <1>1, <1>2, WholeInvariant, PTL DEF System

(* The timestamps a client waits for are among those of the message; the   *)
(* last of them was set, too, if one was.                                  *)
LEMMA TargetsStamped ==
  ASSUME NEW p \in Messages, RestartSet(p), NEW c, NEW k \in 1..Len(Targets(c, AsReceived(p))),
         Targets(c, AsReceived(p))[k].sec # 0
  PROVE  /\ Targets(c, AsReceived(p))[k] \in StampsOf(p)
         /\ Targets(c, AsReceived(p))[Len(Targets(c, AsReceived(p)))] \in StampsOf(p)
<1> DEFINE m == AsReceived(p)
<1>1. m.type = p.type /\ m.stop = p.stop /\ m.reconfig = p.reconfig /\ m.start = p.start
  BY DEF AsReceived
<1> HIDE DEF m
<1>2. \/ Targets(c, m) = <<>>
      \/ \E a \in {m.start, m.reconfig, m.stop} : Targets(c, m) = <<a>>
      \/ /\ m.type \in RestartTypes
         /\ \E a \in {m.stop, m.reconfig} : Targets(c, m) = <<a, m.start>>
  BY DEF Targets, SwitchTargets, EndnodeTargets, RestartTypes
<1>3. k \in 1..Len(Targets(c, m)) /\ Targets(c, m)[k].sec # 0
  BY DEF m
<1>4. \A t : t.sec # 0 => t # Zero
  BY DEF Zero
<1>5. /\ Targets(c, m)[k] \in StampsOf(p)
      /\ Targets(c, m)[Len(Targets(c, m))] \in StampsOf(p)
  <2>1. CASE Targets(c, m) = <<>>
    BY <1>3, <2>1
  <2>2. ASSUME NEW a \in {m.start, m.reconfig, m.stop}, Targets(c, m) = <<a>>
        PROVE  /\ Targets(c, m)[k] \in StampsOf(p)
               /\ Targets(c, m)[Len(Targets(c, m))] \in StampsOf(p)
    <3>1. Len(Targets(c, m)) = 1 /\ k = 1 /\ Targets(c, m)[1] = a
      BY <1>3, <2>2
    <3>2. a \in StampsOf(p)
      BY <1>1, <1>3, <1>4, <3>1 DEF StampsOf
    <3> QED BY <3>1, <3>2
  <2>3. ASSUME m.type \in RestartTypes, NEW a \in {m.stop, m.reconfig},
               Targets(c, m) = <<a, m.start>>
        PROVE  /\ Targets(c, m)[k] \in StampsOf(p)
               /\ Targets(c, m)[Len(Targets(c, m))] \in StampsOf(p)
    <3>1. /\ Len(Targets(c, m)) = 2 /\ (k = 1 \/ k = 2)
          /\ Targets(c, m)[1] = a /\ Targets(c, m)[2] = m.start
      BY <1>3, <2>3
    <3>2. m.start \in StampsOf(p)
      BY <1>1, <2>3 DEF StampsOf, RestartSet
    <3>3. k = 1 => a \in StampsOf(p)
      BY <1>1, <1>3, <1>4, <3>1 DEF StampsOf
    <3> QED BY <3>1, <3>2, <3>3
  <2> QED BY <1>2, <2>1, <2>2, <2>3
<1> QED BY <1>5 DEF m

(* A step that is due is not of a round before the last one. *)
LEMMA NotBefore ==
  ASSUME WholeInv, EffectPassed, NEW span \in Nat, NEW slack \in Nat, slack >= MaxStall,
         RoundsInv(span, slack), [Side!Next]_(Side!vars),
         NEW c \in Clients, effect[c] # NoEffect, effect'[c] # effect[c],
         effect[c].step > 0, effect'[c].step > 0
  PROVE  LastTarget(c, effect'[c].message) >= LastTarget(c, effect[c].message)
<1>1. PICK k \in Side!Left(c) :
         /\ handling[c] # NoMessage /\ Side!Due(Side!Target(c, k))
         /\ effect'[c] = [message |-> handling[c], step |-> k]
  BY EffectChanges DEF WholeInv
<1>2. ClientInv(c) /\ posted \subseteq Messages
  BY DEF WholeInv, ClientsInv, SystemInv, ChannelInv, PostedInv
<1>3. PICK p \in posted : p.to = c /\ handling[c] = AsReceived(p)
  BY <1>1, <1>2 DEF ClientInv, ReceivedBy
<1>4. PICK q \in posted : q.to = c /\ effect[c].message = AsReceived(q)
  BY <1>2 DEF ClientInv, ReceivedBy
<1> DEFINE new == Targets(c, AsReceived(p))
           old == Targets(c, AsReceived(q))
           step == effect[c].step
<1>5. /\ AsReceived(p) \in ClientMessages /\ AsReceived(q) \in ClientMessages
      /\ p \in Messages /\ q \in Messages
  BY <1>2, <1>3, <1>4, ReceivedTyped DEF WholeInv, SystemInv, ChannelInv, ReceivedBy
<1>6. /\ k \in 1..Len(new) /\ new[k].sec # 0
      /\ clock < 1000 * (new[k].sec + 1) + MaxStall
  <2>1. done[c] \in 0..1 /\ Len(new) \in 0..2
    BY <1>2, <1>5, TargetsTyped DEF ClientInv
  <2>2. k \in (done[c] + 1)..Len(new)
    BY <1>3 DEF Side!Left
  <2>3. Side!Due(new[k])
    BY <1>1, <1>3 DEF Side!Target
  <2> HIDE DEF new
  <2> QED BY <2>1, <2>2, <2>3 DEF Side!Due
<1>7. step \in 1..Len(old) /\ old[step].sec # 0 /\ Total(old[step]) < clock
  BY <1>4 DEF EffectPassed
<1>8. RestartSet(p) /\ RestartSet(q) /\ Apart(p, q, slack) /\ Banded(q, span)
  BY DEF RoundsInv
<1>9. new[k] \in StampsOf(p) /\ new[Len(new)] \in StampsOf(p)
  BY <1>5, <1>6, <1>8, TargetsStamped
<1>10. old[step] \in StampsOf(q) /\ old[Len(old)] \in StampsOf(q)
  BY <1>5, <1>7, <1>8, TargetsStamped
<1> DEFINE a == new[k]
           b == new[Len(new)]
           u == old[step]
           v == old[Len(old)]
<1>11. a.sec \in Int /\ Total(b) \in Int /\ Total(u) \in Int /\ v.sec \in Int /\ v.ms \in Int
       /\ Total(v) \in Int
  BY <1>5, <1>9, <1>10, StampTypes
<1>12. v.ms <= 999
  BY <1>8, <1>10 DEF Banded
<1>13. clock \in Nat /\ MaxStall \in Nat
  BY SystemConstants DEF WholeInv, ClockInv
<1>14. Total(b) >= Total(v)
  <2>1. CASE p = q
    BY <1>11, <2>1
  <2>2. CASE Before(q, p, slack)
    <3>1. 1000 * (v.sec + 1) + slack <= Total(b)
      BY <1>9, <1>10, <2>2 DEF Before
    <3>2. Total(v) = 1000 * v.sec + v.ms
      BY DEF Total
    <3> HIDE DEF a, b, u, v, new, old
    <3> QED BY <1>11, <1>12, <1>13, <3>1, <3>2
  <2>3. CASE Before(p, q, slack)
    <3>1. 1000 * (a.sec + 1) + slack <= Total(u)
      BY <1>9, <1>10, <2>3 DEF Before
    <3>2. Total(u) < clock /\ clock < 1000 * (a.sec + 1) + MaxStall
      BY <1>6, <1>7
    <3> HIDE DEF a, b, u, v, new, old
    <3> QED BY <1>11, <1>13, <3>1, <3>2
  <2> QED BY <1>3, <1>4, <1>8, <2>1, <2>2, <2>3 DEF Apart
<1>15. effect'[c].message = AsReceived(p)
  BY <1>1, <1>3
<1> QED BY <1>4, <1>14, <1>15 DEF LastTarget

(* A client is never taken back to a round before the one it was in, or to *)
(* the start, whatever the network delays, doubles and reorders, and       *)
(* however late a poll of its loop is, as long as the manager waits        *)
(* between two rounds three seconds longer than a round's timestamps, the  *)
(* longest stall and the lead of a reconfiguration take; three seconds are *)
(* what rounding and the timer cost.  The configured rounds are ten        *)
(* seconds and more apart, their timestamps within two.                    *)
THEOREM ClientsNeverGoBack ==
  ASSUME 170 < MaxLength, HyperperiodDuration = 100, UintMod = Uint32Values,
         \A s, m : Slot(s, m) + 1000 < BeginOffset,
         NEW late \in Nat, \A d \in Delays : d <= late,
         DistributionPhase + BeginOffset + GapMax + late + 1000 < LongSpan,
         NEW span \in Nat, SpanFits(span),
         NEW pause \in Nat, pause >= 3000 + span + MaxStall + ReconfigOffset,
         pause <= BeginOffset, pause + 1000 <= GapMin
  PROVE  System => NeverBackwards
<1>0. PICK slack \in Nat : slack = MaxStall
  BY SystemConstants
<1>1. System => []RoundsInv(span, slack)
  BY <1>0, RoundsInvariant
<1>2. /\ WholeInv /\ EffectPassed /\ RoundsInv(span, slack) /\ [SystemNext]_systemVars
      => [\A c \in Clients :
            (effect[c] # NoEffect /\ effect'[c] # effect[c]
               /\ effect[c].step > 0 /\ effect'[c].step > 0) =>
                  LastTarget(c, effect'[c].message) >= LastTarget(c, effect[c].message)]_systemVars
  BY <1>0, ClientSteps, NotBefore
<1> QED BY <1>1, <1>2, WholeInvariant, EffectInvariant, PTL DEF System, NeverBackwards
-----------------------------------------------------------------------------
(* The rounds a client is in time for are carried out. *)

(* What n messages may take when their timestamps have passed. *)
Polls(n) == 2 * MaxStall * n

LEMMA PollsGrow ==
  ASSUME NEW n \in Nat
  PROVE  /\ Polls(n) \in Nat /\ Polls(n + 1) = Polls(n) + 2 * MaxStall
         /\ \A k \in 0..n : Polls(k) <= Polls(n)
<1>1. MaxStall \in Nat
  BY SystemConstants
<1>2. Polls(n) \in Nat /\ Polls(n + 1) = Polls(n) + 2 * MaxStall
  BY <1>1 DEF Polls
<1>3. ASSUME NEW k \in 0..n PROVE Polls(k) <= Polls(n)
  <2>1. \A a, b \in Nat : a * b \in Nat
    OBVIOUS
  <2>2. n - k \in Nat /\ 2 * MaxStall \in Nat
    BY <1>1
  <2>3. (2 * MaxStall) * (n - k) \in Nat
    BY <2>1, <2>2
  <2>4. (2 * MaxStall) * (n - k) = 2 * MaxStall * n - 2 * MaxStall * k
    BY <1>1
  <2>5. 2 * MaxStall * n \in Int /\ 2 * MaxStall * k \in Int
    BY <1>1
  <2> QED BY <2>3, <2>4, <2>5 DEF Polls
<1> QED BY <1>2, <1>3

(* A time is before all timestamps of a message. *)
Ready(c, m, time) ==
    \A k \in 1..Len(Targets(c, m)) : time <= Total(Targets(c, m)[k])

(* Message n is over by the slack before the timestamps of m. *)
Clears(c, n, m, slack) ==
    \/ n = m \/ Targets(c, n) = <<>> \/ LastTarget(c, n) <= 0
    \/ Ready(c, m, LastTarget(c, n) + slack)

(* A client with queue q that has been handling h since s will have        *)
(* reached the i-th message of its queue before the timestamps of that.    *)
InLine(c, m, slack, i, q, h, s, time) ==
    /\ q[i] = m
    /\ \A j \in 1..(i - 1) : Clears(c, q[j], m, slack)
    /\ h = NoMessage => Ready(c, m, time + Polls(i - 1))
    /\ h # NoMessage => Clears(c, h, m, slack) /\ Ready(c, m, s + Polls(i))

(* It is carrying m out, or will be in time. *)
Obeys(c, m, slack, q, h, s, time) ==
    \/ h = m /\ Ready(c, m, s)
    \/ \E i \in 1..Len(q) : InLine(c, m, slack, i, q, h, s, time)

LEMMA TargetTotals ==
  ASSUME NEW c, NEW m \in ClientMessages
  PROVE  /\ Len(Targets(c, m)) \in Nat
         /\ \A k \in 1..Len(Targets(c, m)) :
               /\ Targets(c, m)[k].sec \in Int /\ Targets(c, m)[k].ms \in Int
               /\ Total(Targets(c, m)[k]) \in Int
         /\ Targets(c, m) # <<>> =>
              /\ Len(Targets(c, m)) \in 1..Len(Targets(c, m)) /\ LastTarget(c, m) \in Int
              /\ LastTarget(c, m) = Total(Targets(c, m)[Len(Targets(c, m))])
<1> DEFINE targets == Targets(c, m)
<1>1. /\ targets \in Seq(Timespecs) /\ Len(targets) \in 0..2
      /\ \A k \in 1..Len(targets) : Total(targets[k]) \in Int
  BY TargetsTyped
<1>2. LastTarget(c, m) = Total(targets[Len(targets)])
  BY DEF LastTarget
<1> HIDE DEF targets
<1>3. targets # <<>> => Len(targets) \in 1..Len(targets)
  BY <1>1
<1>4. \A k \in 1..Len(targets) : targets[k] \in Timespecs
  BY <1>1
<1>5. \A k \in 1..Len(targets) : targets[k].sec \in Int /\ targets[k].ms \in Int
  BY <1>4 DEF Timespecs
<1> QED BY <1>1, <1>2, <1>3, <1>5 DEF targets

LEMMA ReadyEarlier ==
  ASSUME NEW c, NEW m \in ClientMessages, NEW a \in Int, NEW b \in Int, a <= b, Ready(c, m, b)
  PROVE  Ready(c, m, a)
<1> SUFFICES ASSUME NEW k \in 1..Len(Targets(c, m)) PROVE a <= Total(Targets(c, m)[k])
  BY DEF Ready
<1> DEFINE total == Total(Targets(c, m)[k])
<1>1. total \in Int /\ b <= total
  BY TargetTotals DEF Ready
<1> HIDE DEF total
<1>2. a <= total
  BY <1>1
<1> QED BY <1>2 DEF total

(* Another message arrives behind. *)
LEMMA BehindOthers ==
  ASSUME NEW c, NEW m \in ClientMessages, NEW slack, NEW q \in Seq(ClientMessages),
         NEW n \in ClientMessages, NEW h, NEW s, NEW time, Obeys(c, m, slack, q, h, s, time)
  PROVE  Obeys(c, m, slack, Append(q, n), h, s, time)
<1>1. CASE h = m /\ Ready(c, m, s)
  BY <1>1 DEF Obeys
<1>2. ASSUME NEW i \in 1..Len(q), InLine(c, m, slack, i, q, h, s, time)
      PROVE  Obeys(c, m, slack, Append(q, n), h, s, time)
  <2>1. /\ Len(q) \in Nat /\ i \in 1..Len(Append(q, n))
        /\ \A j \in 1..Len(q) : Append(q, n)[j] = q[j]
    OBVIOUS
  <2>2. i \in 1..Len(q) /\ \A j \in 1..(i - 1) : j \in 1..Len(q)
    BY <2>1
  <2>3. InLine(c, m, slack, i, Append(q, n), h, s, time)
    BY <1>2, <2>1, <2>2 DEF InLine
  <2> QED BY <2>1, <2>3 DEF Obeys
<1> QED BY <1>1, <1>2 DEF Obeys

(* The queue without its oldest. *)
LEMMA TailShifts ==
  ASSUME NEW S, NEW q \in Seq(S), q # <<>>
  PROVE  /\ Len(q) \in Nat \ {0} /\ Len(Tail(q)) = Len(q) - 1 /\ Head(q) = q[1]
         /\ Head(q) \in S /\ Tail(q) \in Seq(S)
         /\ \A j \in 1..(Len(q) - 1) : Tail(q)[j] = q[j + 1]
  OBVIOUS

(* The oldest message is taken. *)
LEMMA OldestTaken ==
  ASSUME NEW c, NEW m \in ClientMessages, NEW slack, NEW q \in Seq(ClientMessages), q # <<>>,
         NEW s, NEW time \in Nat, Obeys(c, m, slack, q, NoMessage, s, time)
  PROVE  Obeys(c, m, slack, Tail(q), Head(q), time, time)
<1>1. PICK i \in 1..Len(q) : InLine(c, m, slack, i, q, NoMessage, s, time)
  BY SentinelAssumption DEF SentinelAssumption, Obeys
<1>2. /\ q[i] = m /\ Ready(c, m, time + Polls(i - 1))
      /\ \A j \in 1..(i - 1) : Clears(c, q[j], m, slack)
  BY <1>1 DEF InLine
<1>3. /\ Len(q) \in Nat \ {0} /\ Len(Tail(q)) = Len(q) - 1 /\ Head(q) = q[1]
      /\ Head(q) \in ClientMessages
      /\ \A j \in 1..(Len(q) - 1) : Tail(q)[j] = q[j + 1]
  BY TailShifts
<1>4. CASE i = 1
  <2>1. Polls(i - 1) \in Nat
    BY <1>4, PollsGrow
  <2>2. Ready(c, m, time)
    BY <1>2, <2>1, ReadyEarlier
  <2> QED BY <1>2, <1>3, <1>4, <2>2 DEF Obeys
<1>5. CASE i # 1
  <2>1. i - 1 \in 1..Len(Tail(q)) /\ Tail(q)[i - 1] = q[i] /\ 1 \in 1..(i - 1)
    BY <1>3, <1>5
  <2>2. \A j \in 1..((i - 1) - 1) : Tail(q)[j] = q[j + 1] /\ j + 1 \in 1..(i - 1)
    BY <1>3, <2>1
  <2>3. Clears(c, Head(q), m, slack)
    BY <1>2, <1>3, <2>1
  <2>4. Head(q) # NoMessage
    BY <1>3, SentinelAssumption DEF SentinelAssumption
  <2>5. InLine(c, m, slack, i - 1, Tail(q), Head(q), time, time)
    BY <1>2, <2>1, <2>2, <2>3, <2>4 DEF InLine
  <2> QED BY <2>1, <2>5 DEF Obeys
<1> QED BY <1>4, <1>5

(* It was another, and had no timestamps. *)
LEMMA OldestHandled ==
  ASSUME NEW c, NEW m \in ClientMessages, NEW slack, NEW q \in Seq(ClientMessages), q # <<>>,
         Head(q) # m, NEW s, NEW time \in Nat, Obeys(c, m, slack, q, NoMessage, s, time)
  PROVE  Obeys(c, m, slack, Tail(q), NoMessage, s, time)
<1>1. PICK i \in 1..Len(q) : InLine(c, m, slack, i, q, NoMessage, s, time)
  BY SentinelAssumption DEF SentinelAssumption, Obeys
<1>2. /\ q[i] = m /\ Ready(c, m, time + Polls(i - 1))
      /\ \A j \in 1..(i - 1) : Clears(c, q[j], m, slack)
  BY <1>1 DEF InLine
<1>3. /\ Len(q) \in Nat \ {0} /\ Len(Tail(q)) = Len(q) - 1 /\ Head(q) = q[1]
      /\ \A j \in 1..(Len(q) - 1) : Tail(q)[j] = q[j + 1]
  BY TailShifts
<1>4. i # 1
  BY <1>2, <1>3
<1>5. i - 1 \in 1..Len(Tail(q)) /\ Tail(q)[i - 1] = q[i] /\ i - 2 \in Nat
  BY <1>3, <1>4
<1>6. \A j \in 1..((i - 1) - 1) : Tail(q)[j] = q[j + 1] /\ j + 1 \in 1..(i - 1)
  BY <1>3, <1>5
<1>7. Ready(c, m, time + Polls((i - 1) - 1))
  <2>1. /\ (i - 1) - 1 \in Nat /\ Polls((i - 1) - 1) \in Nat /\ Polls(i - 1) \in Nat
        /\ Polls((i - 1) - 1) <= Polls(i - 1)
    <3>1. i - 1 \in Nat /\ (i - 1) - 1 \in Nat /\ (i - 1) - 1 \in 0..(i - 1)
      BY <1>5
    <3> QED BY <3>1, PollsGrow
  <2> QED BY <1>2, <2>1, ReadyEarlier
<1>8. InLine(c, m, slack, i - 1, Tail(q), NoMessage, s, time)
  BY <1>2, <1>5, <1>6, <1>7 DEF InLine
<1> QED BY <1>5, <1>8 DEF Obeys

(* Another message is over, by its last timestamp and two polls, or two    *)
(* polls after it was begun.                                               *)
LEMMA HandlerFree ==
  ASSUME NEW c, NEW m \in ClientMessages, NEW slack \in Nat, NEW q \in Seq(ClientMessages),
         NEW h \in ClientMessages, h # m, Targets(c, h) # <<>>,
         NEW s \in Nat, NEW time \in Nat, time > 2 * MaxStall,
         time <= s + 2 * MaxStall \/ time <= LastTarget(c, h) + 2 * MaxStall,
         Polls(Len(q)) <= slack, Obeys(c, m, slack, q, h, s, time)
  PROVE  Obeys(c, m, slack, q, NoMessage, s, time)
<1>1. h # NoMessage
  BY SentinelAssumption DEF SentinelAssumption
<1>2. PICK i \in 1..Len(q) : InLine(c, m, slack, i, q, h, s, time)
  BY DEF Obeys
<1>3. /\ q[i] = m /\ \A j \in 1..(i - 1) : Clears(c, q[j], m, slack)
      /\ Clears(c, h, m, slack) /\ Ready(c, m, s + Polls(i))
  BY <1>1, <1>2 DEF InLine
<1>4. /\ Polls(i) \in Nat /\ Polls(i - 1) \in Nat /\ Polls(i) = Polls(i - 1) + 2 * MaxStall
      /\ Polls(i) <= slack
  <2>1. i - 1 \in Nat /\ (i - 1) + 1 = i /\ i \in Nat /\ Len(q) \in Nat /\ i \in 0..Len(q)
    OBVIOUS
  <2>2. Polls((i - 1) + 1) = Polls(i - 1) + 2 * MaxStall /\ Polls(i - 1) \in Nat /\ Polls(i) \in Nat
    BY <2>1, PollsGrow
  <2>3. Polls(i) <= Polls(Len(q)) /\ Polls(Len(q)) \in Nat
    BY <2>1, PollsGrow
  <2> QED BY <2>1, <2>2, <2>3
<1>5. MaxStall \in Nat /\ LastTarget(c, h) \in Int
  BY SystemConstants, TargetTotals
<1>6. Ready(c, m, time + Polls(i - 1))
  <2>1. CASE time <= s + 2 * MaxStall
    <3>1. time + Polls(i - 1) <= s + Polls(i)
      BY <1>4, <1>5, <2>1
    <3> QED BY <1>3, <1>4, <3>1, ReadyEarlier
  <2>2. CASE time <= LastTarget(c, h) + 2 * MaxStall
    <3>1. LastTarget(c, h) > 0
      BY <1>5, <2>2
    <3>2. Ready(c, m, LastTarget(c, h) + slack)
      BY <1>3, <1>5, <3>1 DEF Clears
    <3>3. time + Polls(i - 1) <= LastTarget(c, h) + slack
      BY <1>4, <1>5, <2>2
    <3> QED BY <1>4, <1>5, <3>2, <3>3, ReadyEarlier
  <2> QED BY <2>1, <2>2
<1>7. InLine(c, m, slack, i, q, NoMessage, s, time)
  BY <1>3, <1>6 DEF InLine
<1> QED BY <1>7 DEF Obeys

(* While a message is carried out time may go on; there is nothing to wait *)
(* for when there is none.                                                 *)
LEMMA TimeForOthers ==
  ASSUME NEW c, NEW m \in ClientMessages, NEW slack, NEW q, NEW h, NEW s, NEW time, NEW later,
         h # NoMessage \/ Len(q) = 0, Obeys(c, m, slack, q, h, s, time)
  PROVE  Obeys(c, m, slack, q, h, s, later)
<1>1. CASE h = NoMessage
  <2>1. h # m /\ Len(q) = 0
    BY <1>1, SentinelAssumption DEF SentinelAssumption
  <2> QED BY <2>1 DEF Obeys
<1>2. CASE h # NoMessage
  <2>1. \A i : InLine(c, m, slack, i, q, h, s, time) => InLine(c, m, slack, i, q, h, s, later)
    BY <1>2 DEF InLine
  <2> QED BY <2>1 DEF Obeys
<1> QED BY <1>1, <1>2

(* What is in time when it arrives. *)
LEMMA ArrivesInLine ==
  ASSUME NEW c, NEW m \in ClientMessages, NEW slack, NEW q \in Seq(ClientMessages),
         NEW h, NEW s \in Nat, NEW time \in Nat, s <= time,
         \A j \in 1..Len(q) : Clears(c, q[j], m, slack),
         h # NoMessage => Clears(c, h, m, slack),
         Ready(c, m, time + Polls(Len(q) + 1))
  PROVE  Obeys(c, m, slack, Append(q, m), h, s, time)
<1> DEFINE i == Len(q) + 1
<1>1. /\ Len(q) \in Nat /\ i \in 1..Len(Append(q, m)) /\ Append(q, m)[i] = m
      /\ i - 1 = Len(q) /\ \A j \in 1..Len(q) : Append(q, m)[j] = q[j]
  OBVIOUS
<1>2. /\ Polls(i) \in Nat /\ Polls(i - 1) \in Nat /\ Polls(i - 1) <= Polls(i)
  <2>1. i \in Nat /\ i - 1 \in Nat /\ i - 1 \in 0..i
    BY <1>1
  <2> QED BY <2>1, PollsGrow
<1> HIDE DEF i
<1>3. Ready(c, m, time + Polls(i - 1)) /\ Ready(c, m, s + Polls(i))
  <2>1. /\ time + Polls(i - 1) <= time + Polls(i) /\ s + Polls(i) <= time + Polls(i)
        /\ time + Polls(i) \in Int /\ time + Polls(i - 1) \in Int /\ s + Polls(i) \in Int
    BY <1>2
  <2> QED BY <2>1, ReadyEarlier DEF i
<1>4. InLine(c, m, slack, i, Append(q, m), h, s, time)
  BY <1>1, <1>3 DEF InLine
<1> QED BY <1>1, <1>4 DEF Obeys

(* The loop of a client polls: what it carries out has a step left, and    *)
(* none of those left is overdue by more than two polls.                   *)
PollInv(c) ==
    /\ since[c] \in Nat /\ since[c] <= clock
    /\ handling[c] = NoMessage => done[c] = 0
    /\ handling[c] # NoMessage =>
         /\ Targets(c, handling[c]) # <<>> /\ done[c] < Len(Targets(c, handling[c]))
         /\ \A k \in Side!Left(c) : \/ clock <= since[c] + 2 * MaxStall
                                    \/ clock <= Total(Side!Target(c, k)) + 2 * MaxStall

PollsInv == DOMAIN since = Clients /\ \A c \in Clients : PollInv(c)

(* A step of one client leaves the others as they were. *)
LEMMA OthersPoll ==
  ASSUME PollsInv, NEW c \in Clients, UNCHANGED clock, DOMAIN since' = Clients,
         \A e \in Clients \ {c} : /\ handling'[e] = handling[e] /\ done'[e] = done[e]
                                  /\ since'[e] = since[e],
         PollInv(c)'
  PROVE  PollsInv'
<1>1. ASSUME NEW e \in Clients PROVE PollInv(e)'
  <2>1. CASE e = c
    BY <2>1
  <2>2. CASE e # c
    <3>1. /\ handling'[e] = handling[e] /\ done'[e] = done[e] /\ since'[e] = since[e]
          /\ PollInv(e)
      BY <2>2 DEF PollsInv
    <3>2. Side!Left(e)' = Side!Left(e) /\ \A k : Side!Target(e, k)' = Side!Target(e, k)
      BY <3>1 DEF Side!Left, Side!Target, Targets
    <3> QED BY <3>1, <3>2 DEF PollInv, Targets
  <2> QED BY <2>1, <2>2
<1> QED BY <1>1 DEF PollsInv

LEMMA ClientPolls ==
  ASSUME PostedInv, ClientsInv, clock \in Nat, PollsInv, NEW c \in Clients, Side!ClientStep(c)
  PROVE  PollsInv'
<1>0. /\ DOMAIN handling = Clients /\ DOMAIN done = Clients /\ DOMAIN since = Clients
      /\ ClientInv(c) /\ PollInv(c) /\ MaxStall \in Nat
  BY SystemConstants DEF ClientsInv, PollsInv
<1>1. CASE Side!HandleAtOnce(c)
  <2>1. UNCHANGED <<handling, done, since, clock>>
    BY <1>1 DEF Side!HandleAtOnce
  <2> QED BY <2>1 DEF PollsInv, PollInv, Side!Left, Side!Target, Targets
<1>2. CASE Side!Begin(c)
  <2> DEFINE m == Side!Oldest(c)
  <2>1. /\ handling' = [handling EXCEPT ![c] = m] /\ since' = [since EXCEPT ![c] = clock]
        /\ UNCHANGED <<done, clock>> /\ Targets(c, m) # <<>>
        /\ handling[c] = NoMessage /\ queue[c] # <<>>
    BY <1>2 DEF Side!Begin, Side!Idle
  <2>2. m \in ClientMessages
    <3>1. queue[c] \in Seq(ReceivedBy(c)) /\ ReceivedBy(c) \subseteq ClientMessages
      BY <1>0, ReceivedTyped DEF ClientInv
    <3>2. Head(queue[c]) \in ReceivedBy(c)
      BY <2>1, <3>1
    <3> QED BY <3>1, <3>2 DEF Side!Oldest
  <2>3. Len(Targets(c, m)) \in 1..Len(Targets(c, m)) /\ Len(Targets(c, m)) \in Nat
    BY <2>1, <2>2, TargetTotals
  <2> HIDE DEF m
  <2>4. handling'[c] = m /\ since'[c] = clock /\ done'[c] = 0 /\ DOMAIN since' = Clients
    BY <1>0, <2>1 DEF PollInv
  <2>5. PollInv(c)'
    <3>1. clock' <= since'[c] + 2 * MaxStall /\ since'[c] \in Nat /\ since'[c] <= clock'
      BY <1>0, <2>1, <2>4
    <3>2. done'[c] < Len(Targets(c, m))
      BY <2>3, <2>4
    <3>3. handling'[c] # NoMessage
      BY <2>2, <2>4, SentinelAssumption DEF SentinelAssumption
    <3> QED BY <2>1, <2>4, <3>1, <3>2, <3>3 DEF PollInv, Targets
  <2> QED BY <1>0, <2>1, <2>4, <2>5, OthersPoll
<1>3. ASSUME handling' = [handling EXCEPT ![c] = NoMessage], done' = [done EXCEPT ![c] = 0],
             UNCHANGED <<since, clock>>
      PROVE  PollsInv'
  <2>1. handling'[c] = NoMessage /\ done'[c] = 0
    BY <1>0, <1>3
  <2>2. PollInv(c)'
    BY <1>0, <1>3, <2>1 DEF PollInv
  <2> QED BY <1>0, <1>3, <2>2, OthersPoll
<1>4. ASSUME NEW k \in Side!Left(c), handling[c] # NoMessage, k # Len(Targets(c, handling[c])),
             UNCHANGED <<handling, since, clock>>, done' = [done EXCEPT ![c] = k]
      PROVE  PollsInv'
  <2> DEFINE last == Len(Targets(c, handling[c]))
  <2>1. handling[c] \in ClientMessages
    BY <1>0, <1>4, ReceivedTyped DEF ClientInv
  <2>2. last \in Nat /\ done[c] \in 0..1 /\ k \in (done[c] + 1)..last /\ k # last
    BY <1>0, <1>4, <2>1, TargetTotals DEF ClientInv, Side!Left
  <2>3. done'[c] = k /\ UNCHANGED <<handling, since, clock>>
    BY <1>0, <1>4
  <2>4. Side!Left(c)' = (k + 1)..last
    BY <2>3 DEF Side!Left, Targets
  <2>5. Side!Left(c) = (done[c] + 1)..last
    BY DEF Side!Left
  <2> HIDE DEF last
  <2>6. k < last /\ Side!Left(c)' \subseteq Side!Left(c)
    BY <2>2, <2>4, <2>5
  <2>7. \A j : Side!Target(c, j)' = Side!Target(c, j)
    BY <2>3 DEF Side!Target, Targets
  <2>8. PollInv(c)'
    BY <1>0, <1>4, <2>3, <2>6, <2>7 DEF PollInv, Targets, last
  <2> QED BY <1>0, <1>4, <2>8, OthersPoll
<1>5. CASE Side!Abandon(c)
  BY <1>3, <1>5 DEF Side!Abandon
<1>6. ASSUME handling[c] # NoMessage, NEW k \in Side!Left(c), Side!Act(c, k) PROVE PollsInv'
  BY <1>3, <1>4, <1>6 DEF Side!Act
<1> QED BY <1>1, <1>2, <1>5, <1>6 DEF Side!ClientStep

LEMMA PollsStep ==
  ASSUME PostedInv, ClientsInv, clock \in Nat, clock' \in Nat, PollsInv, [Side!Next]_(Side!vars)
  PROVE  PollsInv'
<1>1. ASSUME UNCHANGED <<handling, done, since, clock>> PROVE PollsInv'
  BY <1>1 DEF PollsInv, PollInv, Side!Left, Side!Target, Targets
<1>2. ASSUME NEW c \in Clients, NEW m, Side!Arrive(c, m) PROVE PollsInv'
  BY <1>1, <1>2 DEF Side!Arrive
<1>3. CASE Side!Tick(clock')
  <2>1. clock' > clock /\ UNCHANGED <<handling, done, since>>
    BY <1>3 DEF Side!Tick
  <2>2. ASSUME NEW c \in Clients PROVE PollInv(c)'
    <3>1. PollInv(c) /\ Side!InTime(c, clock')
      BY <1>3 DEF PollsInv, Side!Tick
    <3>2. Side!Left(c)' = Side!Left(c) /\ \A k : Side!Target(c, k)' = Side!Target(c, k)
      BY <2>1 DEF Side!Left, Side!Target, Targets
    <3>3. \A k : Side!Total(Side!Target(c, k)) = Total(Side!Target(c, k))
      BY DEF Side!Total, Total
    <3>4. since'[c] \in Nat /\ since'[c] <= clock'
      BY <2>1, <3>1 DEF PollInv
    <3> QED BY <2>1, <3>1, <3>2, <3>3, <3>4 DEF PollInv, Side!InTime, Targets
  <2> QED BY <2>1, <2>2 DEF PollsInv
<1> QED BY <1>1, <1>2, <1>3, ClientPolls DEF Side!Next, Side!vars

(* The clock stands past the first second of the epoch. *)
ClockSet == clock >= 1000

LEMMA PollsInvariant ==
  ASSUME 170 < MaxLength, \A e \in EpochStarts : e >= 1000
  PROVE  System => [](PollsInv /\ ClockSet)
<1>1. SystemInit => PollsInv /\ ClockSet
  <2> SUFFICES ASSUME SystemInit PROVE PollsInv /\ ClockSet
    OBVIOUS
  <2>1. clock = now /\ now \in EpochStarts /\ Side!Init /\ clock \in Nat
    BY ClientsStart DEF SystemInit, Init, ClockInv
  <2>2. PollsInv
    BY <2>1 DEF Side!Init, PollsInv, PollInv
  <2> QED BY <2>1, <2>2 DEF ClockSet
<1>2. WholeInv /\ PollsInv /\ ClockSet /\ [SystemNext]_systemVars
        => PollsInv' /\ ClockSet'
  <2> SUFFICES ASSUME WholeInv, PollsInv, ClockSet, [SystemNext]_systemVars
               PROVE  PollsInv' /\ ClockSet'
    OBVIOUS
  <2>1. /\ [Side!Next]_(Side!vars) /\ clock \in Nat /\ clock' \in Nat
        /\ ClientsInv /\ PostedInv
    BY ClientSteps DEF WholeInv, ClockInv, SystemInv, ChannelInv
  <2>2. PollsInv'
    BY <2>1, PollsStep
  <2>3. clock' = clock \/ clock' > clock
    BY <2>1 DEF Side!Next, Side!vars, Side!Tick, Side!Arrive, Side!ClientStep,
                Side!HandleAtOnce, Side!Begin, Side!Abandon, Side!Act
  <2> QED BY <2>1, <2>2, <2>3 DEF ClockSet
<1> QED BY <1>1, <1>2, WholeInvariant, PTL DEF System

(* The timestamps of a message were set and are normalised. *)
Dated(c, m) ==
    /\ Targets(c, m) # <<>>
    /\ \A k \in 1..Len(Targets(c, m)) :
          /\ Targets(c, m)[k].sec >= 1
          /\ Targets(c, m)[k].ms >= 0 /\ Targets(c, m)[k].ms <= 999

Roomy(c, m) == \A k \in 1..Len(Targets(c, m)) : Room(Targets(c, m)[k])

(* What is owed is obeyed, unless a timestamp is too near to the end of    *)
(* its second.                                                             *)
Owed(o, slack) ==
    LET c == o.client
        m == o.message
    IN  /\ c \in Clients /\ m \in ClientMessages /\ Dated(c, m)
        /\ Roomy(c, m) => Obeys(c, m, slack, queue[c], handling[c], since[c], clock)

OwedInv(slack) == \A o \in owed : Owed(o, slack)

(* A timestamp that is waited for is one of the message, if it was set. *)
LEMMA TargetIsStamp ==
  ASSUME NEW p \in Messages, NEW c, NEW k \in 1..Len(Targets(c, AsReceived(p))),
         Total(Targets(c, AsReceived(p))[k]) # 0
  PROVE  Targets(c, AsReceived(p))[k] \in StampsOf(p)
<1> DEFINE m == AsReceived(p)
           t == Targets(c, m)[k]
<1>1. m.type = p.type /\ m.stop = p.stop /\ m.reconfig = p.reconfig /\ m.start = p.start
  BY DEF AsReceived
<1>2. k \in 1..Len(Targets(c, m)) /\ Total(t) # 0
  OBVIOUS
<1> HIDE DEF m
<1>3. Targets(c, m) \in {<<>>, <<m.start>>, <<m.reconfig>>, <<m.stop>>, <<m.stop, m.start>>,
                         <<m.reconfig, m.start>>}
  BY DEF Targets, SwitchTargets, EndnodeTargets
<1>4. t \in {m.stop, m.reconfig, m.start}
  <2>1. ASSUME NEW a, Targets(c, m) = <<a>> PROVE t = a
    BY <1>2, <2>1
  <2>2. ASSUME NEW a, NEW b, Targets(c, m) = <<a, b>> PROVE t \in {a, b}
    BY <1>2, <2>2
  <2>3. Targets(c, m) # <<>>
    BY <1>2
  <2> QED BY <1>3, <2>1, <2>2, <2>3
<1>5. t # Zero
  BY <1>2 DEF Zero, Total
<1> QED BY <1>1, <1>4, <1>5 DEF StampsOf, m

(* Of two messages of a client that have timestamps, the one that was not  *)
(* overtaken clears the way for the other.                                 *)
LEMMA RoundsClear ==
  ASSUME PostedInv, NEW span, NEW slack \in Nat, RoundsInv(span, slack), NEW c \in Clients,
         NEW m \in ReceivedBy(c), Targets(c, m) # <<>>, Ready(c, m, 1000)
  PROVE  /\ Dated(c, m)
         /\ \A n \in ReceivedBy(c) :
               (Targets(c, n) # <<>> => LastTarget(c, n) <= LastTarget(c, m))
                  => Clears(c, n, m, slack)
<1>1. PICK p \in posted : p.to = c /\ m = AsReceived(p)
  BY DEF ReceivedBy
<1>2. p \in Messages /\ Banded(p, span) /\ m \in ClientMessages
  BY ReceivedTyped DEF PostedInv, RoundsInv
<1>3. ASSUME NEW k \in 1..Len(Targets(c, m))
      PROVE  /\ Targets(c, m)[k] \in StampsOf(p) /\ Total(Targets(c, m)[k]) >= 1000
             /\ Total(Targets(c, m)[k]) = 1000 * Targets(c, m)[k].sec + Targets(c, m)[k].ms
             /\ Targets(c, m)[k].sec \in Int /\ Targets(c, m)[k].sec >= 1
             /\ Targets(c, m)[k].ms \in Int
             /\ Targets(c, m)[k].ms >= 0 /\ Targets(c, m)[k].ms <= 999
  <2> DEFINE t == Targets(c, m)[k]
  <2>1. Total(t) >= 1000 /\ Total(t) \in Int
    BY <1>2, TargetTotals DEF Ready
  <2>2. t \in StampsOf(p)
    BY <1>1, <1>2, <2>1, TargetIsStamp
  <2>3. t.sec \in Int /\ t.ms \in Int
    BY <1>2, <2>2, StampTypes
  <2>4. t.ms >= 0 /\ t.ms <= 999
    BY <1>2, <2>2 DEF Banded
  <2>5. Total(t) = 1000 * t.sec + t.ms
    BY DEF Total
  <2> HIDE DEF t
  <2>6. t.sec >= 1
    BY <2>1, <2>3, <2>4, <2>5
  <2> QED BY <2>1, <2>2, <2>3, <2>4, <2>5, <2>6 DEF t
<1>4. Dated(c, m)
  BY <1>3 DEF Dated
<1>5. ASSUME NEW n \in ReceivedBy(c), Targets(c, n) # <<>>, LastTarget(c, n) <= LastTarget(c, m),
             LastTarget(c, n) > 0, n # m
      PROVE  Ready(c, m, LastTarget(c, n) + slack)
  <2>1. PICK q \in posted : q.to = c /\ n = AsReceived(q)
    BY DEF ReceivedBy
  <2>2. q \in Messages /\ Banded(q, span) /\ n \in ClientMessages
    BY ReceivedTyped DEF PostedInv, RoundsInv
  <2> DEFINE t == Targets(c, n)[Len(Targets(c, n))]
             u == Targets(c, m)[Len(Targets(c, m))]
  <2>3. /\ Len(Targets(c, n)) \in 1..Len(Targets(c, n)) /\ LastTarget(c, n) = Total(t)
        /\ Len(Targets(c, m)) \in 1..Len(Targets(c, m)) /\ LastTarget(c, m) = Total(u)
    BY <1>2, <1>5, <2>2, TargetTotals
  <2>4. t \in StampsOf(q)
    BY <1>5, <2>1, <2>2, <2>3, TargetIsStamp
  <2>5. Total(t) \in Int /\ 1000 * (t.sec + 1) \in Int /\ Total(t) < 1000 * (t.sec + 1)
    <3>1. t.sec \in Int /\ t.ms \in Int /\ t.ms <= 999
      BY <2>2, <2>4, StampTypes DEF Banded
    <3>2. Total(t) = 1000 * t.sec + t.ms
      BY DEF Total
    <3> HIDE DEF t
    <3> QED BY <3>1, <3>2
  <2>6. /\ u \in StampsOf(p)
        /\ Total(u) \in Int /\ 1000 * (u.sec + 1) \in Int /\ Total(u) < 1000 * (u.sec + 1)
    <3>1. /\ u \in StampsOf(p) /\ u.sec \in Int /\ u.ms \in Int /\ u.ms <= 999
          /\ Total(u) = 1000 * u.sec + u.ms
      BY <1>3, <2>3
    <3> HIDE DEF u
    <3> QED BY <3>1
  <2>7. Before(p, q, slack) \/ Before(q, p, slack)
    BY <1>1, <1>5, <2>1 DEF RoundsInv, Apart
  <2>8. CASE Before(p, q, slack)
    <3>1. 1000 * (u.sec + 1) + slack <= Total(t)
      BY <2>4, <2>6, <2>8 DEF Before
    <3>2. Total(t) <= Total(u)
      BY <1>5, <2>3
    <3> DEFINE lt == Total(t)
               lu == Total(u)
               end == 1000 * (u.sec + 1)
    <3>3. lt \in Int /\ lu \in Int /\ end \in Int /\ end + slack <= lt /\ lt <= lu /\ lu < end
      BY <2>5, <2>6, <3>1, <3>2
    <3> HIDE DEF lt, lu, end
    <3>4. FALSE
      BY <3>3
    <3> QED BY <3>4
  <2>9. CASE Before(q, p, slack)
    <3> SUFFICES ASSUME NEW k \in 1..Len(Targets(c, m))
                 PROVE  LastTarget(c, n) + slack <= Total(Targets(c, m)[k])
      BY DEF Ready
    <3> DEFINE total == Total(Targets(c, m)[k])
    <3>1. total \in Int
      BY <1>2, TargetTotals
    <3>2. 1000 * (t.sec + 1) + slack <= total
      BY <1>3, <2>4, <2>9 DEF Before
    <3>3. LastTarget(c, n) = Total(t)
      BY <2>3
    <3> DEFINE lt == Total(t)
               end == 1000 * (t.sec + 1)
    <3>4. lt \in Int /\ end \in Int /\ lt < end /\ end + slack <= total
      BY <2>5, <3>2
    <3> HIDE DEF lt, end, total
    <3>5. lt + slack <= total
      BY <3>1, <3>4
    <3> QED BY <3>3, <3>5 DEF lt, total
  <2> QED BY <2>7, <2>8, <2>9
<1>6. ASSUME NEW n \in ReceivedBy(c), Targets(c, n) # <<>> => LastTarget(c, n) <= LastTarget(c, m)
      PROVE  Clears(c, n, m, slack)
  <2>1. CASE n = m \/ Targets(c, n) = <<>> \/ LastTarget(c, n) <= 0
    BY <2>1 DEF Clears
  <2>2. CASE n # m /\ Targets(c, n) # <<>> /\ ~(LastTarget(c, n) <= 0)
    <3>1. n \in ClientMessages
      BY ReceivedTyped
    <3>2. LastTarget(c, n) > 0
      BY <2>2, <3>1, TargetTotals
    <3> QED BY <1>5, <1>6, <2>2, <3>2 DEF Clears
  <2> QED BY <2>1, <2>2
<1> QED BY <1>4, <1>6

(* What is owed in the next state. *)
LEMMA OwedThen ==
  ASSUME NEW o, NEW slack, o.client \in Clients, o.message \in ClientMessages,
         Dated(o.client, o.message),
         Roomy(o.client, o.message) =>
            Obeys(o.client, o.message, slack, queue'[o.client], handling'[o.client],
                  since'[o.client], clock')
  PROVE  Owed(o, slack)'
  BY DEF Owed, Dated, Roomy, Obeys, InLine, Clears, Ready, Targets, LastTarget

(* What is being carried out was begun before its timestamps. *)
LEMMA BegunInTime ==
  ASSUME NEW c, NEW m \in ClientMessages, NEW slack, NEW q \in Seq(ClientMessages),
         NEW s \in Nat, NEW time, Obeys(c, m, slack, q, m, s, time)
  PROVE  Ready(c, m, s)
<1>1. ASSUME NEW i \in 1..Len(q), InLine(c, m, slack, i, q, m, s, time) PROVE Ready(c, m, s)
  <2>1. Ready(c, m, s + Polls(i))
    BY <1>1, SentinelAssumption DEF SentinelAssumption, InLine
  <2>2. Polls(i) \in Nat
    BY PollsGrow
  <2> QED BY <2>1, <2>2, ReadyEarlier
<1> QED BY <1>1 DEF Obeys

LEMMA ClientState ==
  ASSUME WholeInv, NEW c \in Clients
  PROVE  /\ queue[c] \in Seq(ClientMessages) /\ handling[c] \in ClientMessages \cup {NoMessage}
         /\ handling[c] \in ReceivedBy(c) \cup {NoMessage}
         /\ \A i \in 1..Len(queue[c]) : queue[c][i] \in ReceivedBy(c)
         /\ clock \in Nat /\ done[c] \in 0..1
<1>1. ClientInv(c) /\ ReceivedBy(c) \subseteq ClientMessages /\ clock \in Nat
  BY ReceivedTyped DEF WholeInv, ClientsInv, ClockInv, SystemInv, ChannelInv
<1>2. queue[c] \in Seq(ReceivedBy(c))
  BY <1>1 DEF ClientInv
<1>3. queue[c] \in Seq(ClientMessages)
  BY <1>1, <1>2, SequencesOfMore
<1> QED BY <1>1, <1>2, <1>3 DEF ClientInv

(* The two polls of a step are shorter than the epoch's clock when there   *)
(* is room for them in the second of a timestamp.                          *)
LEMMA RoomForPolls ==
  ASSUME NEW c, NEW m \in ClientMessages, Dated(c, m), Roomy(c, m), ClockSet, clock \in Nat
  PROVE  clock > 2 * MaxStall
<1> DEFINE t == Targets(c, m)[Len(Targets(c, m))]
<1>1. Len(Targets(c, m)) \in 1..Len(Targets(c, m))
  BY TargetTotals DEF Dated
<1>2. t.ms >= 0 /\ Room(t)
  BY <1>1 DEF Dated, Roomy
<1>3. t.ms \in Int
  BY <1>1, TargetTotals
<1> HIDE DEF t
<1> QED BY <1>2, <1>3, SystemConstants DEF Room, ClockSet

(* The last step of what a client carries out is not overdue. *)
LEMMA LastNotOverdue ==
  ASSUME WholeInv, PollsInv, NEW c \in Clients, handling[c] # NoMessage
  PROVE  /\ handling[c] \in ClientMessages /\ Targets(c, handling[c]) # <<>>
         /\ since[c] \in Nat
         /\ \/ clock <= since[c] + 2 * MaxStall
            \/ clock <= LastTarget(c, handling[c]) + 2 * MaxStall
<1> DEFINE last == Len(Targets(c, handling[c]))
<1>1. handling[c] \in ClientMessages /\ done[c] \in 0..1
  BY ClientState
<1>2. PollInv(c)
  BY DEF PollsInv
<1>3. last \in Nat /\ Targets(c, handling[c]) # <<>> /\ since[c] \in Nat /\ done[c] < last
  BY <1>1, <1>2, TargetTotals DEF PollInv
<1>4. Side!Left(c) = (done[c] + 1)..last
  BY DEF Side!Left
<1>5. LastTarget(c, handling[c]) = Total(Side!Target(c, last))
  BY DEF LastTarget, Side!Target
<1> HIDE DEF last
<1>6. last \in Side!Left(c)
  BY <1>1, <1>3, <1>4
<1> QED BY <1>1, <1>2, <1>3, <1>5, <1>6 DEF PollInv

(* A client that carries out a message with room in the seconds of its     *)
(* timestamps does not give it up.                                         *)
LEMMA RoomyNotAbandoned ==
  ASSUME WholeInv, PollsInv, NEW c \in Clients, handling[c] # NoMessage,
         Dated(c, handling[c]), Roomy(c, handling[c]), Ready(c, handling[c], since[c])
  PROVE  ~Side!Abandon(c)
<1> SUFFICES ASSUME NEW k \in Side!Left(c), Side!Expired(Side!Target(c, k)) PROVE FALSE
  BY DEF Side!Abandon
<1> DEFINE t == Side!Target(c, k)
<1>1. handling[c] \in ClientMessages /\ since[c] \in Nat /\ done[c] \in 0..1 /\ clock \in Nat
  BY ClientState, LastNotOverdue
<1>2. k \in 1..Len(Targets(c, handling[c]))
  <2> DEFINE last == Len(Targets(c, handling[c]))
  <2>1. k \in (done[c] + 1)..last /\ last \in Nat
    BY <1>1, TargetTotals DEF Side!Left
  <2> HIDE DEF last
  <2>2. k \in 1..last
    BY <1>1, <2>1
  <2> QED BY <2>2 DEF last
<1>3. /\ t.sec >= 1 /\ Room(t) /\ since[c] <= Total(t)
      /\ t.sec \in Int /\ t.ms \in Int /\ Total(t) = 1000 * t.sec + t.ms
  BY <1>1, <1>2, TargetTotals DEF Dated, Roomy, Ready, Side!Target, Total
<1>4. clock <= since[c] + 2 * MaxStall \/ clock <= Total(t) + 2 * MaxStall
  BY DEF PollsInv, PollInv
<1>5. t.sec = 0 \/ 1000 * (t.sec + 1) <= clock
  BY DEF Side!Expired
<1> HIDE DEF t
<1> QED BY <1>1, <1>3, <1>4, <1>5, SystemConstants DEF Room

(* A step of the client: what it owes stays obeyed, or is settled. *)
LEMMA StepObeys ==
  ASSUME WholeInv, PollsInv, ClockSet, NEW slack \in Nat, NEW c \in Clients,
         Polls(Len(queue[c])) <= slack, Side!ClientStep(c),
         NEW o \in owed, o.client = c, Owed(o, slack), o \notin Settled(c)
  PROVE  Owed(o, slack)'
<1> DEFINE m == o.message
           q == queue[c]
           h == handling[c]
           s == since[c]
<1>0. /\ m \in ClientMessages /\ Dated(c, m)
      /\ Roomy(c, m) => Obeys(c, m, slack, q, h, s, clock)
  BY DEF Owed
<1> SUFFICES ASSUME Roomy(c, m)
             PROVE  Obeys(c, m, slack, queue'[c], handling'[c], since'[c], clock')
  BY <1>0, OwedThen
<1>1. /\ q \in Seq(ClientMessages) /\ h \in ClientMessages \cup {NoMessage} /\ clock \in Nat
      /\ DOMAIN queue = Clients /\ DOMAIN handling = Clients /\ DOMAIN since = Clients
      /\ DOMAIN effect = Clients /\ s \in Nat
  BY ClientState DEF WholeInv, ClientsInv, PollsInv, PollInv
<1>2. Obeys(c, m, slack, q, h, s, clock) /\ clock > 2 * MaxStall
  BY <1>0, <1>1, RoomForPolls
<1>3. CASE Side!HandleAtOnce(c)
  <2>1. /\ h = NoMessage /\ q # <<>> /\ Targets(c, Head(q)) = <<>>
        /\ queue' = [queue EXCEPT ![c] = Tail(@)] /\ UNCHANGED <<handling, since, clock>>
    BY <1>3 DEF Side!HandleAtOnce, Side!Idle, Side!Oldest
  <2>2. Head(q) # m
    BY <1>0, <2>1 DEF Dated
  <2>3. queue'[c] = Tail(q) /\ handling'[c] = NoMessage /\ since'[c] = s /\ clock' = clock
    BY <1>1, <2>1
  <2> HIDE DEF m, q, h, s
  <2>4. Obeys(c, m, slack, Tail(q), NoMessage, s, clock)
    BY <1>0, <1>1, <1>2, <2>1, <2>2, OldestHandled
  <2> QED BY <2>3, <2>4
<1>4. CASE Side!Begin(c)
  <2>1. /\ h = NoMessage /\ q # <<>>
        /\ queue' = [queue EXCEPT ![c] = Tail(@)] /\ handling' = [handling EXCEPT ![c] = Head(q)]
        /\ since' = [since EXCEPT ![c] = clock] /\ UNCHANGED clock
    BY <1>4 DEF Side!Begin, Side!Idle, Side!Oldest
  <2>2. queue'[c] = Tail(q) /\ handling'[c] = Head(q) /\ since'[c] = clock /\ clock' = clock
    BY <1>1, <2>1
  <2> HIDE DEF m, q, h, s
  <2>3. Obeys(c, m, slack, Tail(q), Head(q), clock, clock)
    BY <1>0, <1>1, <1>2, <2>1, OldestTaken
  <2> QED BY <2>2, <2>3
<1>5. ASSUME h # NoMessage, h # m, handling' = [handling EXCEPT ![c] = NoMessage],
             UNCHANGED <<queue, since, clock>>
      PROVE  Obeys(c, m, slack, queue'[c], handling'[c], since'[c], clock')
  <2>1. /\ queue'[c] = q /\ handling'[c] = NoMessage /\ since'[c] = s /\ clock' = clock
    BY <1>1, <1>5
  <2>2. /\ h \in ClientMessages /\ Targets(c, h) # <<>>
        /\ clock <= s + 2 * MaxStall \/ clock <= LastTarget(c, h) + 2 * MaxStall
    BY <1>5, LastNotOverdue
  <2>3. Polls(Len(q)) <= slack
    OBVIOUS
  <2> HIDE DEF m, q, h, s
  <2>4. Obeys(c, m, slack, q, NoMessage, s, clock)
    BY <1>0, <1>1, <1>2, <1>5, <2>2, <2>3, HandlerFree
  <2> QED BY <2>1, <2>4
<1>6. CASE Side!Abandon(c)
  <2>1. /\ h # NoMessage /\ handling' = [handling EXCEPT ![c] = NoMessage]
        /\ UNCHANGED <<queue, since, clock>>
    BY <1>6 DEF Side!Abandon
  <2>2. h # m
    <3> SUFFICES ASSUME h = m PROVE FALSE
      OBVIOUS
    <3>1. Obeys(c, m, slack, q, m, s, clock)
      BY <1>2
    <3>2. Ready(c, m, s)
      <4> HIDE DEF m, q, h, s
      <4> QED BY <1>0, <1>1, <3>1, BegunInTime
    <3> QED BY <1>0, <1>6, <2>1, <3>2, RoomyNotAbandoned
  <2> QED BY <1>5, <2>1, <2>2
<1>7. ASSUME h # NoMessage, NEW k \in Side!Left(c), Side!Act(c, k)
      PROVE  Obeys(c, m, slack, queue'[c], handling'[c], since'[c], clock')
  <2>1. CASE k # Len(Targets(c, h))
    <3>1. UNCHANGED <<queue, handling, since, clock>>
      BY <1>7, <2>1 DEF Side!Act
    <3> QED BY <1>2, <3>1
  <2>2. CASE k = Len(Targets(c, h))
    <3>1. /\ handling' = [handling EXCEPT ![c] = NoMessage] /\ UNCHANGED <<queue, since, clock>>
          /\ effect' = [effect EXCEPT ![c] = Effect(c, h, k, effect[c], clock)]
      BY <1>7, <2>2 DEF Side!Act
    <3>2. effect'[c] = [message |-> h, step |-> k]
      BY <1>1, <3>1 DEF Effect
    <3>3. h # m
      <4> SUFFICES ASSUME h = m PROVE FALSE
        OBVIOUS
      <4>1. Len(Targets(c, m)) \in 0..2
        BY <1>0, TargetsTyped
      <4>2. effect'[c] \in [message : ClientMessages, step : 0..2]
        BY <1>0, <2>2, <3>2, <4>1
      <4>3. effect'[c] # NoEffect
        BY <4>2, SentinelAssumption DEF SentinelAssumption
      <4>4. effect'[c].message = o.message /\ effect'[c].step = Len(Targets(c, o.message))
        BY <2>2, <3>2
      <4> QED BY <4>3, <4>4 DEF Settled
    <3> QED BY <1>5, <1>7, <3>1, <3>3
  <2> QED BY <2>1, <2>2
<1> QED BY <1>3, <1>4, <1>6, <1>7 DEF Side!ClientStep

(* Nothing of a client changes for what it owes. *)
LEMMA OwedStays ==
  ASSUME NEW o, NEW slack, Owed(o, slack), UNCHANGED clock,
         queue'[o.client] = queue[o.client], handling'[o.client] = handling[o.client],
         since'[o.client] = since[o.client]
  PROVE  Owed(o, slack)'
  BY OwedThen DEF Owed

LEMMA OwedAfterStep ==
  ASSUME WholeInv, PollsInv, ClockSet, NEW slack \in Nat, OwedInv(slack),
         NEW c \in Clients, Polls(Len(queue[c])) <= slack, ClientStep(c)
  PROVE  OwedInv(slack)'
<1>1. Side!ClientStep(c) /\ owed' = owed \ Settled(c)
  BY DEF ClientStep
<1>2. /\ UNCHANGED clock
      /\ \A e \in Clients \ {c} : /\ queue'[e] = queue[e] /\ handling'[e] = handling[e]
                                  /\ since'[e] = since[e]
  <2>1. /\ DOMAIN queue = Clients /\ DOMAIN handling = Clients /\ DOMAIN since = Clients
    BY DEF WholeInv, ClientsInv, PollsInv
  <2>2. ASSUME NEW k, Side!Act(c, k)
        PROVE  UNCHANGED <<queue, since, clock>>
               /\ \/ UNCHANGED handling
                  \/ handling' = [handling EXCEPT ![c] = NoMessage]
    BY <2>2 DEF Side!Act
  <2> QED BY <1>1, <2>1, <2>2 DEF Side!ClientStep, Side!HandleAtOnce, Side!Begin, Side!Abandon
<1>3. ASSUME NEW o \in owed' PROVE Owed(o, slack)'
  <2>1. o \in owed /\ o \notin Settled(c) /\ Owed(o, slack)
    BY <1>1 DEF OwedInv
  <2>2. CASE o.client = c
    BY <1>1, <2>1, <2>2, StepObeys
  <2>3. CASE o.client # c
    <3>1. o.client \in Clients
      BY <2>1 DEF Owed
    <3> QED BY <1>2, <2>1, <2>3, <3>1, OwedStays
  <2> QED BY <2>2, <2>3
<1> QED BY <1>3 DEF OwedInv

(* A message arrives: what was owed goes on to be, and it may be owed.     *)
LEMMA OwedAfterArrival ==
  ASSUME 170 < MaxLength, WholeInv, PollsInv, ClockSet, NEW span, NEW slack \in Nat,
         RoundsInv(span, slack), OwedInv(slack),
         NEW d \in network, NEW duplicated, DeliverControl(d, duplicated)
  PROVE  OwedInv(slack)'
<1> DEFINE c == d.to
           q == queue[c]
<1>0. PICK m : m = ClientMessage(rm_message'[c])
  OBVIOUS
<1> DEFINE n == [client |-> c, message |-> m]
<1>1. /\ c \in Clients /\ ReceiveControlMessage(d, duplicated) /\ Side!Arrive(c, m)
      /\ owed' = IF InTimeFor(c, m) THEN owed \cup {n} ELSE owed
  BY <1>0 DEF DeliverControl
<1>2. m \in ReceivedBy(c) /\ m \in ClientMessages
  <2>1. ChannelInv /\ PostedInv
    BY DEF WholeInv, SystemInv, ChannelInv
  <2> QED BY <1>0, <1>1, <2>1, ControlReceived, ReceivedTyped DEF ReceivedBy
<1>3. /\ q \in Seq(ClientMessages) /\ clock \in Nat
      /\ handling[c] \in ReceivedBy(c) \cup {NoMessage}
      /\ \A i \in 1..Len(q) : q[i] \in ReceivedBy(c)
      /\ since[c] \in Nat /\ since[c] <= clock /\ DOMAIN queue = Clients
  BY <1>1, ClientState DEF PollsInv, PollInv, WholeInv, ClientsInv
<1>4. /\ queue' = [queue EXCEPT ![c] = Append(@, m)] /\ UNCHANGED <<handling, since, clock>>
  BY <1>1 DEF Side!Arrive
<1>5. queue'[c] = Append(q, m)
  BY <1>1, <1>3, <1>4
<1>6. ASSUME NEW o \in owed PROVE Owed(o, slack)'
  <2>1. Owed(o, slack)
    BY DEF OwedInv
  <2>2. CASE o.client = c
    <3>1. o.message \in ClientMessages
      BY <2>1 DEF Owed
    <3>2. Roomy(c, o.message) =>
            Obeys(c, o.message, slack, Append(q, m), handling[c], since[c], clock)
      <4>1. Roomy(c, o.message) =>
              Obeys(c, o.message, slack, q, handling[c], since[c], clock)
        BY <2>1, <2>2 DEF Owed
      <4> HIDE DEF q, c
      <4> QED BY <1>2, <1>3, <3>1, <4>1, BehindOthers
    <3> QED BY <1>4, <1>5, <2>1, <2>2, <3>2, OwedThen DEF Owed
  <2>3. CASE o.client # c
    <3>1. o.client \in Clients /\ queue'[o.client] = queue[o.client]
      BY <1>3, <1>4, <2>1, <2>3 DEF Owed
    <3> QED BY <1>4, <2>1, <3>1, OwedStays
  <2> QED BY <2>2, <2>3
<1>7. ASSUME InTimeFor(c, m) PROVE Owed(n, slack)'
  <2>1. /\ Targets(c, m) # <<>> /\ ~Overtaken(c, m)
        /\ \A k \in DOMAIN Targets(c, m) :
              clock + 2 * MaxStall * (Len(q) + 1) <= Total(Targets(c, m)[k])
    BY <1>7 DEF InTimeFor
  <2>2. Ready(c, m, clock + Polls(Len(q) + 1))
    <3>1. DOMAIN Targets(c, m) = 1..Len(Targets(c, m))
      BY <1>2, TargetsTyped
    <3> QED BY <2>1, <3>1 DEF Ready, Polls
  <2>3. Ready(c, m, 1000)
    <3>1. Len(q) + 1 \in Nat /\ Polls(Len(q) + 1) \in Nat
      <4> HIDE DEF q
      <4>1. Len(q) + 1 \in Nat
        BY <1>3
      <4> QED BY <4>1, PollsGrow
    <3>2. 1000 <= clock + Polls(Len(q) + 1)
      BY <1>3, <3>1 DEF ClockSet
    <3> QED BY <1>2, <1>3, <2>2, <3>1, <3>2, ReadyEarlier
  <2>4. PostedInv /\ handling[c] # NoMessage => handling[c] \in ReceivedBy(c)
    BY <1>3 DEF WholeInv, SystemInv, ChannelInv
  <2>5. \A w \in Waiting(c) : Clears(c, w, m, slack)
    <3>1. ASSUME NEW w \in Waiting(c)
          PROVE  /\ w \in ReceivedBy(c)
                 /\ Targets(c, w) # <<>> => LastTarget(c, w) <= LastTarget(c, m)
      <4>1. w \in ReceivedBy(c)
        BY <1>3 DEF Waiting
      <4>2. PostedInv
        BY DEF WholeInv, SystemInv, ChannelInv
      <4>3. w \in ClientMessages
        BY <4>1, <4>2, ReceivedTyped
      <4>4. Targets(c, w) # <<>> => LastTarget(c, w) \in Int
        BY <4>3, TargetTotals
      <4>5. LastTarget(c, m) \in Int
        BY <1>2, <2>1, TargetTotals
      <4>6. Targets(c, w) # <<>> => ~(LastTarget(c, w) > LastTarget(c, m))
        BY <2>1 DEF Overtaken
      <4> QED BY <4>1, <4>4, <4>5, <4>6
    <3>2. PostedInv
      BY DEF WholeInv, SystemInv, ChannelInv
    <3> HIDE DEF c
    <3> QED BY <1>1, <1>2, <2>1, <2>3, <3>1, <3>2, RoundsClear
  <2>6. Dated(c, m)
    <3>1. PostedInv
      BY DEF WholeInv, SystemInv, ChannelInv
    <3> HIDE DEF c
    <3> QED BY <1>1, <1>2, <2>1, <2>3, <3>1, RoundsClear
  <2>7. /\ \A i \in 1..Len(q) : Clears(c, q[i], m, slack)
        /\ handling[c] # NoMessage => Clears(c, handling[c], m, slack)
    BY <1>3, <2>5 DEF Waiting
  <2>8. Obeys(c, m, slack, Append(q, m), handling[c], since[c], clock)
    <3> HIDE DEF q, c
    <3> QED BY <1>2, <1>3, <2>2, <2>7, ArrivesInLine
  <2>9. n.client = c /\ n.message = m
    OBVIOUS
  <2>10. Obeys(c, m, slack, queue'[c], handling'[c], since'[c], clock')
    BY <1>4, <1>5, <2>8
  <2> HIDE DEF q, c, n
  <2> QED BY <1>1, <1>2, <2>6, <2>9, <2>10, OwedThen
<1>8. \A o \in owed' : Owed(o, slack)'
  <2> HIDE DEF n
  <2> QED BY <1>1, <1>6, <1>7
<1> QED BY <1>8 DEF OwedInv

(* Time goes on: what a client does not look at is not owed any more. *)
LEMMA OwedAfterTick ==
  ASSUME WholeInv, NEW slack \in Nat, OwedInv(slack), Tick
  PROVE  OwedInv(slack)'
<1>1. UNCHANGED <<queue, handling, since>>
  BY DEF Tick, Side!Tick
<1> SUFFICES ASSUME NEW o \in owed' PROVE Owed(o, slack)'
  BY DEF OwedInv
<1> DEFINE c == o.client
           m == o.message
<1>2. o \in owed /\ ~Side!Idle(c) /\ Owed(o, slack)
  BY DEF Tick, OwedInv
<1>3. /\ c \in Clients /\ m \in ClientMessages
      /\ Roomy(c, m) => Obeys(c, m, slack, queue[c], handling[c], since[c], clock)
  BY <1>2 DEF Owed
<1>4. handling[c] # NoMessage \/ Len(queue[c]) = 0
  <2>1. handling[c] # NoMessage \/ queue[c] = <<>>
    BY <1>2 DEF Side!Idle
  <2> QED BY <2>1
<1>5. Roomy(c, m) => Obeys(c, m, slack, queue[c], handling[c], since[c], clock')
  <2> HIDE DEF c, m
  <2> QED BY <1>3, <1>4, TimeForOthers
<1> QED BY <1>1, <1>2, <1>5, OwedThen DEF Owed

(* No more than so many messages wait at a client. *)
QueuesWithin(longest) == \A c \in Clients : Len(queue[c]) <= longest

LEMMA QueuesPolled ==
  ASSUME WholeInv, NEW longest \in Nat, QueuesWithin(longest), NEW slack \in Nat,
         Polls(longest) <= slack, NEW c \in Clients
  PROVE  Polls(Len(queue[c])) <= slack
<1>1. Len(queue[c]) \in Nat /\ Len(queue[c]) <= longest
  <2>1. queue[c] \in Seq(ClientMessages)
    BY ClientState
  <2> QED BY <2>1 DEF QueuesWithin
<1>2. Len(queue[c]) \in 0..longest
  BY <1>1
<1>3. Polls(Len(queue[c])) <= Polls(longest) /\ Polls(longest) \in Nat
      /\ Polls(Len(queue[c])) \in Nat
  BY <1>1, <1>2, PollsGrow
<1> QED BY <1>3

LEMMA OwedStep ==
  ASSUME 170 < MaxLength, WholeInv, PollsInv, ClockSet, NEW span, NEW slack \in Nat,
         RoundsInv(span, slack), NEW longest \in Nat, QueuesWithin(longest),
         Polls(longest) <= slack, OwedInv(slack), [SystemNext]_systemVars
  PROVE  OwedInv(slack)'
<1>1. ASSUME UNCHANGED owed, UNCHANGED clientVars PROVE OwedInv(slack)'
  <2>1. UNCHANGED <<queue, handling, since, clock>>
    BY <1>1 DEF clientVars
  <2>2. \A o \in owed : Owed(o, slack)'
    BY <2>1, OwedStays DEF OwedInv
  <2> QED BY <1>1, <2>2 DEF OwedInv
<1>2. ASSUME NEW c \in Clients, ClientStep(c) PROVE OwedInv(slack)'
  BY <1>2, QueuesPolled, OwedAfterStep
<1>3. ASSUME NEW d \in network, NEW duplicated \in BOOLEAN, DeliverControl(d, duplicated)
      PROVE  OwedInv(slack)'
  BY <1>3, OwedAfterArrival
<1>4. CASE Tick
  BY <1>4, OwedAfterTick
<1>5. ASSUME NEW c \in Clients, RequestResources(c) PROVE OwedInv(slack)'
  BY <1>1, <1>5 DEF RequestResources, historyVars
<1>6. ASSUME NEW d \in network,
             LoseDatagram(d) \/ \E duplicated \in BOOLEAN : DeliverRequest(d, duplicated)
      PROVE  OwedInv(slack)'
  BY <1>1, <1>6 DEF LoseDatagram, DeliverRequest, historyVars
<1>7. CASE ManagerHandles \/ ManagerStep \/ UNCHANGED systemVars
  BY <1>1, <1>7 DEF ManagerHandles, ManagerStep, systemVars, historyVars
<1> QED BY <1>2, <1>3, <1>4, <1>5, <1>6, <1>7 DEF SystemNext

(* What is obeyed is not overdue. *)
LEMMA OwedObeyed ==
  ASSUME WholeInv, PollsInv, ClockSet, NEW slack \in Nat, OwedInv(slack),
         NEW longest \in Nat, QueuesWithin(longest), Polls(longest) <= slack
  PROVE  RoundObeyed
<1> SUFFICES ASSUME NEW o \in owed,
                    \A i \in DOMAIN Targets(o.client, o.message) :
                        Room(Targets(o.client, o.message)[i])
             PROVE  clock <= LastTarget(o.client, o.message) + 2 * MaxStall
  BY DEF RoundObeyed
<1> DEFINE c == o.client
           m == o.message
           q == queue[c]
           h == handling[c]
           s == since[c]
<1>1. c \in Clients /\ m \in ClientMessages /\ Dated(c, m) /\ Owed(o, slack)
  BY DEF OwedInv, Owed
<1>2. DOMAIN Targets(c, m) = 1..Len(Targets(c, m))
  BY <1>1, TargetsTyped
<1>3. Roomy(c, m)
  BY <1>2 DEF Roomy
<1>4. Obeys(c, m, slack, q, h, s, clock)
  BY <1>1, <1>3 DEF Owed
<1>5. /\ q \in Seq(ClientMessages) /\ h \in ClientMessages \cup {NoMessage} /\ clock \in Nat
      /\ MaxStall \in Nat /\ s \in Nat /\ Polls(Len(q)) <= slack /\ Len(q) \in Nat
  BY <1>1, ClientState, SystemConstants, QueuesPolled DEF PollsInv, PollInv
<1>6. LastTarget(c, m) \in Int /\ \A time : Ready(c, m, time) => time <= LastTarget(c, m)
  BY <1>1, TargetTotals DEF Dated, Ready
<1>7. h # NoMessage =>
        /\ h \in ClientMessages /\ Targets(c, h) # <<>>
        /\ clock <= s + 2 * MaxStall \/ clock <= LastTarget(c, h) + 2 * MaxStall
  BY <1>1, LastNotOverdue
<1>8. clock > 2 * MaxStall
  BY <1>1, <1>3, <1>5, RoomForPolls
<1> HIDE DEF c, m, q, h, s
<1>9. CASE h = m
  <2>1. Ready(c, m, s)
    BY <1>1, <1>4, <1>5, <1>9, BegunInTime
  <2>2. h # NoMessage
    BY <1>1, <1>9, SentinelAssumption DEF SentinelAssumption
  <2>3. s <= LastTarget(c, m)
    BY <1>6, <2>1
  <2>4. clock <= s + 2 * MaxStall \/ clock <= LastTarget(c, m) + 2 * MaxStall
    BY <1>7, <1>9, <2>2
  <2>5. clock <= LastTarget(c, m) + 2 * MaxStall
    BY <1>5, <1>6, <2>3, <2>4
  <2> QED BY <2>5 DEF c, m
<1>10. ASSUME Obeys(c, m, slack, q, NoMessage, s, clock)
       PROVE  clock <= LastTarget(o.client, o.message) + 2 * MaxStall
  <2>1. PICK i \in 1..Len(q) : InLine(c, m, slack, i, q, NoMessage, s, clock)
    BY <1>1, <1>10, SentinelAssumption DEF SentinelAssumption, Obeys
  <2>2. clock + Polls(i - 1) <= LastTarget(c, m)
    BY <1>6, <2>1 DEF InLine
  <2>3. i - 1 \in Nat
    BY <1>5
  <2>4. Polls(i - 1) \in Nat
    BY <2>3, PollsGrow
  <2>5. clock <= LastTarget(c, m) + 2 * MaxStall
    BY <1>5, <1>6, <2>2, <2>4
  <2> QED BY <2>5 DEF c, m
<1>11. CASE h # m /\ h = NoMessage
  BY <1>4, <1>10, <1>11
<1>12. CASE h # m /\ h # NoMessage
  BY <1>1, <1>4, <1>5, <1>7, <1>8, <1>10, <1>12, HandlerFree
<1> QED BY <1>9, <1>11, <1>12

(* A round that reaches a client in time, and before a message of a later  *)
(* one, is carried out, whatever the network loses, doubles and reorders   *)
(* and whatever the client was busy with, as long as no more than longest  *)
(* messages wait at a client and the manager waits between two rounds      *)
(* three seconds longer than a round's timestamps, the lead of a           *)
(* reconfiguration and two polls for each of those messages take.  The     *)
(* clock stands past the first second of the epoch.                        *)
THEOREM RoundsObeyed ==
  ASSUME 170 < MaxLength, HyperperiodDuration = 100, UintMod = Uint32Values,
         \A s, m : Slot(s, m) + 1000 < BeginOffset,
         NEW late \in Nat, \A d \in Delays : d <= late,
         DistributionPhase + BeginOffset + GapMax + late + 1000 < LongSpan,
         NEW span \in Nat, NEW slack \in Nat, SpanFits(span),
         NEW longest \in Nat, Polls(longest) <= slack,
         NEW pause \in Nat, pause >= 3000 + span + slack + ReconfigOffset,
         pause <= BeginOffset, pause + 1000 <= GapMin,
         \A e \in EpochStarts : e >= 1000
  PROVE  System /\ []QueuesWithin(longest) => []RoundObeyed
<1>1. System => []RoundsInv(span, slack)
  BY RoundsInvariant
<1>2. System => [](PollsInv /\ ClockSet)
  BY PollsInvariant
<1>3. SystemInit => OwedInv(slack)
  BY DEF SystemInit, OwedInv
<1>4. /\ WholeInv /\ PollsInv /\ ClockSet /\ RoundsInv(span, slack) /\ QueuesWithin(longest)
      /\ OwedInv(slack) /\ [SystemNext]_systemVars
      => OwedInv(slack)'
  BY OwedStep
<1>5. WholeInv /\ PollsInv /\ ClockSet /\ QueuesWithin(longest) /\ OwedInv(slack) => RoundObeyed
  BY OwedObeyed
<1> QED BY <1>1, <1>2, <1>3, <1>4, <1>5, WholeInvariant, PTL DEF System
=============================================================================
