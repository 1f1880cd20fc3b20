----------------------------- MODULE ModeChange -----------------------------
(***************************************************************************)
(* The system: the manager (NetLayerRM), its clients (TimedClient, which   *)
(* EndnodeClient and SwitchClient implement) and the control channel       *)
(* between them (ControlChannel), on one synchronised clock.  The clients  *)
(* ask for their resources, the manager starts them, walks them through    *)
(* its mode-change rounds and stops them; what it sends may be lost,       *)
(* duplicated, late, and overtaken, and nothing is ever sent twice.        *)
(*                                                                         *)
(* NetLayerRM's now is when the manager goes on: while it lies ahead of    *)
(* the clock a timer runs or the timer thread sleeps.  The acknowledgements*)
(* of the clients, which the manager logs, are left out.                   *)
(***************************************************************************)
EXTENDS NetLayerRM, ControlMessages, ControlChannel, FiniteSets

CONSTANTS
    Switches,       \* the clients that are switches; the others are end nodes
    ServiceOf,      \* client -> the service it asks for
    RM,             \* the manager's address
    NoMessage, NoEffect,
    MaxStall,       \* bound: milliseconds between two polls of a handler
    MaxUnderway,    \* bound: datagrams under way while the clock goes on
    Afterwards      \* bound: how long the clock goes on when the manager has ended

ASSUME SystemAssumption ==
    /\ Switches \subseteq Clients
    /\ ServiceOf \in [Clients -> Services]
    /\ RM \notin Clients
    /\ Nodes = Clients \cup {RM}
    /\ Loopback \notin Nodes
    /\ MaxLength \in Nat /\ MaxStall \in Nat /\ MaxFaults \in Nat
    /\ MaxUnderway \in Nat /\ Afterwards \in Nat

VARIABLES
    requested,                              \* the clients that have asked for resources
    queue, handling, done, since, effect,   \* TimedClient
    clock,                                  \* the synchronised clock, milliseconds
    \* history
    posted,     \* what the manager has posted
    owed        \* [client, message]: arrived in time, not carried out yet;
                \*   the client never let time pass since with a message waiting and nothing to do

clientVars == <<queue, handling, done, since, effect, clock>>
historyVars == <<posted, owed>>
systemVars == <<vars, requested, channelVars, clientVars, historyVars>>

EndNodes == Clients \ Switches

Targets(c, m) == IF c \in Switches THEN SwitchTargets(m) ELSE EndnodeTargets(m)
Effect(c, m, k, old, time) == [message |-> m, step |-> k]

ClientMessages ==
    [type : MessageTypes, mode : Nat, stop : Timespecs, reconfig : Timespecs, start : Timespecs]

ASSUME SentinelAssumption ==
    NoMessage \notin ClientMessages /\ NoEffect \notin [message : ClientMessages, step : 0..2]

Side == INSTANCE TimedClient WITH
    Inbox <- ClientMessages, Untold <- NoEffect, now <- clock

SystemInit ==
    /\ Init
    /\ requested = {}
    /\ ChannelInit
    /\ clock = now
    /\ Side!Init
    /\ posted = {} /\ owed = {}

-----------------------------------------------------------------------------
(* Registration. *)

(* A client's sync_request; requests after client_init_time are left to    *)
(* NetLayerRM's own runs.                                                  *)
RequestResources(c) ==
    /\ c \notin requested
    /\ pc = "init"
    /\ requested' = requested \cup {c}
    /\ LET payload == IF c \in Switches THEN EmptyBuffer ELSE ResourceRequest
       IN  SendoutControlMessage(SyncRequest(c, ServiceOf[c], payload), RM)
    /\ UNCHANGED <<vars, rm_message, faults, clientVars, historyVars>>

(* The manager's receiving thread. *)
DeliverRequest(d, duplicated) ==
    /\ d.to = RM
    /\ ReceiveControlMessage(d, duplicated)
    /\ ReceiveMessage(rm_message'[RM].service_id, rm_message'[RM].source_id)
    /\ UNCHANGED <<requested, clientVars, historyVars>>

ManagerHandles ==
    /\ HandlerStep
    /\ UNCHANGED <<requested, channelVars, clientVars, historyVars>>

-----------------------------------------------------------------------------
(* The manager's timer thread.  What a sweep sends goes onto the network.  *)

Posts == sent' # sent /\ sent' # <<>>

ManagerStep ==
    /\ clock = now
    /\ TimerStep
    /\ IF Posts
       THEN LET message == sent'[Len(sent')]
            IN  /\ SendoutControlMessage(ControlMessage(message), message.to)
                /\ posted' = posted \cup {message}
       ELSE UNCHANGED <<network, posted>>
    /\ UNCHANGED <<requested, rm_message, faults, clientVars, owed>>

-----------------------------------------------------------------------------
(* The clients.  At the moment of the manager they go on after it: what it *)
(* does at that moment takes no time and does not depend on them.          *)

Ended == pc \in {"invalid", "stopped", "exited"}
ManagerWaits == clock < now \/ Ended

LastTarget(c, m) == Total(Targets(c, m)[Len(Targets(c, m))])

(* What a client has before it. *)
Waiting(c) == {queue[c][i] : i \in DOMAIN queue[c]} \cup ({handling[c]} \ {NoMessage})

(* A message of a later round came first: the client's loop waits for that *)
(* round's timestamps before it looks at m.                                *)
Overtaken(c, m) ==
    \E n \in Waiting(c) : Targets(c, n) # <<>> /\ LastTarget(c, n) > LastTarget(c, m)

(* In time: before its timestamps (a restart may precede its stop in their *)
(* second) by what it may take the client to be done with the messages     *)
(* before it when theirs have passed.                                      *)
InTimeFor(c, m) ==
    /\ Targets(c, m) # <<>>
    /\ ~Overtaken(c, m)
    /\ \A k \in DOMAIN Targets(c, m) :
          clock + 2 * MaxStall * (Len(queue[c]) + 1) <= Total(Targets(c, m)[k])

(* rm_handler: what is received is decoded and queued. *)
DeliverControl(d, duplicated) ==
    /\ ManagerWaits
    /\ d.to \in Clients
    /\ ReceiveControlMessage(d, duplicated)
    /\ \E m \in {ClientMessage(rm_message'[d.to])} :
           /\ Side!Arrive(d.to, m)
           /\ owed' = IF InTimeFor(d.to, m)
                      THEN owed \cup {[client |-> d.to, message |-> m]} ELSE owed
    /\ UNCHANGED <<vars, requested, posted>>

LoseDatagram(d) ==
    /\ Lose(d)
    /\ UNCHANGED <<vars, requested, clientVars, historyVars>>

(* A message whose last step is carried out is not owed any more. *)
Settled(c) == {o \in owed : o.client = c /\ effect'[c] # NoEffect
                            /\ effect'[c].message = o.message
                            /\ effect'[c].step = Len(Targets(c, o.message))}

ClientStep(c) ==
    /\ ManagerWaits
    /\ Side!ClientStep(c)
    /\ owed' = owed \ Settled(c)
    /\ UNCHANGED <<vars, requested, channelVars, posted>>

-----------------------------------------------------------------------------
(* The clock goes on, not further than the moment of the manager.  Bound:  *)
(* it stops at that moment, and at the first millisecond in which a client *)
(* may carry out a step it waits for.                                      *)
LastMoment == IF Ended THEN now + Afterwards ELSE now

Moments ==
    {LastMoment} \cup UNION {{Total(Side!Target(c, k)) + 1 : k \in Side!Left(c)} :
                        c \in {d \in Clients : handling[d] # NoMessage}}

Tick ==
    /\ Cardinality(network) <= MaxUnderway
    /\ \E time \in Moments :
          /\ time <= LastMoment
          /\ Side!Tick(time)
    /\ owed' = {o \in owed : ~Side!Idle(o.client)}
    /\ UNCHANGED <<vars, requested, channelVars, posted>>

SystemNext ==
    \/ \E c \in Clients : RequestResources(c) \/ ClientStep(c)
    \/ \E d \in network :
          \/ \E duplicated \in BOOLEAN :
                DeliverRequest(d, duplicated) \/ DeliverControl(d, duplicated)
          \/ LoseDatagram(d)
    \/ ManagerHandles \/ ManagerStep \/ Tick

System == SystemInit /\ [][SystemNext]_systemVars

-----------------------------------------------------------------------------
(* Properties. *)

Effects == {NoEffect} \cup [message : ClientMessages, step : 0..2]

(* The system's variables have their types: whatever is received was       *)
(* decoded to a message with timestamps.                                   *)
SystemTypeOK ==
    /\ TypeOK
    /\ requested \subseteq Clients
    /\ \A d \in network : d.to \in Clients \cup {RM, Loopback}
    /\ \A c \in Clients :
          /\ queue[c] \in Seq(ClientMessages)
          /\ handling[c] \in ClientMessages \cup {NoMessage}
          /\ done[c] \in 0..1
          /\ effect[c] \in Effects
    /\ clock \in Nat
    /\ ~Ended => clock <= now

(* What a client has before it or has done was sent to it, by the manager, *)
(* with this type, mode and these timestamps: neither the codec nor the    *)
(* objects and buffers that are used again and again mix messages up, and  *)
(* no client carries out another's.                                        *)
Seen(c) ==
    Waiting(c) \cup (IF effect[c] = NoEffect THEN {} ELSE {effect[c].message})

HandledAsSent ==
    \A c \in Clients : \A m \in Seen(c) :
        \E p \in posted :
            /\ p.to = c
            /\ m = [type |-> p.type, mode |-> p.mode, stop |-> p.stop,
                    reconfig |-> p.reconfig, start |-> p.start]

(* Messages that arrive twice, late or out of order never take a client    *)
(* back to the start or to a round before the one it was in.               *)
NeverBackwards ==
    [][\A c \in Clients :
          (effect[c] # NoEffect /\ effect'[c] # effect[c]
             /\ effect[c].step > 0 /\ effect'[c].step > 0) =>
                LastTarget(c, effect'[c].message) >= LastTarget(c, effect[c].message)]_systemVars

(* A round that reaches a client before its timestamps, and before a       *)
(* message of a later one, is carried out, whatever the channel did to the *)
(* messages before it and whatever the client was busy with: the manager   *)
(* leaves its clients time for every round.  It takes a client that looks  *)
(* at its queue when it is idle, and timestamps not too near to the end of *)
(* their seconds.  A round that a later one overtakes may be missed even   *)
(* when it arrives in time: the next may be on its way before its restart. *)
Room(t) == t.ms + 2 * MaxStall < 1000

RoundObeyed ==
    \A o \in owed :
        \/ \E i \in DOMAIN Targets(o.client, o.message) : ~Room(Targets(o.client, o.message)[i])
        \/ clock <= LastTarget(o.client, o.message) + 2 * MaxStall

(* Two end nodes that transmit do so in different slots of the             *)
(* hyperperiod, in whatever rounds the messages they got have left them.   *)
Transmits(c) ==
    /\ effect[c] # NoEffect
    /\ effect[c].message.start # Zero
    /\ effect[c].message.type # "RM_CLIENT_SYNC_TIMESTAMP_EXIT"
    /\ effect[c].step = Len(Targets(c, effect[c].message))

SlotsKept ==
    \A c, d \in EndNodes :
        c # d /\ Transmits(c) /\ Transmits(d) =>
            (Total(effect[c].message.start) - Total(effect[d].message.start))
                % HyperperiodDuration # 0

(* A mode change stops the end nodes, reconfigures the network             *)
(* MC_CLIENT_RECONFIG_OFFSET later and restarts the end nodes              *)
(* MC_CLIENT_START_OFFSET after that (config/*_experiment_1.json): a switch*)
(* is not reconfigured while an end node that knew of the round before its *)
(* stop goes on transmitting.                                              *)
ReconfiguresIn(s, m) ==
    effect'[s] # effect[s] /\ effect'[s].message = m
        /\ m.type = "RM_CLIENT_SYNC_TIMESTAMP_RECONFIGURE_HW"

QuietReconfiguration ==
    [][\A s \in Switches, e \in EndNodes :
          (/\ handling[e] # NoMessage
           /\ ReconfiguresIn(s, [handling[e] EXCEPT !.mode = effect'[s].message.mode])
           /\ since[e] < Total(handling[e].stop))
          => done[e] = 1]_systemVars
=============================================================================
