--------------------------- MODULE ControlChannel ---------------------------
(***************************************************************************)
(* The control channel between the manager and its clients: the message    *)
(* buffer (message_net.hpp), the codec of control messages and their       *)
(* payload (messages.cpp, protocol_basic_payload.cpp,                      *)
(* protocol_rm_wired_payload.cpp), the messages sent (rm_communication.cpp,*)
(* rm_abstraction.cpp) and UDP between the two: a datagram may be lost,    *)
(* duplicated, late, and overtaken by another.                             *)
(*                                                                         *)
(* Bytes are not modelled one by one.  A buffer holds cells, a value with  *)
(* its size, at byte offsets; what is read at another offset or in another *)
(* size than it was written is Garbage.                                    *)
(***************************************************************************)
EXTENDS Timespec, Sequences

CONSTANTS
    Nodes,          \* the addresses that receive datagrams
    RMId,           \* demonstrator::RM_ID
    MaxLength,      \* max_length, the bytes of a buffer
    Garbage,        \* bytes that were not written as they are read
    MaxFaults       \* bound: datagrams lost or delivered twice

VARIABLES
    network,        \* the datagrams on their way: [to, datagram]
    rm_message,     \* node -> the RMMessage its receiving thread reads into, again and again
    faults          \* datagrams lost or delivered twice so far

channelVars == <<network, rm_message, faults>>

-----------------------------------------------------------------------------
(* MessageNet_t: bytes written, a position to read or write at, and the    *)
(* length of the message.                                                  *)

NoBytes == [offset \in {} |-> Garbage]
EmptyBuffer == [buffer |-> NoBytes, pos |-> 0, length |-> 0]

(* memcpy of size bytes to an offset, over what was there. *)
Overwrite(bytes, offset, size, block) ==
    LET kept == {o \in DOMAIN bytes : o >= offset + size \/ o + bytes[o].size <= offset}
    IN  [o \in kept \cup {offset + b : b \in DOMAIN block} |->
            IF o \in kept THEN bytes[o] ELSE block[o - offset]]

(* The first size bytes of those from an offset. *)
Block(bytes, offset, size) ==
    LET inside == {o \in DOMAIN bytes : offset <= o /\ o + bytes[o].size <= offset + size}
    IN  [b \in {o - offset : o \in inside} |-> bytes[b + offset]]

(* add: refused, silently, when it would fill the buffer. *)
AddBytes(message, block, size) ==
    IF message.pos + size < MaxLength
    THEN [buffer |-> Overwrite(message.buffer, message.pos, size, block),
          pos |-> message.pos + size, length |-> message.length + size]
    ELSE message

(* read: what is read, if the message is long enough. *)
CanRead(message, size) == message.pos + size <= message.length
ReadBytes(message, size) == Block(message.buffer, message.pos, size)
Skip(message, size) == [message EXCEPT !.pos = @ + size]

Reset(message) == [message EXCEPT !.pos = 0]

(* A variable is added, and read, as the one cell of its size. *)
Cell(value, size) == [b \in {0} |-> [value |-> value, size |-> size]]
ReadValue(message, size) ==
    IF message.pos \in DOMAIN message.buffer /\ message.buffer[message.pos].size = size
    THEN message.buffer[message.pos].value ELSE Garbage

(* Fields <<name, size>> of an object, added or read one after the other;  *)
(* a field that cannot be read keeps its value.                            *)
AddField(object, message, field) ==
    AddBytes(message, Cell(object[field[1]], field[2]), field[2])

AddFields(message, object, fields) ==
    LET added[k \in 0..Len(fields)] ==
            IF k = 0 THEN message ELSE AddField(object, added[k - 1], fields[k])
    IN  added[Len(fields)]

ReadField(state, field) ==
    IF CanRead(state.message, field[2])
    THEN [message |-> Skip(state.message, field[2]),
          object |-> [state.object EXCEPT ![field[1]] = ReadValue(state.message, field[2])]]
    ELSE state

ReadFields(message, object, fields) ==
    LET read[k \in 0..Len(fields)] ==
            IF k = 0 THEN [message |-> message, object |-> object]
            ELSE ReadField(read[k - 1], fields[k])
    IN  read[Len(fields)]

-----------------------------------------------------------------------------
(* RMMessage. *)

HeaderFields ==
    <<<<"message_type", 4>>, <<"priority", 1>>, <<"source_id", 4>>, <<"destination_id", 4>>,
      <<"service_id", 8>>, <<"mode", 1>>, <<"time_stamp", 8>>, <<"protocol_id", 4>>>>

(* The constructors; time_stamp is a clock reading that nobody uses, and   *)
(* the all-ones ids of an empty message are not told from 0.               *)
EmptyRMMessage ==
    [message_type |-> "NOOP", priority |-> 255, source_id |-> 0, destination_id |-> 0,
     service_id |-> 0, mode |-> 255, time_stamp |-> 0, protocol_id |-> "NONE",
     payload |-> NoBytes, payload_size |-> 0]

RMMessage(message_type, source_id, destination_id, service_id, mode, payload) ==
    [message_type |-> message_type, priority |-> 0, source_id |-> source_id,
     destination_id |-> destination_id, service_id |-> service_id, mode |-> mode % 256,
     time_stamp |-> 0, protocol_id |-> "RM_BASIC",
     payload |-> payload.buffer, payload_size |-> payload.length]

RMToNetwork(object) ==
    AddBytes(AddFields(EmptyBuffer, object, HeaderFields),
             Block(object.payload, 0, object.payload_size), object.payload_size)

(* What follows the header is the payload, written over the last one. *)
NetworkToRM(object, message) ==
    LET header == ReadFields(message, object, HeaderFields)
        size   == header.message.length - header.message.pos
    IN  [header.object EXCEPT
            !.payload = Overwrite(@, 0, size, ReadBytes(header.message, size)),
            !.payload_size = size]

-----------------------------------------------------------------------------
(* RMPayload. *)

BasicPayloadFields == <<<<"object_size", 4>>, <<"object_deadline", 8>>>>
PayloadFields ==
    BasicPayloadFields \o
    <<<<"data_connection_priority", 4>>, <<"measurement_id", 4>>, <<"rm_client_action", 4>>,
      <<"timestamp_stop", 16>>, <<"timestamp_reconfig", 16>>, <<"timestamp_start", 16>>,
      <<"resource_request_struct", 64>>>>

RMPayload(rm_client_action, stop, reconfig, start) ==
    [object_size |-> 0, object_deadline |-> 0, data_connection_priority |-> 0,
     measurement_id |-> 0, rm_client_action |-> rm_client_action, timestamp_stop |-> stop,
     timestamp_reconfig |-> reconfig, timestamp_start |-> start,
     resource_request_struct |-> "none"]

Serialize(payload) == AddFields(EmptyBuffer, payload, PayloadFields)

Deserialize(message) ==
    ReadFields(message, RMPayload("IDLE", Zero, Zero, Zero), PayloadFields).object

-----------------------------------------------------------------------------
(* What is sent. *)

(* The send functions of the manager: message is one of NetLayerRM's.  The *)
(* asynchronous ones send an empty payload, those of a mode change have    *)
(* another use for the header's ids.                                       *)
PlainTypes == {"RM_CLIENT_START", "RM_CLIENT_RECONFIGURE_HW", "RM_CLIENT_EXIT"}
ReconfigureTypes ==
    {"RM_CLIENT_RECONFIGURE_HW", "RM_CLIENT_SYNC_TIMESTAMP_RECONFIGURE_HW",
     "RM_CLIENT_SYNC_TIMESTAMP_RECONFIGURE_SW",
     "RM_CLIENT_SYNC_TIMESTAMP_RECONFIGURE_SYNC_OBJECT_HW",
     "RM_CLIENT_SYNC_TIMESTAMP_RECONFIGURE_SYNC_OBJECT_SW"}

Payload(message) ==
    IF message.type \in PlainTypes THEN EmptyBuffer
    ELSE Serialize(RMPayload(IF message.type = "RM_CLIENT_SYNC_TIMESTAMP_START"
                             THEN "SYNC_TIMESTAMP_START" ELSE "SYNC_TIMESTAMP_RECONFGURE",
                             message.stop, message.reconfig, message.start))

(* send_start, send_start_sync and those that stop or end a client. *)
ToService(message) ==
    RMMessage(message.type, RMId, RMId, message.service, message.mode, Payload(message))

(* send_reconfig and send_sync_reconfig_type. *)
ToRound(message) ==
    RMMessage(message.type, RMId, message.service, message.iteration, message.mode,
              Payload(message))

ControlMessage(message) ==
    IF message.type \in ReconfigureTypes THEN ToRound(message) ELSE ToService(message)

(* sync_request.  An end node's payload is the request for its resources,   *)
(* a switch's has nothing added to it.                                     *)
ResourceRequest ==
    Serialize([RMPayload("IDLE", Zero, Zero, Zero) EXCEPT
                    !.object_size = 2000, !.object_deadline = 100000,
                    !.resource_request_struct = "client_resources_request_mode_0"])

SyncRequest(client_id, service_id, payload) ==
    RMMessage("RM_CLIENT_SYNC_REQUEST", client_id, client_id, service_id, 0, payload)

(* sendout_control_message: the bytes up to the buffer's length. *)
SendoutControlMessage(object, target_address) ==
    LET message == RMToNetwork(object)
    IN  network' = network \cup
            {[to |-> target_address,
              datagram |-> [buffer |-> Block(message.buffer, 0, message.length),
                            length |-> message.length]]}

-----------------------------------------------------------------------------
(* What is received. *)

ChannelInit ==
    /\ network = {}
    /\ rm_message = [n \in Nodes |-> EmptyRMMessage]
    /\ faults = 0

(* The network may deliver a datagram once more. *)
Take(d, duplicated) ==
    /\ d \in network
    /\ IF duplicated
       THEN faults < MaxFaults /\ faults' = faults + 1 /\ UNCHANGED network
       ELSE network' = network \ {d} /\ UNCHANGED faults

(* receive_control_message: a datagram is read from its first byte into    *)
(* the receiving thread's message.                                         *)
ReceiveControlMessage(d, duplicated) ==
    /\ d.to \in Nodes
    /\ Take(d, duplicated)
    /\ rm_message' = [rm_message EXCEPT
            ![d.to] = NetworkToRM(@, [buffer |-> d.datagram.buffer, pos |-> 0,
                                      length |-> d.datagram.length])]

Lose(d) ==
    /\ d \in network
    /\ faults < MaxFaults
    /\ faults' = faults + 1
    /\ network' = network \ {d}
    /\ UNCHANGED rm_message

(* The same without the reset: the payload is read from its end. *)
ReceivedPayloadUnreset(object) ==
    Deserialize(AddBytes(EmptyBuffer, Block(object.payload, 0, object.payload_size),
                         object.payload_size))

(* A client's main() puts the payload into a buffer of its own, resets it  *)
(* and has a handler deserialize it.                                       *)
ReceivedPayload(object) ==
    Deserialize(Reset(AddBytes(EmptyBuffer, Block(object.payload, 0, object.payload_size),
                               object.payload_size)))

ClientMessage(object) ==
    LET payload == ReceivedPayload(object)
    IN  [type |-> object.message_type, mode |-> object.mode, stop |-> payload.timestamp_stop,
         reconfig |-> payload.timestamp_reconfig, start |-> payload.timestamp_start]
=============================================================================
