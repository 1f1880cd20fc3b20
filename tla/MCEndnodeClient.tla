-------------------------- MODULE MCEndnodeClient --------------------------
(* Instances of EndnodeClient for TLC: messages in time and late, with the *)
(* targets in one second or in two, and near the end of a second or not.   *)
EXTENDS EndnodeClient

Stamp(time) == IF time = 0 THEN Zero ELSE ClockGettime(time)

MCMessage(type, mode, stop, reconfig, start) ==
    [type |-> type, mode |-> mode, stop |-> Stamp(stop), reconfig |-> Stamp(reconfig),
     start |-> Stamp(start)]

MCPlain ==
    {MCMessage(type, 1, 0, 0, 0) :
        type \in {"RM_CLIENT_START", "RM_CLIENT_RECONFIGURE_SW", "RM_CLIENT_EXIT"}}

MCTimed ==
    {MCMessage("RM_CLIENT_SYNC_TIMESTAMP_START", 1, 0, 0, 100500),
     MCMessage("RM_CLIENT_SYNC_TIMESTAMP_EXIT", 10, 100900, 0, 0),
     MCMessage("RM_CLIENT_SYNC_TIMESTAMP_RECONFIGURE_SW", 2, 0, 99300, 0)}

MCInterrupting ==
    {MCMessage("RM_CLIENT_SYNC_TIMESTAMP_RECONFIGURE_HW", 2, 100300, 0, 100500),
     MCMessage("RM_CLIENT_SYNC_TIMESTAMP_RECONFIGURE_HW", 2, 100300, 0, 100100),
     MCMessage("RM_CLIENT_SYNC_TIMESTAMP_RECONFIGURE_SYNC_OBJECT_SW", 2, 0, 99700, 100900),
     MCMessage("RM_CLIENT_SYNC_TIMESTAMP_RECONFIGURE_SYNC_OBJECT_SW", 2, 0, 100200, 101300)}

MCInbox == MCPlain \cup MCTimed \cup MCInterrupting
=============================================================================
