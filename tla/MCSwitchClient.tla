--------------------------- MODULE MCSwitchClient ---------------------------
(* An instance of SwitchClient for TLC: messages in time and late, with    *)
(* and without a script, and near the end of a second or not.              *)
EXTENDS SwitchClient

MCMessage(type, mode, time) ==
    LET stamp == IF time = 0 THEN Zero ELSE ClockGettime(time)
    IN  [type |-> type, mode |-> mode, stop |-> stamp, reconfig |-> stamp, start |-> stamp]

MCInbox ==
    {MCMessage("RM_CLIENT_START", 1, 0), MCMessage("RM_CLIENT_EXIT", 10, 0),
     MCMessage("RM_CLIENT_RECONFIGURE_HW", 2, 0),
     MCMessage("RM_CLIENT_SYNC_TIMESTAMP_RECONFIGURE_SW", 1, 100300),
     MCMessage("RM_CLIENT_SYNC_TIMESTAMP_START", 0, 100500),
     MCMessage("RM_CLIENT_SYNC_TIMESTAMP_RECONFIGURE_HW", 1, 100300),
     MCMessage("RM_CLIENT_SYNC_TIMESTAMP_RECONFIGURE_HW", 0, 101900),
     MCMessage("RM_CLIENT_SYNC_TIMESTAMP_RECONFIGURE_SYNC_OBJECT_HW", 1, 99300),
     MCMessage("RM_CLIENT_SYNC_TIMESTAMP_EXIT", 10, 100700)}
=============================================================================
