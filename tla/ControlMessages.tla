-------------------------- MODULE ControlMessages --------------------------
(***************************************************************************)
(* What a control message asks of the client that receives it: the         *)
(* timestamps of its payload that the client's handlers wait for, one      *)
(* after the other.  A message is what the client's main loop uses of it:  *)
(* [type, mode, stop, reconfig, start].                                    *)
(***************************************************************************)
EXTENDS Timespec, Sequences

(* A timestamp of a payload; tv_nsec is never negative. *)
Stamps == [sec : Int, ms : Nat]

(* The handlers of wired_rm_client_endnode.cpp: those that interrupt the   *)
(* generator set it going again at the start.                              *)
EndnodeTargets(m) ==
    CASE m.type = "RM_CLIENT_SYNC_TIMESTAMP_START" -> <<m.start>>
      [] m.type = "RM_CLIENT_SYNC_TIMESTAMP_RECONFIGURE_SW" -> <<m.reconfig>>
      [] m.type = "RM_CLIENT_SYNC_TIMESTAMP_RECONFIGURE_HW" -> <<m.stop, m.start>>
      [] m.type = "RM_CLIENT_SYNC_TIMESTAMP_RECONFIGURE_SYNC_OBJECT_SW" ->
            <<m.reconfig, m.start>>
      [] m.type \in {"RM_CLIENT_SYNC_TIMESTAMP_STOP", "RM_CLIENT_SYNC_TIMESTAMP_EXIT"} ->
            <<m.stop>>
      [] OTHER -> <<>>

(* The handlers of wired_rm_client_switch.cpp. *)
SwitchTargets(m) ==
    CASE m.type = "RM_CLIENT_SYNC_TIMESTAMP_START" -> <<m.start>>
      [] m.type \in {"RM_CLIENT_SYNC_TIMESTAMP_RECONFIGURE_HW",
                     "RM_CLIENT_SYNC_TIMESTAMP_RECONFIGURE_SYNC_OBJECT_HW"} -> <<m.reconfig>>
      [] m.type = "RM_CLIENT_SYNC_TIMESTAMP_EXIT" -> <<m.stop>>
      [] OTHER -> <<>>
=============================================================================
