------------------------- MODULE MCTrafficGenerator -------------------------
(* Instances of TrafficGenerator for TLC. *)
EXTENDS TrafficGenerator, TLC

CONSTANTS NoModeYet, NothingSent    \* model values

(* Mode 0 is the entry main() adds to the map by reading                   *)
(* service_configuration[0]; modes 1 and 2 send objects of two sizes.      *)
MCSettings ==
    0 :> [packets |-> 0, deadline |-> 0]
    @@ 1 :> [packets |-> 1, deadline |-> 1]
    @@ 2 :> [packets |-> 2, deadline |-> 1]

(* Mode 3 is one the service has no settings for. *)
MCModeIds == {0, 1, 2, 3}
=============================================================================
