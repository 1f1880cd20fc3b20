---------------------------- MODULE MCModeChange ----------------------------
(* Instances of ModeChange for TLC: two clients with a service each, and   *)
(* two network modes in turn, as in config/.                               *)
EXTENDS ModeChange, TLC

CONSTANTS Unlisted, FallbackAddress    \* model values

MCNodes == Clients \cup {RM}
MCStartupMode == 1 :> 0 @@ 2 :> 0
MCReconfigurationOrder == <<20>>
MCReconfigurationMap == 20 :> (1 :> 1 @@ 2 :> 1)
MCServiceOf == 1 :> 1 @@ 2 :> 2
MCSlotOffset == 1 :> (0 :> 1 @@ 1 :> 33) @@ 2 :> (0 :> 50 @@ 1 :> 67)
=============================================================================
