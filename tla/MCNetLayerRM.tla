---------------------------- MODULE MCNetLayerRM ----------------------------
(* Instances of NetLayerRM for TLC: two clients, the first with two services,*)
(* two network modes in turn, the second client without a mode in one.     *)
EXTENDS NetLayerRM, TLC

CONSTANTS Idle, FallbackAddress    \* model values

MCStartupMode == 1 :> 1 @@ 2 :> 1

MCReconfigurationOrder == <<20, 21>>
MCReconfigurationMap == 20 :> (1 :> 1 @@ 2 :> 1) @@ 21 :> (2 :> 2)

MCSlotOffset == 1 :> (1 :> 1 @@ 2 :> 33) @@ 2 :> (1 :> 35 @@ 2 :> 50)
                @@ 3 :> (1 :> 67 @@ 2 :> 1)
=============================================================================
