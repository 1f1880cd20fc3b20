--------------------------- MODULE FragmentStream ---------------------------
(***************************************************************************)
(* What a receiver of the data traffic may rely on: the fragments of the   *)
(* objects of one service arrive on its wire object after object, every    *)
(* object complete, its fragments numbered from 0 without a gap, all of    *)
(* them carrying the fragment count and the mode of that object.           *)
(* TrafficGenerator implements this when it is started synchronously.      *)
(***************************************************************************)
EXTENDS Integers

CONSTANTS
    Modes,      \* the modes of the service
    NoMessage   \* nothing has been sent yet

VARIABLE
    sent        \* the last fragment handed to the socket

(* The header a fragment carries. *)
Headers == [object : Nat, fragment : Nat, total : Nat, mode : Modes]

(* The object of the last fragment needs nothing more. *)
Complete == sent = NoMessage \/ sent.fragment + 1 = sent.total

Init == sent = NoMessage

(* The first fragment of an object; object numbers never return, and an   *)
(* object without fragments leaves a gap in them.                          *)
StartObject ==
    /\ Complete
    /\ sent' \in Headers
    /\ sent'.fragment = 0
    /\ sent'.total > 0
    /\ sent # NoMessage => sent'.object > sent.object

(* The next fragment of the object on the wire. *)
NextFragment ==
    /\ ~Complete
    /\ sent' = [sent EXCEPT !.fragment = @ + 1]

Next == StartObject \/ NextFragment

Spec == Init /\ [][Next]_sent
=============================================================================
