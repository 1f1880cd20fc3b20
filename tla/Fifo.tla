-------------------------------- MODULE Fifo --------------------------------
(***************************************************************************)
(* What a SafeQueue (safe_queue.hpp) promises its users: an unbounded      *)
(* first-in-first-out queue whose operations take effect at one instant.   *)
(***************************************************************************)
EXTENDS Sequences

CONSTANTS
    Consumers,   \* the threads that take values out
    Values       \* the values the queue may hold

VARIABLES
    items,       \* the values put in and not taken out, the oldest first
    taken        \* consumer -> the value it took last

Put == \E v \in Values : items' = Append(items, v) /\ UNCHANGED taken

Take(c) ==
    /\ items # <<>>
    /\ taken' = [taken EXCEPT ![c] = Head(items)]
    /\ items' = Tail(items)

Init ==
    /\ items = <<>>
    /\ taken \in [Consumers -> Values]

Spec == Init /\ [][Put \/ \E c \in Consumers : Take(c)]_<<items, taken>>
=============================================================================
