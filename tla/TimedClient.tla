---------------------------- MODULE TimedClient ----------------------------
(***************************************************************************)
(* What the manager may expect of its clients, whatever program runs on    *)
(* them: control messages are handled one after the other in the order of  *)
(* their arrival.  A message with timestamps is carried out step by step,  *)
(* each step after its timestamp, in its second but for the time between   *)
(* two polls of the clock, and not much later than the timestamp; or the   *)
(* rest of it is abandoned, which only a timestamp whose second is over    *)
(* (or that was never set) justifies.                                      *)
(*                                                                         *)
(* EndnodeClient and SwitchClient implement this specification, each with  *)
(* a single client; ModeChange is built on it.                             *)
(***************************************************************************)
EXTENDS ControlMessages

CONSTANTS
    Clients,
    Inbox,                  \* the messages a client may receive
    NoMessage,              \* nothing is being handled
    Targets(_, _),          \* client, message -> the timestamps of its steps, in order
    Effect(_, _, _, _, _),  \* what step k of a message at a time makes of a client's effect
    Untold,                 \* a client's effect before its first message
    MaxStall                \* milliseconds between two polls of the clock

VARIABLES
    queue,      \* messages arrived and not yet handled
    handling,   \* the message with timestamps being carried out, or NoMessage
    done,       \* the last step of it that was carried out
    since,      \* when its handler was entered
    effect,     \* what the client was made to do last
    now         \* the synchronised clock, milliseconds

vars == <<queue, handling, done, since, effect, now>>

Init ==
    /\ queue = [c \in Clients |-> <<>>]
    /\ handling = [c \in Clients |-> NoMessage]
    /\ done = [c \in Clients |-> 0]
    /\ since = [c \in Clients |-> 0]
    /\ effect = [c \in Clients |-> Untold]
    /\ now \in Nat

(* A message arrives. *)
Arrive(c, m) ==
    /\ queue' = [queue EXCEPT ![c] = Append(@, m)]
    /\ UNCHANGED <<handling, done, since, effect, now>>

Idle(c) == handling[c] = NoMessage /\ queue[c] # <<>>
Oldest(c) == Head(queue[c])

(* The oldest message is taken and has no timestamps: it takes effect. *)
HandleAtOnce(c) ==
    /\ Idle(c)
    /\ Targets(c, Oldest(c)) = <<>>
    /\ queue' = [queue EXCEPT ![c] = Tail(@)]
    /\ effect' = [effect EXCEPT ![c] = Effect(c, Oldest(c), 0, @, now)]
    /\ UNCHANGED <<handling, done, since, now>>

(* The oldest message is taken and has timestamps: they are awaited. *)
Begin(c) ==
    /\ Idle(c)
    /\ Targets(c, Oldest(c)) # <<>>
    /\ queue' = [queue EXCEPT ![c] = Tail(@)]
    /\ handling' = [handling EXCEPT ![c] = Oldest(c)]
    /\ since' = [since EXCEPT ![c] = now]
    /\ UNCHANGED <<done, effect, now>>

(* The steps of the message that are left. *)
Left(c) == (done[c] + 1)..Len(Targets(c, handling[c]))
Target(c, k) == Targets(c, handling[c])[k]

(* A handler that only asks whether the timestamp has passed. *)
DueEver(t) == t.sec # 0 /\ Total(t) < now

(* A timestamp that has passed, in its second or less than a poll later. *)
Due(t) == t.sec # 0 /\ Total(t) < now /\ now < 1000 * (t.sec + 1) + MaxStall

(* The second taken for over when it begins. *)
ExpiredEarly(t) == t.sec = 0 \/ 1000 * t.sec <= now

(* A timestamp a handler does not accept. *)
Expired(t) == t.sec = 0 \/ 1000 * (t.sec + 1) <= now

(* The last step leaves its number to the next message. *)
ActKeeping(c, k) ==
    /\ k \in Left(c)
    /\ Due(Target(c, k))
    /\ effect' = [effect EXCEPT ![c] = Effect(c, handling[c], k, @, now)]
    /\ handling' = [handling EXCEPT
                        ![c] = IF k = Len(Targets(c, handling[c])) THEN NoMessage ELSE @]
    /\ done' = [done EXCEPT ![c] = k]
    /\ UNCHANGED <<queue, since, now>>

(* A step is carried out; those before it that are not due are skipped. *)
Act(c, k) ==
    /\ k \in Left(c)
    /\ Due(Target(c, k))
    /\ effect' = [effect EXCEPT ![c] = Effect(c, handling[c], k, @, now)]
    /\ IF k = Len(Targets(c, handling[c]))
       THEN /\ handling' = [handling EXCEPT ![c] = NoMessage]
            /\ done' = [done EXCEPT ![c] = 0]
       ELSE /\ done' = [done EXCEPT ![c] = k]
            /\ UNCHANGED handling
    /\ UNCHANGED <<queue, since, now>>

(* The rest of the message is given up. *)
Abandon(c) ==
    /\ handling[c] # NoMessage
    /\ \E k \in Left(c) : Expired(Target(c, k))
    /\ handling' = [handling EXCEPT ![c] = NoMessage]
    /\ done' = [done EXCEPT ![c] = 0]
    /\ UNCHANGED <<queue, since, effect, now>>

(* No step is overdue: two polls after its timestamp, or after the handler *)
(* was entered, it has been carried out or given up.                       *)
InTime(c, time) ==
    handling[c] # NoMessage =>
        \A k \in Left(c) :
            \/ time <= since[c] + 2 * MaxStall
            \/ time <= Total(Target(c, k)) + 2 * MaxStall

Tick(time) ==
    /\ time > now
    /\ \A c \in Clients : InTime(c, time)
    /\ now' = time
    /\ UNCHANGED <<queue, handling, done, since, effect>>

ClientStep(c) ==
    \/ HandleAtOnce(c) \/ Begin(c) \/ Abandon(c)
    \/ handling[c] # NoMessage /\ \E k \in Left(c) : Act(c, k)

Next ==
    \/ \E c \in Clients : ClientStep(c) \/ \E m \in Inbox : Arrive(c, m)
    \/ now' \in Nat /\ Tick(now')

Spec == Init /\ [][Next]_vars
=============================================================================
