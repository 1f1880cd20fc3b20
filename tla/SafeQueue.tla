----------------------------- MODULE SafeQueue -----------------------------
(***************************************************************************)
(* SafeQueue<T> (safe_queue.hpp): a std::queue guarded by queue_lock, with *)
(* the condition variable queue_event for the threads that wait for a      *)
(* value.  The manager's receiving and handler threads communicate through *)
(* one, and the receiving thread and the main loop of a client through     *)
(* another.  Threads interleave at every step; a wait may end spuriously.  *)
(***************************************************************************)
EXTENDS Sequences, Naturals, FiniteSets

CONSTANTS
    Producers, Consumers,   \* the threads that call enqueue, and dequeue
    Values,
    Unlocked,               \* queue_lock is held by nobody
    Capacity                \* bound: values queued at a time

ASSUME ThreadsAssumption ==
    /\ IsFiniteSet(Consumers)
    /\ Producers \cap Consumers = {}
    /\ Unlocked \notin Producers \cup Consumers
    /\ Capacity \in Nat

VARIABLES
    safe_queue,
    queue_lock,    \* the thread that holds the mutex, or Unlocked
    waiting,       \* the threads blocked in queue_event.wait
    pc,            \* thread -> where it is
    val,           \* consumer -> dequeue's local
    taken          \* history: consumer -> what it removed from the queue last

vars == <<safe_queue, queue_lock, waiting, pc, val, taken>>

Threads == Producers \cup Consumers

Init ==
    /\ safe_queue = <<>>
    /\ queue_lock = Unlocked
    /\ waiting = {}
    /\ pc = [t \in Threads |-> "idle"]
    /\ val \in [Consumers -> Values]
    /\ taken = val

Goto(t, from, to) == pc[t] = from /\ pc' = [pc EXCEPT ![t] = to]

Lock(t) == queue_lock = Unlocked /\ queue_lock' = t
Unlock(t) == queue_lock = t /\ queue_lock' = Unlocked

-----------------------------------------------------------------------------
(* enqueue: lock, push, notify_one, and the lock is released. *)

EnqueueLock(p) ==
    /\ Goto(p, "idle", "push")
    /\ Len(safe_queue) < Capacity
    /\ Lock(p)
    /\ UNCHANGED <<safe_queue, waiting, val, taken>>

Push(p) ==
    /\ Goto(p, "push", "notify")
    /\ \E v \in Values : safe_queue' = Append(safe_queue, v)
    /\ UNCHANGED <<queue_lock, waiting, val, taken>>

(* The notification dropped. *)
NotifyOneNever(p) ==
    /\ Goto(p, "notify", "enqueued")
    /\ UNCHANGED <<safe_queue, queue_lock, waiting, val, taken>>

(* One waiting thread, if there is any, goes on to take the lock again. *)
NotifyOne(p) ==
    /\ pc[p] = "notify"
    /\ \/ waiting = {} /\ pc' = [pc EXCEPT ![p] = "enqueued"] /\ UNCHANGED waiting
       \/ \E c \in waiting :
             /\ waiting' = waiting \ {c}
             /\ pc' = [pc EXCEPT ![p] = "enqueued", ![c] = "relock"]
    /\ UNCHANGED <<safe_queue, queue_lock, val, taken>>

EnqueueReturn(p) ==
    /\ Goto(p, "enqueued", "idle")
    /\ Unlock(p)
    /\ UNCHANGED <<safe_queue, waiting, val, taken>>

-----------------------------------------------------------------------------
(* dequeue: lock, wait while the queue is empty, front, pop, unlock. *)

DequeueLock(c) ==
    /\ Goto(c, "idle", "check")
    /\ Lock(c)
    /\ UNCHANGED <<safe_queue, waiting, val, taken>>

CheckEmpty(c) ==
    /\ Goto(c, "check", IF safe_queue = <<>> THEN "wait" ELSE "front")
    /\ UNCHANGED <<safe_queue, queue_lock, waiting, val, taken>>

(* The wait with the lock kept. *)
WaitHolding(c) ==
    /\ Goto(c, "wait", "blocked")
    /\ waiting' = waiting \cup {c}
    /\ UNCHANGED <<safe_queue, queue_lock, val, taken>>

(* wait(lock) releases the lock and blocks in one step. *)
Wait(c) ==
    /\ Goto(c, "wait", "blocked")
    /\ waiting' = waiting \cup {c}
    /\ Unlock(c)
    /\ UNCHANGED <<safe_queue, val, taken>>

SpuriousWakeup(c) ==
    /\ c \in waiting
    /\ Goto(c, "blocked", "relock")
    /\ waiting' = waiting \ {c}
    /\ UNCHANGED <<safe_queue, queue_lock, val, taken>>

(* The wait under an if, not a while. *)
RelockOnce(c) ==
    /\ Goto(c, "relock", "front")
    /\ Lock(c)
    /\ UNCHANGED <<safe_queue, waiting, val, taken>>

Relock(c) ==
    /\ Goto(c, "relock", "check")
    /\ Lock(c)
    /\ UNCHANGED <<safe_queue, waiting, val, taken>>

(* front() on an empty queue is undefined. *)
Front(c) ==
    /\ Goto(c, "front", "pop")
    /\ \E v \in Values :
          /\ safe_queue # <<>> => v = Head(safe_queue)
          /\ val' = [val EXCEPT ![c] = v]
    /\ UNCHANGED <<safe_queue, queue_lock, waiting, taken>>

Pop(c) ==
    /\ Goto(c, "pop", "return")
    /\ safe_queue' = IF safe_queue = <<>> THEN <<>> ELSE Tail(safe_queue)
    /\ taken' = [taken EXCEPT ![c] = val[c]]
    /\ UNCHANGED <<queue_lock, waiting, val>>

DequeueReturn(c) ==
    /\ Goto(c, "return", "idle")
    /\ Unlock(c)
    /\ UNCHANGED <<safe_queue, waiting, val, taken>>

-----------------------------------------------------------------------------
EnqueueStep(p) == Push(p) \/ NotifyOne(p) \/ EnqueueReturn(p)

DequeueStep(c) == CheckEmpty(c) \/ Wait(c) \/ Front(c) \/ Pop(c) \/ DequeueReturn(c)

Next ==
    \/ \E p \in Producers : EnqueueLock(p) \/ EnqueueStep(p)
    \/ \E c \in Consumers : DequeueLock(c) \/ Relock(c) \/ DequeueStep(c) \/ SpuriousWakeup(c)

Spec == Init /\ [][Next]_vars

(* A call that has the mutex goes on, and a thread that was woken up gets  *)
(* the mutex if it is free again and again; nobody has to make a call, and *)
(* no wait has to end spuriously.                                          *)
FairSpec ==
    /\ Spec
    /\ \A p \in Producers : WF_vars(EnqueueStep(p))
    /\ \A c \in Consumers : WF_vars(DequeueStep(c)) /\ SF_vars(Relock(c))

-----------------------------------------------------------------------------
(* Properties. *)

Locked == {"push", "notify", "enqueued", "check", "wait", "front", "pop", "return"}

(* Every variable has its type; the mutex is held by exactly the thread    *)
(* that is between taking and releasing it, and the blocked ones wait.     *)
TypeOK ==
    /\ safe_queue \in Seq(Values)
    /\ queue_lock \in Threads \cup {Unlocked}
    /\ waiting \subseteq Consumers
    /\ pc \in [Threads -> Locked \cup {"idle", "blocked", "relock"}]
    /\ val \in [Consumers -> Values]
    /\ taken \in [Consumers -> Values]
    /\ \A t \in Threads : pc[t] \in Locked <=> queue_lock = t
    /\ waiting = {t \in Threads : pc[t] = "blocked"}

(* The consumers inside dequeue that are not blocked, and the producers    *)
(* that have yet to notify: the threads that will look after a value.      *)
Awake == {c \in Consumers : pc[c] \in {"check", "relock", "front", "pop"}}
Notifying == {p \in Producers : pc[p] = "notify"}

(* No wakeup is lost (safe_queue.hpp:56): while a consumer is blocked every *)
(* value in the queue has a thread of its own that is about to take it or   *)
(* to wake somebody up for it.                                              *)
NoLostWakeup ==
    waiting # {} => Len(safe_queue) <= Cardinality(Awake) + Cardinality(Notifying)

(* The queue behaves as a first-in-first-out queue with operations that    *)
(* take effect at once: no value is lost, duplicated, invented or          *)
(* overtaken, whichever threads call it.                                   *)
Abstract == INSTANCE Fifo WITH items <- safe_queue
ImplementsFifo == Abstract!Spec

(* A blocked consumer goes on, or somebody else has emptied the queue. *)
BlockedIsServed ==
    \A c \in Consumers :
        (pc[c] = "blocked" /\ safe_queue # <<>>) ~> (pc[c] # "blocked" \/ safe_queue = <<>>)
=============================================================================
