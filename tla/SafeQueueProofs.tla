-------------------------- MODULE SafeQueueProofs --------------------------
(***************************************************************************)
(* What holds of SafeQueue for every set of producers, every finite set of *)
(* consumers and any values.                                               *)
(***************************************************************************)
EXTENDS SafeQueue, FiniteSetTheorems, TLAPS

(* What a thread inside the mutex knows of the queue. *)
QueueInv ==
    \A c \in Consumers :
        /\ pc[c] = "wait" => safe_queue = <<>>
        /\ pc[c] \in {"front", "pop"} => safe_queue # <<>>
        /\ pc[c] = "pop" => val[c] = Head(safe_queue)

Inv == TypeOK /\ QueueInv /\ NoLostWakeup

-----------------------------------------------------------------------------
(* The invariant's parts, step by step. *)

LEMMA TypeInit == Init => TypeOK
  BY ThreadsAssumption DEF ThreadsAssumption, Init, TypeOK, Locked, Threads

LEMMA TypeStep == TypeOK /\ QueueInv /\ [Next]_vars => TypeOK'
<1> SUFFICES ASSUME TypeOK, QueueInv, [Next]_vars PROVE TypeOK'
  OBVIOUS
<1> USE ThreadsAssumption DEF ThreadsAssumption, TypeOK, Locked, Threads, Goto, Lock, Unlock
<1>1. ASSUME NEW p \in Producers, EnqueueLock(p) PROVE TypeOK'
  BY <1>1 DEF EnqueueLock
<1>2. ASSUME NEW p \in Producers, Push(p) PROVE TypeOK'
  BY <1>2 DEF Push
<1>3. ASSUME NEW p \in Producers, NotifyOne(p) PROVE TypeOK'
  BY <1>3 DEF NotifyOne
<1>4. ASSUME NEW p \in Producers, EnqueueReturn(p) PROVE TypeOK'
  BY <1>4 DEF EnqueueReturn
<1>5. ASSUME NEW c \in Consumers, DequeueLock(c) PROVE TypeOK'
  BY <1>5 DEF DequeueLock
<1>6. ASSUME NEW c \in Consumers, CheckEmpty(c) PROVE TypeOK'
  BY <1>6 DEF CheckEmpty
<1>7. ASSUME NEW c \in Consumers, Wait(c) PROVE TypeOK'
  BY <1>7 DEF Wait
<1>8. ASSUME NEW c \in Consumers, SpuriousWakeup(c) PROVE TypeOK'
  BY <1>8 DEF SpuriousWakeup
<1>9. ASSUME NEW c \in Consumers, Relock(c) PROVE TypeOK'
  BY <1>9 DEF Relock
<1>10. ASSUME NEW c \in Consumers, Front(c) PROVE TypeOK'
  BY <1>10 DEF Front
<1>11. ASSUME NEW c \in Consumers, Pop(c) PROVE TypeOK'
  BY <1>11 DEF Pop
<1>12. ASSUME NEW c \in Consumers, DequeueReturn(c) PROVE TypeOK'
  BY <1>12 DEF DequeueReturn
<1>13. CASE UNCHANGED vars
  BY <1>13 DEF vars
<1> QED
  BY <1>1, <1>2, <1>3, <1>4, <1>5, <1>6, <1>7, <1>8, <1>9, <1>10, <1>11, <1>12, <1>13
     DEF Next, EnqueueStep, DequeueStep

LEMMA QueueStep == TypeOK /\ QueueInv /\ [Next]_vars => QueueInv'
<1> SUFFICES ASSUME TypeOK, QueueInv, [Next]_vars PROVE QueueInv'
  OBVIOUS
<1> USE ThreadsAssumption
        DEF ThreadsAssumption, TypeOK, QueueInv, Locked, Threads, Goto, Lock, Unlock
<1>1. ASSUME NEW p \in Producers, EnqueueLock(p) PROVE QueueInv'
  BY <1>1 DEF EnqueueLock
<1>2. ASSUME NEW p \in Producers, Push(p) PROVE QueueInv'
  BY <1>2 DEF Push
<1>3. ASSUME NEW p \in Producers, NotifyOne(p) PROVE QueueInv'
  BY <1>3 DEF NotifyOne
<1>4. ASSUME NEW p \in Producers, EnqueueReturn(p) PROVE QueueInv'
  BY <1>4 DEF EnqueueReturn
<1>5. ASSUME NEW c \in Consumers, DequeueLock(c) PROVE QueueInv'
  BY <1>5 DEF DequeueLock
<1>6. ASSUME NEW c \in Consumers, CheckEmpty(c) PROVE QueueInv'
  BY <1>6 DEF CheckEmpty
<1>7. ASSUME NEW c \in Consumers, Wait(c) PROVE QueueInv'
  BY <1>7 DEF Wait
<1>8. ASSUME NEW c \in Consumers, SpuriousWakeup(c) PROVE QueueInv'
  BY <1>8 DEF SpuriousWakeup
<1>9. ASSUME NEW c \in Consumers, Relock(c) PROVE QueueInv'
  BY <1>9 DEF Relock
<1>10. ASSUME NEW c \in Consumers, Front(c) PROVE QueueInv'
  BY <1>10 DEF Front
<1>11. ASSUME NEW c \in Consumers, Pop(c) PROVE QueueInv'
  BY <1>11 DEF Pop
<1>12. ASSUME NEW c \in Consumers, DequeueReturn(c) PROVE QueueInv'
  BY <1>12 DEF DequeueReturn
<1>13. CASE UNCHANGED vars
  BY <1>13 DEF vars
<1> QED
  BY <1>1, <1>2, <1>3, <1>4, <1>5, <1>6, <1>7, <1>8, <1>9, <1>10, <1>11, <1>12, <1>13
     DEF Next, EnqueueStep, DequeueStep

-----------------------------------------------------------------------------
(* Counting the threads that look after the queue's values. *)

LEMMA AwakeFinite == IsFiniteSet(Awake) /\ Cardinality(Awake) \in Nat
  BY ThreadsAssumption, FS_Subset, FS_CardinalityType DEF ThreadsAssumption, Awake

(* The mutex lets one producer at most notify. *)
LEMMA NotifyingFinite ==
  ASSUME TypeOK PROVE IsFiniteSet(Notifying) /\ Cardinality(Notifying) \in Nat
<1>1. Notifying \in SUBSET {queue_lock}
  BY DEF TypeOK, Notifying, Locked, Threads
<1>2. IsFiniteSet({queue_lock})
  BY FS_Singleton
<1> QED BY <1>1, <1>2, FS_Subset, FS_CardinalityType

LEMMA WakeupStep == TypeOK /\ QueueInv /\ NoLostWakeup /\ [Next]_vars => NoLostWakeup'
<1> SUFFICES ASSUME TypeOK, QueueInv, NoLostWakeup, [Next]_vars, waiting' # {}
             PROVE  Len(safe_queue') <= Cardinality(Awake') + Cardinality(Notifying')
  BY DEF NoLostWakeup
<1>a. TypeOK'
  BY TypeStep
<1>b. /\ IsFiniteSet(Awake) /\ Cardinality(Awake) \in Nat
      /\ IsFiniteSet(Notifying) /\ Cardinality(Notifying) \in Nat
  BY AwakeFinite, NotifyingFinite
<1>c. Len(safe_queue) \in Nat /\ Len(safe_queue') \in Nat
  BY <1>a DEF TypeOK
<1>d. waiting # {} => Len(safe_queue) <= Cardinality(Awake) + Cardinality(Notifying)
  BY DEF NoLostWakeup
<1> USE ThreadsAssumption DEF ThreadsAssumption, Locked, Threads, Goto, Lock, Unlock
<1>1. ASSUME NEW p \in Producers, EnqueueLock(p) \/ EnqueueReturn(p)
      PROVE  Len(safe_queue') <= Cardinality(Awake') + Cardinality(Notifying')
  <2>1. Awake' = Awake /\ Notifying' = Notifying /\ UNCHANGED <<safe_queue, waiting>>
    BY <1>1 DEF EnqueueLock, EnqueueReturn, Awake, Notifying, TypeOK
  <2> QED BY <2>1, <1>d
<1>2. ASSUME NEW p \in Producers, Push(p)
      PROVE  Len(safe_queue') <= Cardinality(Awake') + Cardinality(Notifying')
  <2>1. Awake' = Awake /\ UNCHANGED waiting
    BY <1>2 DEF Push, Awake, TypeOK
  <2>2. Notifying' = Notifying \cup {p} /\ p \notin Notifying
    BY <1>2 DEF Push, Notifying, TypeOK
  <2>3. Len(safe_queue') = Len(safe_queue) + 1
    BY <1>2 DEF Push, TypeOK
  <2>4. Cardinality(Notifying') = Cardinality(Notifying) + 1
    BY <2>2, <1>b, FS_AddElement
  <2> QED BY <2>1, <2>3, <2>4, <1>b, <1>c, <1>d
<1>3. ASSUME NEW p \in Producers, NotifyOne(p)
      PROVE  Len(safe_queue') <= Cardinality(Awake') + Cardinality(Notifying')
  <2>1. waiting # {}
    BY <1>3 DEF NotifyOne
  <2>2. PICK c \in waiting : pc' = [pc EXCEPT ![p] = "enqueued", ![c] = "relock"]
    BY <1>3, <2>1 DEF NotifyOne
  <2>3. c \in Consumers /\ pc[c] = "blocked" /\ c # p
    BY DEF TypeOK
  <2>4. Awake' = Awake \cup {c} /\ c \notin Awake
    BY <2>2, <2>3 DEF Awake, TypeOK
  <2>5. Notifying' = Notifying \ {p} /\ p \in Notifying
    BY <1>3, <2>2, <2>3 DEF NotifyOne, Notifying, TypeOK
  <2>6. Cardinality(Awake') = Cardinality(Awake) + 1
    BY <2>4, <1>b, FS_AddElement
  <2>7. Cardinality(Notifying') = Cardinality(Notifying) - 1
    BY <2>5, <1>b, FS_RemoveElement
  <2>8. UNCHANGED safe_queue
    BY <1>3 DEF NotifyOne
  <2> QED BY <2>1, <2>6, <2>7, <2>8, <1>b, <1>c, <1>d
<1>4. ASSUME NEW c \in Consumers, DequeueLock(c) \/ SpuriousWakeup(c)
      PROVE  Len(safe_queue') <= Cardinality(Awake') + Cardinality(Notifying')
  <2>1. Awake' = Awake \cup {c} /\ c \notin Awake /\ Notifying' = Notifying
    BY <1>4 DEF DequeueLock, SpuriousWakeup, Awake, Notifying, TypeOK
  <2>2. Cardinality(Awake') = Cardinality(Awake) + 1
    BY <2>1, <1>b, FS_AddElement
  <2>3. waiting # {} /\ UNCHANGED safe_queue
    BY <1>4 DEF DequeueLock, SpuriousWakeup
  <2> QED BY <2>1, <2>2, <2>3, <1>b, <1>c, <1>d
<1>5. ASSUME NEW c \in Consumers, Relock(c) \/ Front(c)
      PROVE  Len(safe_queue') <= Cardinality(Awake') + Cardinality(Notifying')
  <2>1. Awake' = Awake /\ Notifying' = Notifying /\ UNCHANGED <<safe_queue, waiting>>
    BY <1>5 DEF Relock, Front, Awake, Notifying, TypeOK
  <2> QED BY <2>1, <1>d
<1>6. ASSUME NEW c \in Consumers, DequeueReturn(c)
      PROVE  Len(safe_queue') <= Cardinality(Awake') + Cardinality(Notifying')
  <2>1. Awake' = Awake /\ Notifying' = Notifying /\ UNCHANGED <<safe_queue, waiting>>
    BY <1>6 DEF DequeueReturn, Awake, Notifying, TypeOK
  <2> QED BY <2>1, <1>d
<1>7. ASSUME NEW c \in Consumers, CheckEmpty(c)
      PROVE  Len(safe_queue') <= Cardinality(Awake') + Cardinality(Notifying')
  <2>1. CASE safe_queue = <<>>
    <3>1. Len(safe_queue') = 0
      BY <1>7, <2>1 DEF CheckEmpty
    <3>2. Cardinality(Awake') \in Nat /\ Cardinality(Notifying') \in Nat
      <4>1. Awake' = Awake \ {c} /\ Notifying' = Notifying
        BY <1>7, <2>1 DEF CheckEmpty, Awake, Notifying, TypeOK
      <4> QED BY <4>1, <1>b, FS_RemoveElement, FS_CardinalityType
    <3> QED BY <3>1, <3>2
  <2>2. CASE safe_queue # <<>>
    <3>1. Awake' = Awake /\ Notifying' = Notifying /\ UNCHANGED <<safe_queue, waiting>>
      BY <1>7, <2>2 DEF CheckEmpty, Awake, Notifying, TypeOK
    <3> QED BY <3>1, <1>d
  <2> QED BY <2>1, <2>2
<1>8. ASSUME NEW c \in Consumers, Wait(c)
      PROVE  Len(safe_queue') <= Cardinality(Awake') + Cardinality(Notifying')
  <2>1. Len(safe_queue') = 0
    BY <1>8 DEF Wait, QueueInv
  <2>2. Awake' = Awake /\ Notifying' = Notifying
    BY <1>8 DEF Wait, Awake, Notifying, TypeOK
  <2> QED BY <2>1, <2>2, <1>b
<1>9. ASSUME NEW c \in Consumers, Pop(c)
      PROVE  Len(safe_queue') <= Cardinality(Awake') + Cardinality(Notifying')
  <2>1. Awake' = Awake \ {c} /\ c \in Awake /\ Notifying' = Notifying
    BY <1>9 DEF Pop, Awake, Notifying, TypeOK
  <2>2. Cardinality(Awake') = Cardinality(Awake) - 1
    BY <2>1, <1>b, FS_RemoveElement
  <2>3. Len(safe_queue') = Len(safe_queue) - 1 /\ UNCHANGED waiting
    BY <1>9 DEF Pop, QueueInv, TypeOK
  <2> QED BY <2>1, <2>2, <2>3, <1>b, <1>c, <1>d
<1>10. CASE UNCHANGED vars
  <2>1. Awake' = Awake /\ Notifying' = Notifying /\ UNCHANGED <<safe_queue, waiting>>
    BY <1>10 DEF vars, Awake, Notifying
  <2> QED BY <2>1, <1>d
<1> QED
  BY <1>1, <1>2, <1>3, <1>4, <1>5, <1>6, <1>7, <1>8, <1>9, <1>10
     DEF Next, EnqueueStep, DequeueStep

-----------------------------------------------------------------------------
LEMMA InvInit == Init => Inv
<1> SUFFICES ASSUME Init PROVE Inv
  OBVIOUS
<1>1. QueueInv
  BY ThreadsAssumption DEF ThreadsAssumption, Init, QueueInv, Threads
<1>2. NoLostWakeup
  BY DEF Init, NoLostWakeup
<1> QED BY <1>1, <1>2, TypeInit DEF Inv

LEMMA InvStep == Inv /\ [Next]_vars => Inv'
  BY TypeStep, QueueStep, WakeupStep DEF Inv

THEOREM Invariance == Spec => []Inv
  BY InvInit, InvStep, PTL DEF Spec

(* The mutex is held by the thread that is inside it, and every variable   *)
(* has its type, for any number of threads.                                *)
THEOREM TypeCorrect == Spec => []TypeOK
<1>1. Inv => TypeOK
  BY DEF Inv
<1> QED BY <1>1, Invariance, PTL

(* No wakeup is lost for any number of producers and consumers: while one  *)
(* of them is blocked, every value has a thread that looks after it.       *)
THEOREM WakeupsKept == Spec => []NoLostWakeup
<1>1. Inv => NoLostWakeup
  BY DEF Inv
<1> QED BY <1>1, Invariance, PTL

-----------------------------------------------------------------------------
(* Every step of the threads is a step of the abstract queue or none. *)

LEMMA StepRefines ==
  Inv /\ [Next]_vars =>
    [Abstract!Put \/ \E c \in Consumers : Abstract!Take(c)]_<<safe_queue, taken>>
<1> SUFFICES ASSUME Inv, [Next]_vars
             PROVE  \/ Abstract!Put
                    \/ \E c \in Consumers : Abstract!Take(c)
                    \/ UNCHANGED <<safe_queue, taken>>
  OBVIOUS
<1>1. ASSUME NEW p \in Producers, EnqueueLock(p) \/ NotifyOne(p) \/ EnqueueReturn(p)
      PROVE  UNCHANGED <<safe_queue, taken>>
  BY <1>1 DEF EnqueueLock, NotifyOne, EnqueueReturn
<1>2. ASSUME NEW p \in Producers, Push(p) PROVE Abstract!Put
  BY <1>2 DEF Push, Abstract!Put
<1>3. ASSUME NEW c \in Consumers,
             DequeueLock(c) \/ CheckEmpty(c) \/ Wait(c) \/ SpuriousWakeup(c)
               \/ Relock(c) \/ Front(c) \/ DequeueReturn(c)
      PROVE  UNCHANGED <<safe_queue, taken>>
  BY <1>3 DEF DequeueLock, CheckEmpty, Wait, SpuriousWakeup, Relock, Front, DequeueReturn
<1>4. ASSUME NEW c \in Consumers, Pop(c) PROVE Abstract!Take(c)
  <2>1. safe_queue # <<>> /\ val[c] = Head(safe_queue)
    BY <1>4 DEF Pop, Goto, Inv, QueueInv
  <2> QED BY <1>4, <2>1 DEF Pop, Abstract!Take
<1>5. CASE UNCHANGED vars
  BY <1>5 DEF vars
<1> QED
  BY <1>1, <1>2, <1>3, <1>4, <1>5 DEF Next, EnqueueStep, DequeueStep

(* SafeQueue implements the first-in-first-out queue of Fifo: its users    *)
(* may take enqueue and dequeue for single steps.                          *)
THEOREM RefinesFifo == Spec => ImplementsFifo
<1>1. Init => Abstract!Init
  BY DEF Init, Abstract!Init
<1> QED BY <1>1, StepRefines, Invariance, PTL DEF Spec, ImplementsFifo, Abstract!Spec
=============================================================================
