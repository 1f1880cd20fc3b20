------------------------------ MODULE Timespec ------------------------------
(***************************************************************************)
(* The timestamp arithmetic of the resource manager (net_layer_rm.tpp).  A *)
(* struct timespec is a pair of whole seconds and a rest; the rest is kept *)
(* in milliseconds, the resolution of every duration the manager adds, and *)
(* of the clock as the hyperperiod count reads it.  The rest may exceed a  *)
(* second: the code that advances the hyperperiod reference never carries. *)
(***************************************************************************)
EXTENDS Integers

CONSTANTS
    HyperperiodDuration,    \* hyperperiod_duration, milliseconds
    UintMod                 \* 2^32 in the code: uint32_t wraps here

ASSUME TimespecAssumption ==
    /\ HyperperiodDuration \in Nat \ {0}
    /\ UintMod \in Nat \ {0}

(* struct timespec, and the milliseconds it stands for. *)
Timespecs == [sec : Int, ms : Int]
Total(t) == 1000 * t.sec + t.ms
Zero == [sec |-> 0, ms |-> 0]

(* The clock's reading at a time in milliseconds. *)
ClockGettime(time) == [sec |-> time \div 1000, ms |-> time % 1000]

(* prepare_timestamp_add with the rest of the timestamp added, as its name *)
(* promises.                                                               *)
PrepareTimestampAddExact(t, delay) == ClockGettime(Total(t) + delay)

(* prepare_timestamp_add: only the seconds of the timestamp are added to,  *)
(* its rest is replaced by the rest of the delay.                          *)
PrepareTimestampAdd(t, delay) ==
    [sec |-> t.sec + delay \div 1000, ms |-> delay % 1000]

(* prepare_timestamp_sub, clamped at the epoch. *)
PrepareTimestampSub(t, delay) ==
    ClockGettime(IF Total(t) < delay THEN 0 ELSE Total(t) - delay)

(* The borrow taken from the seconds and not given to the rest. *)
SubtractTimespecShort(end, start) ==
    [sec |-> IF end.ms < start.ms THEN end.sec - start.sec - 1 ELSE end.sec - start.sec,
     ms |-> end.ms - start.ms]

(* subtract_timespec: one borrow, whatever the rests are. *)
SubtractTimespec(end, start) ==
    IF end.ms < start.ms
    THEN [sec |-> end.sec - start.sec - 1, ms |-> end.ms - start.ms + 1000]
    ELSE [sec |-> end.sec - start.sec, ms |-> end.ms - start.ms]

(* get_round_timestamp: the next whole second of a clock reading. *)
GetRoundTimestamp(t) ==
    IF t.ms > 0 THEN [sec |-> t.sec + 1, ms |-> 0] ELSE t

(* Integer division as C++ does it, towards zero. *)
DivideTowardsZero(a, b) == IF a < 0 THEN -((-a) \div b) ELSE a \div b

(* A count that forgets the distribution phase. *)
NumberHyperperiodsPast(now, last, distribution) ==
    (DivideTowardsZero(Total(SubtractTimespec(now, last)), HyperperiodDuration) + 1) % UintMod

(* The hyperperiods to go from the reference last at the time now: one *)
(* more than have passed and one more than the distribution phase lasts.   *)
NumberHyperperiods(now, last, distribution) ==
    LET past == DivideTowardsZero(Total(SubtractTimespec(now, last)), HyperperiodDuration) + 1
        distribute == distribution \div HyperperiodDuration + 1
    IN  ((past % UintMod) + distribute) % UintMod

(* The next target hyperperiod: that many times 100 ms, a literal in the   *)
(* code, added to the reference without a carry.                           *)
TargetHyperperiod(now, last, distribution) ==
    LET advance == (NumberHyperperiods(now, last, distribution) * 100) % UintMod
    IN  [sec |-> last.sec + advance \div 1000, ms |-> last.ms + (advance % 1000)]
=============================================================================
