SPECIFICATION Spec
CONSTANTS
    HyperperiodDuration = 100
    UintMod = 1048576
    Inbox <- MCPlain
    NoMessage = NoMessage
    SignalThreads = {"other"}
    ClockStart = 99600
    Ticks = {200}
    Horizon = 99600
    MaxStall = 400
    MaxMessages = 2
INVARIANTS
    NotifyTriggers
\* The main thread may stay blocked for good, and ends with an exit message.
CHECK_DEADLOCK FALSE
