SPECIFICATION FairSpec
CONSTANTS
    HyperperiodDuration = 100
    UintMod = 1048576
    Inbox <- MCInbox
    NoMessage = NoMessage
    SignalThreads = {"other"}
    ClockStart = 99600
    Ticks = {200}
    Horizon = 101800
    MaxStall = 400
    MaxMessages = 2
INVARIANTS
    TypeOK
    SwitchedInTime
PROPERTIES
    ExitObeyed
    ImplementsTimedClient
\* The main thread may stay blocked for good, and ends with an exit message.
CHECK_DEADLOCK FALSE
