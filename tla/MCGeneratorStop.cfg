SPECIFICATION FairSpec
CONSTANTS
    SyncStart = TRUE
    Settings <- MCSettings
    ModeIds <- MCModeIds
    NoMode = NoModeYet
    NoMessage = NothingSent
    UninitStamps = {0, 2}
    AutoTermination = 2
    NotifyLag = 0
    MaxCalls = 2
    MaxTime = 3
    NoModeYet = NoModeYet
    NothingSent = NothingSent
PROPERTIES
    StopReturns
\* The thread may stay parked for good when no call comes.
CHECK_DEADLOCK FALSE
