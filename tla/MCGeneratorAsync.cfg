SPECIFICATION Spec
CONSTANTS
    SyncStart = FALSE
    Settings <- MCSettings
    ModeIds <- MCModeIds
    NoMode = NoModeYet
    NoMessage = NothingSent
    UninitStamps = {0, 2}
    AutoTermination = 2
    NotifyLag = 0
    MaxCalls = 3
    MaxTime = 2
    NoModeYet = NoModeYet
    NothingSent = NothingSent
INVARIANTS
    TypeOK
    PauseIsPrompt
    NoNewObjects
    OldModeLingers
PROPERTIES
    FragmentsInOrder
\* The thread may stay parked for good when no call comes.
CHECK_DEADLOCK FALSE
