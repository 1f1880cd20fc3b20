SPECIFICATION System
CONSTANTS
    HyperperiodDuration = 100
    UintMod = 1048576
    Services = {1, 2}
    Clients = {1, 2}
    ConfiguredClients = {1, 2}
    SynchronousStart = TRUE
    ExperimentNumber = 4
    StartupMode <- MCStartupMode
    ReconfigurationOrder <- MCReconfigurationOrder
    ReconfigurationMap <- MCReconfigurationMap
    SlotOffset <- MCSlotOffset
    Iterations = 1
    IterationMod = 4
    ClientInitTime = 1000
    BeginOffset = 2000
    EndOffset = 1000
    DistributionPhase = 2000
    ReconfigOffset = 30
    StartOffset = 0
    GapMin = 2000
    GapMax = 2000
    NoService = Unlisted
    EpochStarts = {100950}
    Delays = {0}
    Requests = 2
    LateRegistration = FALSE
    MaxSweep = 2
    Unlisted = Unlisted
    FallbackAddress = FallbackAddress
    Loopback = FallbackAddress
    Switches = {}
    ServiceOf <- MCServiceOf
    RM = RM
    Nodes <- MCNodes
    RMId = 99
    MaxLength = 1472
    Garbage = Garbage
    NoMessage = NoMessage
    NoEffect = NoEffect
    MaxStall = 10
    MaxFaults = 1
    MaxUnderway = 1
    Afterwards = 500
INVARIANTS
    SystemTypeOK
    HandledAsSent
    RoundObeyed
    SlotsKept
PROPERTIES
    NeverBackwards
\* The system ends with the experiment.
CHECK_DEADLOCK FALSE
