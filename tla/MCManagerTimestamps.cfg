SPECIFICATION FairSpec
CONSTANTS
    HyperperiodDuration = 100
    UintMod = 1048576
    Services = {1, 2, 3}
    Clients = {1, 2, 3}
    ConfiguredClients = {1, 2}
    SynchronousStart = FALSE
    ExperimentNumber = 1
    StartupMode <- MCStartupMode
    ReconfigurationOrder <- MCReconfigurationOrder
    ReconfigurationMap <- MCReconfigurationMap
    SlotOffset <- MCSlotOffset
    Iterations = 1
    IterationMod = 2
    ClientInitTime = 15000
    BeginOffset = 15000
    EndOffset = 15000
    DistributionPhase = 10000
    ReconfigOffset = 30
    StartOffset = 20
    GapMin = 10000
    GapMax = 10000
    NoService = Idle
    EpochStarts = {100350}
    Delays = {0}
    Requests = 3
    LateRegistration = TRUE
    MaxSweep = 3
    Idle = Idle
    FallbackAddress = FallbackAddress
    Loopback = FallbackAddress
INVARIANTS
    OnSchedule
PROPERTIES
    FirstRegistrationWins
    ExperimentEnds
\* The thread ends with the experiment.
CHECK_DEADLOCK FALSE
