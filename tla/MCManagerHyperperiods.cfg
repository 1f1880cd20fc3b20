SPECIFICATION Spec
CONSTANTS
    HyperperiodDuration = 100
    UintMod = 1048576
    Services = {1, 2, 3}
    Clients = {1, 2, 3}
    ConfiguredClients = {1, 2}
    SynchronousStart = TRUE
    ExperimentNumber = 2
    StartupMode <- MCStartupMode
    ReconfigurationOrder <- MCReconfigurationOrder
    ReconfigurationMap <- MCReconfigurationMap
    SlotOffset <- MCSlotOffset
    Iterations = 2
    IterationMod = 4
    ClientInitTime = 15000
    BeginOffset = 15000
    EndOffset = 15000
    DistributionPhase = 10000
    ReconfigOffset = 30
    StartOffset = 0
    GapMin = 10000
    GapMax = 12000
    NoService = Idle
    EpochStarts = {100000, 100350}
    Delays = {0, 45}
    Requests = 3
    LateRegistration = FALSE
    MaxSweep = 4
    Idle = Idle
    FallbackAddress = FallbackAddress
    Loopback = FallbackAddress
INVARIANTS
    TypeOK
    SweepComplete
    SharedHyperperiod
    OnGrid
    ReferenceAhead
    StampsAhead
\* The thread ends with the experiment.
CHECK_DEADLOCK FALSE
