CONSTANTS
    NbProcesses = 4
    CoreCount = 2
    QueueCount = 2
    Workloads <- MultilevelWorkloads
    Configurations <- MultilevelConfigurations
    SwitchInDuration = 1
    SwitchOutDuration = 2
    InterruptTime = 1
    MaxTime = 80
    MaxProcesses = 3
    MaxTimeSlots = 10000
SPECIFICATION GraphSpec
INVARIANTS
    NoUndefinedBehaviour
    OneOwner
    CpuTimeIsExact
    NeverPastEvent
    SliceNotExceeded
    ExecutionWithinLimit
    TurnaroundCoversAll
    GraphAgreesWithStats
    OneProcessPerCore
    DiskRowShowsIO
PROPERTIES
    SliceEndsServeSomebody
    InterruptIsTransparent
    TerminationIsFinal
    AllProcessesTerminate
    ImplementsProcessLife
