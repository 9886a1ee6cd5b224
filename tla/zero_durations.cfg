CONSTANTS
    NbProcesses = 3
    CoreCount = 2
    QueueCount = 2
    Workloads <- ZeroWorkloads
    Configurations <- ZeroConfigurations
    SwitchInDuration = 0
    SwitchOutDuration = 0
    InterruptTime = 0
    MaxTime = 60
SPECIFICATION Spec
INVARIANTS
    NoUndefinedBehaviour
    OneOwner
    CpuTimeIsExact
PROPERTIES
    AllProcessesTerminate
    ImplementsProcessLife
