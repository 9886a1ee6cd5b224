CONSTANTS
    NbProcesses = 5
    CoreCount = 2
    QueueCount = 2
    Workloads <- AnyWorkloads
    Configurations <- AnyConfigurations
    SwitchInDuration = 1
    SwitchOutDuration = 2
    InterruptTime = 1
    MaxTime = 25
SPECIFICATION Spec
INVARIANTS
    TypeOK
    InterruptHoldsDisk
    RunningOnOccupiedCore
    NoIdleResource
