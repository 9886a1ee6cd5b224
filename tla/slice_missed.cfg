CONSTANTS
    NbProcesses = 2
    CoreCount = 1
    QueueCount = 2
    Workloads <- SliceWorkloads
    Configurations <- SliceConfigurations
    SwitchInDuration = 1
    SwitchOutDuration = 2
    InterruptTime = 1
    MaxTime = 200
SPECIFICATION Spec
INVARIANTS
    UsedUpSlicePreempts
