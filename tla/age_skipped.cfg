CONSTANTS
    NbProcesses = 4
    CoreCount = 2
    QueueCount = 2
    Workloads <- AgeWorkloads
    Configurations <- AgeConfigurations
    SwitchInDuration = 1
    SwitchOutDuration = 2
    InterruptTime = 1
    MaxTime = 200
SPECIFICATION Spec
INVARIANTS
    WaitingWithinAge
