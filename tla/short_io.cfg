CONSTANTS
    NbProcesses = 1
    CoreCount = 1
    QueueCount = 1
    Workloads <- ShortIOWorkloads
    Configurations <- FCFSConfigurations
    SwitchInDuration = 1
    SwitchOutDuration = 2
    InterruptTime = 1
    MaxTime = 200
SPECIFICATION Spec
INVARIANTS
    NoUndefinedBehaviour
