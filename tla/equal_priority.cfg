CONSTANTS
    NbProcesses = 2
    CoreCount = 1
    QueueCount = 1
    Workloads <- EqualPriorityWorkloads
    Configurations <- PriorityConfigurations
    SwitchInDuration = 1
    SwitchOutDuration = 2
    InterruptTime = 1
    MaxTime = 200
SPECIFICATION Spec
PROPERTIES
    PreemptedByHigherPriority
