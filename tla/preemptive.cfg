CONSTANTS
    NbProcesses = 3
    CoreCount = 1
    QueueCount = 2
    Workloads <- PreemptiveWorkloads
    Configurations <- PreemptiveConfigurations
    SwitchInDuration = 1
    SwitchOutDuration = 2
    InterruptTime = 1
    MaxTime = 40
SPECIFICATION Spec
INVARIANTS
    OneOwner
    QueuesAreOrdered
