SPECIFICATION FairLifeSpec
CONSTANTS
    JobPriorities <- MCPriorities
    InsertStatuses <- MCStatuses
    Times <- MCTimes
    NumTasks = 2
    MaxJobs = 1
    UseBulkedTransactions = TRUE
    CommitInterval = 2
    SignalsAt <- Places
    MaxSignals = 2
INVARIANTS
    LifeTypeOK
    OrderlyEndLosesNothing
    NoSocketWithoutLoop
    WildOnlyWithoutServer
PROPERTIES
    StopIsObeyed
