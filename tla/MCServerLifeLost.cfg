SPECIFICATION FairLifeSpec
CONSTANTS
    JobPriorities <- MCPriorities
    InsertStatuses <- MCStatuses
    Times <- MCTimes
    NumTasks = 2
    MaxJobs = 1
    UseBulkedTransactions = TRUE
    CommitInterval = 2
    SignalsAt <- MCBeforeRun
    MaxSignals = 1
PROPERTIES
    StopIsNotLost
