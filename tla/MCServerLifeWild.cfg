SPECIFICATION LifeSpec
CONSTANTS
    JobPriorities <- MCPriorities
    InsertStatuses <- MCStatuses
    Times <- MCTimes
    NumTasks = 2
    MaxJobs = 1
    UseBulkedTransactions = TRUE
    CommitInterval = 2
    SignalsAt <- Places
    MaxSignals = 1
INVARIANTS
    NoWildCall
