SPECIFICATION Spec
CONSTANTS
    JobPriorities <- MCPriorities
    InsertStatuses <- MCStatuses
    Times <- MCTimes
    NumTasks = 2
    MaxJobs = 1
    UseBulkedTransactions = FALSE
    CommitInterval = 2
INVARIANTS
    NothingStranded
