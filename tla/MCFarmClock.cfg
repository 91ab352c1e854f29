SPECIFICATION ClockSpec
CONSTANTS
    JobPriorities <- MCPriorities
    InsertStatuses <- MCStatuses
    Times <- MCTimes
    StartTime <- MCStartTime
    NumTasks = 2
    MaxJobs = 2
    UseBulkedTransactions = TRUE
    CommitInterval = 2
    IdlePeriod = 2
INVARIANTS
    ClockTypeOK
    OpenTransactionIsYoung
