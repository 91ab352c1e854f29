SPECIFICATION Spec
CONSTANTS
    JobPriorities <- MCPriorities
    InsertStatuses <- MCStatuses
    Times <- MCTimes
    NumTasks = 2
    MaxJobs = 3
    UseBulkedTransactions = TRUE
    CommitInterval = 2
INVARIANTS
    TypeOK
    NoFatal
    MemoryMatchesDatabase
    RestartKeepsQueue
    HandedOnce
    HandedIsDurable
    WholeJobsOnDisk
    StatusesAgreeOnDisk
    NothingStranded
PROPERTIES
    LedgerSpec
