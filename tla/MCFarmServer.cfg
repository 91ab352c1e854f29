SPECIFICATION CalmSpec
CONSTANTS
    JobPriorities <- MCPriorities
    InsertStatuses <- MCStatuses
    Times <- MCTimes
    NumTasks = 2
    MaxJobs = 1
    UseBulkedTransactions = TRUE
    CommitInterval = 2
    Workers = {w1, w2}
    Readers = {r1}
    MaxFaults = 1
INVARIANTS
    ServerTypeOK
    ReceivedOnce
    LossIsBounded
    AllDoneIsTrue
    ShownJobsStay
PROPERTIES
    WorkersEnd
    DispatchesAreCommitted
