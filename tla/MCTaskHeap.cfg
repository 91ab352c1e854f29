SPECIFICATION Spec
CONSTANTS
    JobPriorities <- MCPriorities
    NumTasks = 2
    RestoredJobs = 4
    NumDummyJobs = 3
    MaxJobs = 5
INVARIANTS
    TypeOK
    EqualPrioritiesByIds
PROPERTIES
    PoolSpec
CHECK_DEADLOCK FALSE
