SPECIFICATION Spec
CONSTANTS
    JobPriorities <- MCPriorities
    NumTasks = 1
    RestoredJobs = 3
    NumDummyJobs = 2
    MaxJobs = 3
INVARIANTS
    DispatchedByPriority
CHECK_DEADLOCK FALSE
