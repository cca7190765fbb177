CONSTANTS
    MaxDepth = 2
    MaxIterations = 2
    MaxConcurrent = 2
    MaxCalls = 3
    MaxTokens = 3
    HasDeadline = TRUE
    MaxBatch = 2
    ResponseTokens <- MCResponseTokens
    PoolSize = 6
SPECIFICATION FairSpec
INVARIANTS TypeOK NothingLeftBelow SuccessWithinLimits
PROPERTIES ImplementsContract RunEnds BudgetReachesRoot
CHECK_DEADLOCK FALSE
