CONSTANTS
    Server = {s1, s2}
    Job <- OneJob
    Company <- OneCompany
    CompanyOf <- OneCompanyOf
    Priority <- OnePriority
    Period <- OnePeriod
    Policy <- CatchUpPolicy
    MaxRetries <- OneRetry
    RetryDelay <- RetryDelayOne
    Timeout <- TimeoutOne
    MaxConcurrentGlobal = 2
    MaxConcurrentPerCompany = 1
    BatchSize = 2
    CatchUpMax = 3
    SelfHealInterval = 9
    StuckGrace = 1
    MaxTime = 4
    LastStart = 4
    MaxExecs = 3
    FaultBudget = 1
    LapseBudget = 1
    UserBudget = 0
    TroubleBudget = 1
    UserOps = {}
    Legacy = {}
    ClosingTime = 0
SPECIFICATION Spec
SYMMETRY ServerSymmetry
INVARIANTS WellFormed LockFollowsRun OccurrenceClaimedOnce NoneForgotten

