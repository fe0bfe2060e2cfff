CONSTANTS
    Server = {s1}
    Job <- OneJob
    Company <- OneCompany
    CompanyOf <- OneCompanyOf
    Priority <- OnePriority
    Period <- OnePeriod
    Policy <- CatchUpPolicy
    MaxRetries <- OneRetry
    RetryDelay <- RetryDelayOne
    Timeout <- TimeoutOne
    MaxConcurrentGlobal = 2
    MaxConcurrentPerCompany = 1
    BatchSize = 2
    CatchUpMax = 3
    SelfHealInterval = 2
    StuckGrace = 1
    MaxTime = 7
    LastStart = 2
    MaxExecs = 2
    FaultBudget = 2
    LapseBudget = 0
    UserBudget = 0
    TroubleBudget = 2
    UserOps = {}
    Legacy = {}
    ClosingTime = 1
SPECIFICATION FairSpec
PROPERTIES RunsEnd ClosesOnce
