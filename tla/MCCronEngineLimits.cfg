CONSTANTS
    Server = {s1}
    Job <- ThreeJobs
    Company <- TwoCompanies
    CompanyOf <- ThreeCompanyOf
    Priority <- ThreePriority
    Period <- ThreePeriod
    Policy <- ThreePolicy
    MaxRetries <- ThreeRetries
    RetryDelay <- ThreeOnes
    Timeout <- ThreeOnes
    MaxConcurrentGlobal = 2
    MaxConcurrentPerCompany = 1
    BatchSize = 2
    CatchUpMax = 3
    SelfHealInterval = 9
    StuckGrace = 1
    MaxTime = 1
    LastStart = 1
    MaxExecs = 1
    FaultBudget = 0
    LapseBudget = 0
    UserBudget = 2
    TroubleBudget = 2
    UserOps = {"pause", "resume", "run", "schedule", "timeout"}
    Legacy = {1}
    ClosingTime = 0
SPECIFICATION Spec
INVARIANTS CapacityBound
PROPERTY NoClaimWhilePaused
