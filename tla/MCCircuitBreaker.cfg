CONSTANTS
    Call = {c1, c2, c3, c4}
    FailureThreshold = 3
    FailureWindow = 2
    ResetTimeout = 2
    SuccessThreshold = 2
    FailureBudget = 7
SPECIFICATION FairSpec
INVARIANTS TypeOK OneTrialAtATime
PROPERTIES OpensOnlyOnBurst Recovers
