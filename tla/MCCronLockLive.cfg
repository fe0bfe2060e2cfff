CONSTANTS
    Client = {c1, c2}
    Serial = {n1, n2}
    Ttl = 7
    RenewEvery = 2
    CallTimeout = 1
    LateBudget = 0
    FlipBudget = 0
    FaultBudget = 1
SPECIFICATION FairSpec
PROPERTIES ImplementsLease Available
