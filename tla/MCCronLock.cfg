CONSTANTS
    Client = {c1, c2}
    Serial = {n1, n2}
    Ttl = 7
    RenewEvery = 2
    CallTimeout = 1
    LateBudget = 1
    FlipBudget = 1
    FaultBudget = 1
SPECIFICATION Spec
SYMMETRY ClientSymmetry
INVARIANT SafelyHeld
PROPERTY NeverTaken
