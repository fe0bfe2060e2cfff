CONSTANTS
    e1 = e1
    c1 = c1
    Event = {e1, e2}
    Consumer = {c1, c2}
    Replayer = {1, 2}
    None = None
    MaxSends = 2
    MaxTries = 2
    BatchSize = 2
    FirstCommit = 0
    MaxLog = 4
    Budgets <- MCBudgets
SPECIFICATION FairSpec
CHECK_DEADLOCK FALSE
INVARIANT Accounted
PROPERTIES ReplayEnds Promised
