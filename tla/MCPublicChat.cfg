CONSTANTS
    Tab = {t1, t2}
    Agent = {a1, a2}
    Responder = {r1}
    Sweeper = {w1}
    NoAgent = NoAgent
    MaxRequests = 4
    FaultBudget = 1
SPECIFICATION FairSpec
CHECK_DEADLOCK FALSE
INVARIANTS Assigned PollCarriesClosingLine
PROPERTY EscalationAnnounced
