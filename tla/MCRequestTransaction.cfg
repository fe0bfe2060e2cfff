CONSTANTS
    Request = {r1, r2}
    File = {f1, f2}
    MaxAttempts = 3
    FaultBudget = 4
SPECIFICATION FairSpec
INVARIANTS TypeOK TasksFollowCommit ReplyTruthful FilesFollowMedia
PROPERTY Answered
CHECK_DEADLOCK FALSE
