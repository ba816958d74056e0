SPECIFICATION FairSpec
CONSTANTS
    MaxAttempts = 3
    MaxChunks = 2
CHECK_DEADLOCK FALSE
INVARIANTS
    TypeOK
    OneRunSeen
    AnswerKept
PROPERTY CallEnds
