SPECIFICATION FairSpec
CONSTANTS
    Write = Write
    Thread = {t1, t2}
    Ns = {n0}
    DefaultNs = n0
    TheThread = t1
    TheNs = n0
    Cid = {1, 2}
    Task = {a}
    Blob = Blob
    None = None
    Val <- MCVal
    TaskWrites <- MCTaskWrites
    MaxTries = 2
    Late = TRUE
    Durable = TRUE
CHECK_DEADLOCK FALSE
INVARIANTS
    OrderExact
    
    WritesOnce
    LatestUnlessRetried
PROPERTY OperationsEnd
