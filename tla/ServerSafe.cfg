SPECIFICATION Spec
CONSTANTS
    k1 = k1
    k2 = k2
    k3 = k3
    p1 = p1
    h1 = h1
    h2 = h2
    Call <- MCCall
    Caller <- MCCaller
    Handler <- MCHandler
    CallerOf <- MCCallerOf
    NodeOf <- MCNodeOf
    RatePerCaller = 2
    MaxConcurrent = 1
    Streaming <- MCHandler
    Timed <- MCHandler
    MaxChunks = 1
    MaxGen = 2
CHECK_DEADLOCK FALSE
SYMMETRY CallSymmetry
INVARIANTS
    ConcurrencyCap
    CountersMatchReplies
    FrameOrder
PROPERTY
    DrainLosesNothing
