SPECIFICATION FairSpec
CONSTANTS
    k1 = k1
    k2 = k2
    k3 = k3
    p1 = p1
    h1 = h1
    h2 = h2
    Call <- MCCall
    Caller <- MCCaller
    Handler <- TwoHandlers
    CallerOf <- MCCallerOf
    NodeOf <- OtherNode
    RatePerCaller = 0
    MaxConcurrent = 1
    Streaming <- MCHandler
    Timed <- MCHandler
    MaxChunks = 0
    MaxGen = 1
CHECK_DEADLOCK FALSE
PROPERTIES
    StopTerminates
    
