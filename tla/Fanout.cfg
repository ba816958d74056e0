SPECIFICATION FairSpec
CONSTANTS
    t1 = t1
    t2 = t2
    t3 = t3
    h1 = h1
    NoOne = NoOne
    Target <- MCTarget
    Task <- MCTask
    Thread <- MCThread
    MaxAttempts = 2
    MaxFaults = 2
INVARIANTS FanTypeOK ConnectionsAccounted ShutdownComplete FanoutComplete
PROPERTIES EverythingEnds
CHECK_DEADLOCK FALSE
