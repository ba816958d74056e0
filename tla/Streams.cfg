SPECIFICATION FairSpec
CONSTANTS
    Dialer = {d1}
    ConnId = {c1}
    MaxFrames = 2
    MaxSock = 3
    NoConn = NoConn
CHECK_DEADLOCK FALSE
INVARIANTS
    TypeOK
    StreamIntact
    EofMeansComplete
PROPERTIES
    RemoteCloseSeen
    CloseWakesReaders
