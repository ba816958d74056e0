SPECIFICATION Spec
CONSTANTS
    r1 = r1
    r2 = r2
    r3 = r3
    c1 = c1
    c2 = c2
    None = None
    Request <- MCRequest
    Cmd <- MCCmd
    Expect <- MCExpect
    Impatient <- OtherRequest
    Refused <- NoRequest
    Cancellable <- MCRequest
INVARIANTS
    OwnReply
    NoOrphan
CHECK_DEADLOCK FALSE
