SPECIFICATION Spec
CONSTANTS
    r1 = r1
    r2 = r2
    r3 = r3
    c1 = c1
    c2 = c2
    None = None
    Request <- MCRequest
    Cmd <- MCCmd
    Expect <- MCExpect
    Impatient <- OneRequest
    Refused <- NoRequest
    Cancellable <- NoRequest
INVARIANT EveryReplyOwn
CHECK_DEADLOCK FALSE
