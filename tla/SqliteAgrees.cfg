SPECIFICATION SqlSpec
CONSTANTS
    Thread = {t1, t2}
    Ns = {n0}
    DefaultNs = n0
    Cid = {c1, c2}
    Task = {a, b}
    Val = {v1, v2}
    None = None
    MaxSeq = 3
    MaxWseq = 2
    Limit = {None, 1, 2}
CHECK_DEADLOCK FALSE
INVARIANTS
    GetAgrees
    ListAgrees
PROPERTY RefinesMemory
