SPECIFICATION Spec
CONSTANTS
    Caller = {p1, p2}
    Limit = 2
    Window = 2
    MaxNow = 6
CHECK_DEADLOCK FALSE
SYMMETRY CallerSymmetry
INVARIANTS
    WindowCap
    NoFalseDenial
