SPECIFICATION ReadsSpec
CONSTANTS
    Keys = {a, b}
    Callers = {c1, c2}
    Nobody = Nobody
    Limit = 1
    MaxCalls = 3
SYMMETRY Symmetry
CHECK_DEADLOCK FALSE
INVARIANTS SessionsOnOpenVFS
