SPECIFICATION ReadsSpec
CONSTANTS
    Keys = {a, b}
    Callers = {c1, c2}
    Nobody = Nobody
    Limit = 1
    MaxCalls = 3
CHECK_DEADLOCK FALSE
INVARIANTS ReadsTypeOK RefsExact NothingLeaks ShutdownClean
PROPERTIES CallsReturn
