SPECIFICATION CompactionSpec
CONSTANTS
    Clients = {w1, p1}
    Writers = {w1}
    Compactors = {p1}
    NoOwner = NoOwner
    Nobody = Nobody
    Keys = {k1, k2, k3}
    TopLevel = 1
    Threshold = 1
    MaxTx = 3
    LatePut = FALSE
    WithGC = TRUE
    MaxCalls = 3
    MaxPasses = 1
    MaxFaults = 1
SYMMETRY Symmetry
CHECK_DEADLOCK FALSE
INVARIANTS AckedDurable
