SPECIFICATION CompactionSpec
CONSTANTS
    Clients = {w1, p1, p2}
    Writers = {w1}
    Compactors = {p1, p2}
    NoOwner = NoOwner
    Nobody = Nobody
    Keys = {k1, k2, k3, k4}
    TopLevel = 2
    Threshold = 1
    MaxTx = 4
    LatePut = FALSE
    WithGC = TRUE
    MaxCalls = 4
    MaxPasses = 2
    MaxFaults = 0
SYMMETRY Symmetry
CHECK_DEADLOCK FALSE
INVARIANTS AckedDurable ManifestReadable 
PROPERTIES DeletesSpareReads
