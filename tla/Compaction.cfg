SPECIFICATION CompactionSpec
CONSTANTS
    Clients = {w1, w2, p1}
    Writers = {w1, w2}
    Compactors = {p1}
    NoOwner = NoOwner
    Nobody = Nobody
    Keys = {k1, k2, k3}
    TopLevel = 1
    Threshold = 1
    MaxTx = 3
    LatePut = FALSE
    WithGC = FALSE
    MaxCalls = 3
    MaxPasses = 1
    MaxFaults = 1
SYMMETRY Symmetry
CHECK_DEADLOCK FALSE
INVARIANTS CompactionTypeOK AckedVisible ManifestReadable FilesAgree
PROPERTIES ImplementsWriteSpec
