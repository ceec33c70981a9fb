SPECIFICATION WriterLive
CONSTANTS
    Clients = {w1, w2}
    Writers = {w1, w2}
    NoOwner = NoOwner
    Keys = {k1, k2}
    TopLevel = 0
    Threshold = 1
    MaxTx = 3
    LatePut = TRUE
    MaxCalls = 3
    MaxFaults = 2
CHECK_DEADLOCK FALSE
INVARIANTS WriterTypeOK AtMostOnce BaseIsTail
PROPERTIES  ImplementsWriteSpec CallsEnd
