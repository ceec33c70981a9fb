SPECIFICATION LiveSpec
CONSTANTS
    Clients = {c1, c2}
    NoToken = NoToken
    Duration = 2
    Skew = 1
    MaxSpread = 2
    MaxTime = 8
    MaxMint = 3
    AcquireHorizon = 1
INVARIANTS HoldBounded
PROPERTIES HeldEventuallyTakeable
