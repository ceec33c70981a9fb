SPECIFICATION Spec
CONSTANTS
    Clients = {c1, c2}
    NoToken = NoToken
    Duration = 2
    Skew = 1
    MaxSpread = 2
    MaxTime = 6
    MaxMint = 3
    AcquireHorizon = 7
SYMMETRY Symmetry
INVARIANTS TypeOK MutualExclusion FreshIsCurrent
PROPERTIES FencedWrites ImplementsLeaseSpec
