SPECIFICATION Spec
CONSTANTS
    api1 = api1
    api2 = api2
    plain = plain
    keyed = keyed
    bad = bad
    large = large
    k1 = k1
    b1 = b1
    b2 = b2
    d1 = d1
    d2 = d2
    NoHeader = NoHeader
    Apis <- TwoApis
    Requests <- FourRequests
    TooLarge = {large}
    Invalid = {bad, large}
    Keys = {k1, d1, d2}
    Texts = {b1, b2}
    Digest <- MCDigest
    Header <- MCHeader
    Basis <- MCBasis
    e1 = e1
    e2 = e2
    e3 = e3
    NoCall = NoCall
    Events <- ThreeEvents
    MaxAttempts = 3
    MaxCrashes = 1
SYMMETRY Symmetry
INVARIANTS
    MessageLoadable
    AcceptedQueued
    RefusedLeavesNothing
PROPERTIES
    ImplementsArchiveFirst
CHECK_DEADLOCK FALSE
