SPECIFICATION FairSpec
CONSTANTS
    None = None
    Keys = {k1, k2, k3}
    Values = {v1, v2}
    TTL = 1
    MaxEntries = 2
    Closers = {p1, p2}
INVARIANTS
    TypeOK
    Bounded
PROPERTIES
    EvictsOldestLast
    ImplementsLossyCache
    Swept
    CloseReturns
