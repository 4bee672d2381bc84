SPECIFICATION Spec
CONSTANTS
    None = None
    BadRow = BadRow
    b6 = b6
    b8 = b8
    c6 = c6
    Bins <- MCBins
    PrefixOf <- MCPrefixOf
    Importers = {p1}
    Requests = {r1}
    Files <- GoodFiles
    BatchSize = 2
INVARIANT FailedMeansRolledBack
\* Every run may have ended and every BIN may have a row.
CHECK_DEADLOCK FALSE
