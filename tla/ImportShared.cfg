SPECIFICATION FairSpec
CONSTANTS
    None = None
    BadRow = BadRow
    b6 = b6
    b8 = b8
    c6 = c6
    Bins <- MCBins
    PrefixOf <- MCPrefixOf
    Importers = {p1, p2}
    Requests = {r1}
    Files <- AllFiles
    BatchSize = 2
INVARIANTS
    TypeOK
    LocalMirrorsDataset
PROPERTIES
    EnrichmentSurvives
    ImplementsRefresh
    RunsEnd
\* Every run may have ended and every BIN may have a row.
CHECK_DEADLOCK FALSE
