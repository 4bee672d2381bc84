SPECIFICATION FairSpec

CONSTANTS
    None = None
    b6 = b6
    b8 = b8
    Instances = {i1, i2}
    Slots = {r1, r2}
    Bins <- OneBIN
    PrefixOf <- OneBINPrefix
    Datasets <- OneBINDatasets
    EnrichEnabled = TRUE
    HandyConfigured = FALSE
    FaultsAllowed = TRUE

PROPERTIES
    Answered
    Converges
