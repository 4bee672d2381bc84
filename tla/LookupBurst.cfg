SPECIFICATION Spec

CONSTANTS
    None = None
    b6 = b6
    b8 = b8
    Instances = {i1}
    Slots = {r1, r2, r3}
    Bins <- OneBIN
    PrefixOf <- OneBINPrefix
    Datasets <- OneBINDatasets
    EnrichEnabled = TRUE
    HandyConfigured = TRUE
    FaultsAllowed = TRUE

SYMMETRY SlotSymmetry
INVARIANTS
    TypeOK
    OneFlightPerBIN
    NobodyStranded
    NotFoundIsEarned
