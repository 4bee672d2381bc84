SPECIFICATION Spec

CONSTANTS
    None = None
    b6 = b6
    b8 = b8
    Instances = {i1}
    Slots = {r1, r2}
    Bins <- TwoBINs
    PrefixOf <- TwoBINsPrefix
    Datasets <- TwoBINsDatasets
    EnrichEnabled = TRUE
    HandyConfigured = FALSE
    FaultsAllowed = TRUE

SYMMETRY SlotSymmetry
INVARIANTS
    PersistedBeforeAnswered
    AnswersRequestedBIN
PROPERTY ImplementsContract
