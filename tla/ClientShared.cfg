SPECIFICATION FairSpec
CONSTANTS
    Callers = {c1, c2, c3, c4}
    Burst = 2
    Refill = 2
    OpenTicks = 3
    HandyRules = TRUE
    Window = 5
INVARIANTS
    TypeOK
    RateBounded
    OpensOnStreak
PROPERTY Recovers
