SPECIFICATION Spec
CONSTANTS
    Callers = {c1, c2, c3}
    Limit = 2
    LastMonth = 2
SYMMETRY CallerSymmetry
INVARIANTS
    TypeOK
    ReservedBeforeSent
    OvershootBounded
