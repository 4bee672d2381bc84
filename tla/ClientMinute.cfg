SPECIFICATION Spec
CONSTANTS
    Callers = {c1, c2}
    Burst = 2
    Refill = 2
    OpenTicks = 3
    HandyRules = TRUE
    Window = 14
SYMMETRY CallerSymmetry
INVARIANT MinuteCap
