SPECIFICATION Spec
CONSTANTS
    Callers = {c1, c2}
    Limit = 2
    LastMonth = 1
SYMMETRY CallerSymmetry
INVARIANT MonthlyCap
