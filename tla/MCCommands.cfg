SPECIFICATION Spec
CONSTANTS
    r1 = r1
    r2 = r2
    r3 = r3
    None = None
    Request <- MCRequest
SYMMETRY Symmetric
INVARIANTS
    OwnAnswer
    CanBeWoken
CHECK_DEADLOCK FALSE
