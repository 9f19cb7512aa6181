SPECIFICATION Spec
CONSTANTS
    i1 = i1
    i2 = i2
    i3 = i3
    light = light
    lock = lock
    t1 = t1
    t2 = t2
    t3 = t3
    None = None
    CALLS_MAX = 2
    ANSWERED_MAX = 2
    Id <- MCId
    Entity <- MCEntity
    TaskRef <- MCTaskRef
SYMMETRY Symmetric
INVARIANTS
    AtMostOnce
    AnswersAgree
    WorkIsTracked
PROPERTY
    NoCallForgotten
