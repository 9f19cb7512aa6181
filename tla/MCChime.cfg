SPECIFICATION FairChimeSpec
CONSTANTS
    r1 = r1
    r2 = r2
    r3 = r3
    Gone = Gone
    DeltasMax = 2
    Request <- MCRequest
INVARIANTS
    FlipsAsAsked
PROPERTIES
    DoneIsAsked
    RequestsEnd
