SPECIFICATION FairSpec
CONSTANTS
    s1 = s1
    s2 = s2
    s3 = s3
    Nobody = Nobody
    SEND_QUEUE_MAX = 2
    AbandonMax = 2
    Caller <- MCCaller
    Cancellable <- MCCancellable
INVARIANTS
    LockIsExact
    PileIsBounded
PROPERTIES
    SendsEnd
    GivingUpCloses
