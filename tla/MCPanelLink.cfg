SPECIFICATION FairSpec
CONSTANTS
    c1 = c1
    c2 = c2
    z1 = z1
    z2 = z2
    on = on
    off = off
    NoConn = NoConn
    Absent = Absent
    WireMax = 2
    Conn <- MCConn
    Zone <- MCZone
    Value <- MCValue
INVARIANTS
    AvailableIsMaintained
    SocketsOwned
    ShownIsCurrent
PROPERTIES
    ImplementsMirror
    ResyncEnds
    Retries
    UnloadEnds
