SPECIFICATION Spec
CONSTANTS
    c1 = c1
    c2 = c2
    z1 = z1
    z2 = z2
    on = on
    off = off
    NoConn = NoConn
    Absent = Absent
    WireMax = 1
    Conn <- MCConn
    Zone <- MCOneZone
    Value <- MCValue
INVARIANTS
    StopsOnlyForReauth
