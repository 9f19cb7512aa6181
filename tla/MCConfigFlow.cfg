SPECIFICATION FairSpec
CONSTANTS
    Conn = {c1, c2}
    Panel = {p1, p2}
    None = None
INVARIANTS
    TypeOK
    PinsTheOneChecked
PROPERTIES
    FlowLetsGo
    SetsUpAlone
    EntryComesBack
