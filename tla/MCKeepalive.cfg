SPECIFICATION Spec
CONSTANTS
    QUIET_PING = 6
    QUIET_LIMIT = 3
    STALL = 2
    SEND = 2
    HOLD_MAX = 12
INVARIANTS
    LiveLinkKept
    DeadLinkFound
    PanelHearsUs
