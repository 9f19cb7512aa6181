SPECIFICATION Spec
CONSTANTS
    e1 = e1
    e2 = e2
    on = on
    off = off
    o1 = o1
    o2 = o2
    None = None
    PageSize = 1
    Entity <- MCEntity
    Value <- MCValue
    Options <- MCOptions
    WatchLists <- MCWatchLists
    OptTask <- MCOne
    Long <- MCLong
INVARIANTS
    WatchedConverge
