SPECIFICATION Spec
CONSTANTS
    z1 = z1
    z2 = z2
    door = door
    blank = blank
    p1 = p1
    k1 = k1
    Absent = Absent
    None = None
    Zone <- MCZone
    Name <- MCName
    Partition = {p1}
    Output = {k1}
    Level <- MCLevel
    Brightness <- MCBrightness
INVARIANTS
    Mirrored
    LightKeepsLevel
PROPERTIES
    PlacedUntilGone
