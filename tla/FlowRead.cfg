SPECIFICATION ReadSpec
CONSTANTS
    Key = {k1, k2}
    Fragment = {x1}
    Flags <- SomeFlags
    MaxFrame = 4
    MaxPackets = 3
    MaxHoles = 1
CHECK_DEADLOCK FALSE
INVARIANTS WalkReturnsFlow
PROPERTIES WalkEnds
