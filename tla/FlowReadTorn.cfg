SPECIFICATION ReadSpec
CONSTANTS
    Key = {k1}
    Fragment = {x1}
    Flags <- SomeFlags
    MaxFrame = 4
    MaxPackets = 3
    MaxHoles = 1
INVARIANTS AnswerIsFrames
