SPECIFICATION Spec
CONSTANTS
    Key = {k1, k2}
    Fragment = {x1}
    Flags <- SomeFlags
    MaxFrame = 5
CHECK_DEADLOCK FALSE
INVARIANTS TypeOK ChainsAreWhole ReuseAfterClose CountsMatch
PROPERTIES DealsFrames
