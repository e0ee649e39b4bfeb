SPECIFICATION Spec
CONSTANTS
    MaxVersion = 3
    HasFlow <- FlowThere
    Large = {3}
    HasFrame <- FrameThere
    MaxBuild = 3
    None = None
    Mixed = Mixed
INVARIANTS TypeOK CurrentIndexIsOfCapture UnchangedIsRight UndisturbedIsAnswered TempIsTransient
CHECK_DEADLOCK FALSE
