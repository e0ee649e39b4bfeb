\* Each of these is refuted. TLC stops at the first counterexample:
\* keep one of the lines below to see its own.
SPECIFICATION Spec
CONSTANTS
    MaxVersion = 3
    HasFlow <- FlowThere
    Large = {3}
    HasFrame <- FrameThere
    MaxBuild = 3
    None = None
    Mixed = Mixed
INVARIANT TempIsRemoved
INVARIANT OnlySelected
INVARIANT MappingIsOfPackets
PROPERTY ValidatedIsScanned
CHECK_DEADLOCK FALSE
