\* Each of these is refuted. TLC stops at the first counterexample:
\* keep one of the lines below to see its own.
SPECIFICATION Spec
CONSTANTS
    a = a  b = b
    Endpoint <- Ends
    None = None
    Unmeasured = Unmeasured
    Scene <- Scenes
    SeqSpace = 16
    BurstGap = 1
    ReorderWindow = 1
    MinStall = 1
    PlaybackTrigger = 2
    IdleGap = 2
    BulkMin = 4
    SmallMax = 1
    LongPause = 6
    StallLookback = 1
    PacedGap = 2
    PacedMin = 3
    SymptomFrames = 2
    SampleIdleGap = 5
    MinSample = 1
    MaxSample = 8
    InitialTtl = {64, 128}
    NearHops = 4
    MinBurst = 2
INVARIANT OpenStallIsOnlyUnresolved
INVARIANT NoSampleBehindSilence
INVARIANT VerdictUsesTimes
INVARIANT UniqueBytesAreUnique
INVARIANT StallPauseIsClosed
INVARIANT FallbackIsUsed
INVARIANT ShiftIsNegotiated
INVARIANT HistoryHasEveryWindow
INVARIANT SymptomIsFlowControl
CHECK_DEADLOCK FALSE
