SPECIFICATION Spec
CONSTANTS
    a = a  b = b
    Endpoint <- Ends
    None = None
    Unmeasured = Unmeasured
    Scene <- Scenes
    SeqSpace = 16
    BurstGap = 1
    ReorderWindow = 1
    MinStall = 1
    PlaybackTrigger = 2
    IdleGap = 2
    BulkMin = 4
    SmallMax = 1
    LongPause = 6
    StallLookback = 1
    PacedGap = 2
    PacedMin = 3
    SymptomFrames = 2
    SampleIdleGap = 5
    MinSample = 1
    MaxSample = 8
    InitialTtl = {64, 128}
    NearHops = 4
    MinBurst = 2
INVARIANTS TypeOK UniqueIsCovered OutstandingIsUnacked BurstsAreMaximal RepeatsAreResent EpisodesHoldStalls PhasesTile PauseNamesEpisode TimelineIsWhole ModesAgree RttEvidenceAgrees
CHECK_DEADLOCK FALSE
