\* Each of these is refuted. TLC stops at the first counterexample:
\* keep one of the lines below to see its own.
SPECIFICATION FairSpec
CONSTANTS
    f1 = f1  f2 = f2  f3 = f3  s1 = s1  s2 = s2
    File = {f1, f2}
    Stream = {s1, s2}
    StreamsOf <- TwoKinds
    Supported = {f1}
    Mode = {"smart", "fast"}
    None = None
    Fails = FALSE
    IndexLost = FALSE
    MaxRequest = 3
INVARIANT PlaybackIsCurrent
INVARIANT SelectionIsOfFlow
INVARIANT StatusIsCurrent
PROPERTY ChosenCaptureIsListed
CHECK_DEADLOCK FALSE
