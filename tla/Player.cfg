SPECIFICATION FairSpec
CONSTANTS
    a = a  b = b
    Flow = {a, b}
    Gaps <- MCGaps
    Span <- MCSpan
    FirstSpan <- MCFirst
    Instant = {0, 3, 7}
    Delta = {1, 3}
    SkipTicks = 2
    None = None
    MaxUser = 6
INVARIANTS TypeOK SkippingEnds
PROPERTIES PausedStaysPut PlayEnds
CHECK_DEADLOCK FALSE
