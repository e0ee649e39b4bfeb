\* Each of these is refuted. TLC stops at the first counterexample:
\* keep one of the lines below to see its own.
SPECIFICATION FairSpec
CONSTANTS
    a = a  b = b
    Flow = {a, b}
    Gaps <- MCGaps
    Span <- MCSpan
    FirstSpan <- MCFirst
    Instant = {0, 3, 7}
    Delta = {1}
    SkipTicks = 2
    None = None
    MaxUser = 5
INVARIANT ChartIsOfFlow
INVARIANT ExpandedIsOfFlow
PROPERTY PlayStops
PROPERTY NoPacketJumped
PROPERTY GapsAreSkipped
CHECK_DEADLOCK FALSE
