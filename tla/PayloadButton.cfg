\* Each of these is refuted. TLC stops at the first counterexample:
\* keep one of the lines below to see its own.
SPECIFICATION Spec
CONSTANTS
    a = a  b = b  c = c  c1 = c1  c2 = c2
    Report <- TwoLinesFromNode0
    Capture = {c1, c2}
    Flow = {a, c}
    CaptureOf <- OneOfEach
    None = None
    Preview = 2
    Page = 3
    Fails = TRUE
    MaxRequest = 4
INVARIANT RestIsOffered
INVARIANT FrameIsAsClicked
CHECK_DEADLOCK FALSE
