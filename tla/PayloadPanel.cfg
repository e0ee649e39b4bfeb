SPECIFICATION Spec
CONSTANTS
    a = a  b = b  c = c  c1 = c1  c2 = c2
    Report <- TwoLinesFromNode0
    Capture = {c1, c2}
    Flow = {a, b, c}
    CaptureOf <- TwoCaptures
    None = None
    Preview = 2
    Page = 3
    Fails = TRUE
    MaxRequest = 5
INVARIANTS TypeOK TranscriptIsPrefix PanelIsOfFlow
CHECK_DEADLOCK FALSE
