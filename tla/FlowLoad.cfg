SPECIFICATION Spec
CONSTANTS
    f1 = f1  f2 = f2  f3 = f3  s1 = s1  s2 = s2
    File = {f1, f2, f3}
    Stream = {s1, s2}
    StreamsOf <- ThreeKinds
    Supported = {f1, f3}
    Mode = {"smart", "fast"}
    None = None
    Fails = TRUE
    IndexLost = TRUE
    MaxRequest = 3
INVARIANTS TypeOK FlowIsOfFile
PROPERTIES OnlyNewestInstalls
CHECK_DEADLOCK FALSE
