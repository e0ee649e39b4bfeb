\* Refuted. Also with Req = {r1}, SlowScan = TRUE and MaxCrash = 0: a slow scan
\* loses its lock, and the next one starts.
SPECIFICATION Spec
CONSTANTS
    r1 = r1  r2 = r2  w1 = w1  w2 = w2
    Req = {r1, r2}
    Worker = {w1, w2}
    WorkerOf <- TwoWorkers
    Build = {b1, b2}
    NoBuild = NoBuild
    Inode = {i1, i2}
    NoFile = NoFile
    Blocks = 1
    Corrupt = {FALSE}
    SlowScan = FALSE
    WritesFail = FALSE
    MaxCrash = 1
INVARIANTS SingleScan
