SPECIFICATION FairSpec
CONSTANTS
    r1 = r1  r2 = r2  w1 = w1  w2 = w2
    Req = {r1}
    Worker = {w1}
    WorkerOf <- OneWorker
    Build = {b1}
    NoBuild = NoBuild
    Inode = {i1, i2}
    NoFile = NoFile
    Blocks = 1
    Corrupt = {FALSE}
    SlowScan = TRUE
    WritesFail = TRUE
    MaxCrash = 1
PROPERTIES LeakedLockIsReclaimed
