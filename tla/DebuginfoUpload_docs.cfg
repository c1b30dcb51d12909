SPECIFICATION Spec
CONSTANTS
    t1 = t1
    t2 = t2
    t3 = t3
    bin = bin
    dbg = dbg
    None = None
    Tasks = {t1, t2, t3}
    Builds = {bin, dbg}
    BuildID <- MCSame
    MaxParallel = 2
    MaxFailures = 1
    MaxExits = 0
INVARIANTS
    UploadsExclusive
    SuccessMeansUploaded
    BinariesStayHere
    ExtractedOnce
    \* with MaxFailures = 0 and MaxExits = 1 too, by a path that was found for another process:
    FallsBackToExtract
CHECK_DEADLOCK FALSE
