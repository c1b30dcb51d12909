SPECIFICATION FairSpec
CONSTANTS
    t1 = t1
    t2 = t2
    t3 = t3
    bin = bin
    dbg = dbg
    None = None
    Tasks = {t1, t2}
    Builds = {bin, dbg}
    BuildID <- MCSame
    MaxParallel = 2
    MaxFailures = 2
    MaxExits = 1
\* A panic ends the agent, and everything may be uploaded.
CHECK_DEADLOCK FALSE
INVARIANTS
    TypeOK
    CacheIsTrue
    HealthyUploads
PROPERTY
    RunningIsUploaded
