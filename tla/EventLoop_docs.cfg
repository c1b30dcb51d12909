SPECIFICATION Spec
CONSTANTS
    fp = fp
    dw1 = dw1
    dw2 = dw2
    b1 = b1
    b2 = b2
    f1 = f1
    f2 = f2
    loop = loop
    Missing = Missing
    Pids = {fp, dw1, dw2}
    BuildIDs = {b1, b2}
    Symbolizable <- const_Symbolizable
    Fetchers = {f1}
    Loop = loop
    FramePointers = {fp}
    Modes <- info_Modes
    MaxEvents = 1
INVARIANTS
    FetchPopulatesCache
    FetchedOnce
CHECK_DEADLOCK FALSE
