SPECIFICATION FairSpec
CONSTANTS
    c1 = c1
    c2 = c2
    e1 = e1
    e2 = e2
    main = main
    loop = loop
    sys = sys
    NoStack = NoStack
    None = None
    CPUs = {c1}
    Samples <- MCLiveSamples
    TraceID <- MCTraceID
    Slots = {e1, e2}
    MaxDwarfTraces = 1
    MaxSamples = 2
    MaxResets = 1
PROPERTY
    CountsArePurged
