SPECIFICATION TreeSpec
CONSTANTS
    host = host
    pod = pod
    q1 = q1
    q2 = q2
    NilMap = NilMap
    PIDs = {1, 2, 3}
    Cgroups = {host, pod}
    InitProc <- MCChain
    Queries = {q1}
    Asked = {2, 3}
    MaxStarts = 3
    MaxExits = 2
    MaxPath = 5
INVARIANTS
    AnswersAreAncestors
    TerminatedAreCleanedUp
    WalksEnd
CHECK_DEADLOCK FALSE
