SPECIFICATION FairTreeSpec
CONSTANTS
    host = host
    pod = pod
    q1 = q1
    q2 = q2
    NilMap = NilMap
    PIDs = {1, 2, 3, 4}
    Cgroups = {host, pod}
    InitProc <- MCFree
    Queries = {q1}
    Asked = {4}
    MaxStarts = 3
    MaxExits = 2
    MaxPath = 5
INVARIANTS
    EntriesWereTrue
    AnswersFollowFacts
PROPERTY
    StaleEntriesLeave
\* A panic ends the agent: see ProcessTree_docs.cfg.
CHECK_DEADLOCK FALSE
