SPECIFICATION TreeSpec
CONSTANTS
    host = host
    pod = pod
    q1 = q1
    q2 = q2
    NilMap = NilMap
    PIDs = {1, 2, 3}
    Cgroups = {host, pod}
    InitProc <- MCChain
    Queries = {q1, q2}
    Asked = {3}
    MaxStarts = 2
    MaxExits = 2
    MaxPath = 5
INVARIANTS
    TreeTypeOK
    EntriesWereTrue
    AnswersFollowFacts
SYMMETRY Symmetry
\* A panic ends the agent: see ProcessTree_docs.cfg.
CHECK_DEADLOCK FALSE
