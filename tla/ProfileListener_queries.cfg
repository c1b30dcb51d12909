SPECIFICATION ListenerSpec
CONSTANTS
    q1 = q1
    q2 = q2
    q3 = q3
    web = web
    db = db
    None = None
    Queries = {q1, q2, q3}
    Profiles = {web, db}
    Matching <- MCMatching
    MaxWriteRaws = 3
INVARIANTS
    ObserversAreOpen
    AnswerIsNextMatch
    NoMatchMissed
\* The profiling loop and a query can wait for each other: QueriesEnd is violated under FairListenerSpec.
CHECK_DEADLOCK FALSE
