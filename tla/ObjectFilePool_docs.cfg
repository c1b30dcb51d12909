SPECIFICATION FairPool
CONSTANTS
    u1 = u1
    u2 = u2
    u3 = u3
    Users = {u1, u2}
    Nesting = {u1}
    Paths <- MCOnePath
    BuildID <- MCOneBuild
    MaxFiles = 2
INVARIANTS
    HeldFilesAreOpen
    OpenReadsStayOpen
PROPERTIES
    ReadsReturn
CHECK_DEADLOCK FALSE
