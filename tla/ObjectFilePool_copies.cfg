SPECIFICATION FairPool
CONSTANTS
    u1 = u1
    u2 = u2
    u3 = u3
    Users = {u1, u2}
    Nesting = {u1}
    Paths <- MCPaths
    BuildID <- MCBuildID
    MaxFiles = 3
INVARIANTS
    ReadsStaySound
PROPERTY
    FilesClose
\* A finalizer and a user that reads twice can wait for each other: see ObjectFilePool_docs.cfg.
CHECK_DEADLOCK FALSE
