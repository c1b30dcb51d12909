SPECIFICATION Spec
CONSTANTS
    p1 = p1
    p2 = p2
    app = app
    lib = lib
    plug = plug
    bare = bare
    Anon = Anon
    JitDump = JitDump
    None = None
    Pids = {p1}
    BuildIDs = {app, lib, plug, bare}
    MappingLists <- MCResetLists
    TableLen <- MCTableLen
    FdeEnds <- MCFdeEnds
    TransientFailures = TRUE
    MaxUnwindTableSize = 3
    MaxUnwindShards = 2
    MaxUnwindTableChunks = 2
    MaxExecutables = 3
    MaxProcesses = 1
    MaxMappingsPerProcess = 3
    MinRounds = 1
INVARIANT
    ExecutableIDsDistinct
