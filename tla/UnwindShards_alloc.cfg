SPECIFICATION FairSpec
CONSTANTS
    p1 = p1
    p2 = p2
    app = app
    lib = lib
    plug = plug
    bare = bare
    Anon = Anon
    JitDump = JitDump
    None = None
    Pids = {p1, p2}
    BuildIDs = {app, lib, plug, bare}
    MappingLists <- MCMappingLists
    TableLen <- MCTableLen
    FdeEnds <- MCFdeEnds
    TransientFailures = FALSE
    MaxUnwindTableSize = 3
    MaxUnwindShards = 2
    MaxUnwindTableChunks = 2
    MaxExecutables = 2
    MaxProcesses = 1
    MaxMappingsPerProcess = 5
    MinRounds = 1
INVARIANTS
    InFlightIndexes
    ChunksLocateRows
    MappingsFindOwnTable
    ChunksCoverTable
    CacheMatchesProcessInfo
PROPERTY WaitingEnds
