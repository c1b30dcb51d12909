---------------------------- MODULE UnwindShards ----------------------------
(***************************************************************************)
(* The unwind-table allocator of the CPU profiler: bpfMaps in              *)
(* pkg/profiler/cpu/maps.go.                                               *)
(*                                                                         *)
(* A process that has no frame pointers gets an entry in the BPF map       *)
(* process_info: its executable mappings, each with an executable ID.      *)
(* unwind_info_chunks leads from an executable ID to chunks, and a chunk   *)
(* names a shard of unwind_tables and the rows [low, high) of that shard.  *)
(* Rows are first appended to one in-flight shard in the agent's memory,   *)
(* which is written to unwind_tables when it is full and at the end of     *)
(* every batch of processes.                                               *)
(*                                                                         *)
(* All of it runs under bpfMaps.mutex, one call at a time.  The BPF        *)
(* unwinder reads the three maps meanwhile, so every map update is a step  *)
(* of its own: a call of addUnwindTableForProcess is one step per mapping  *)
(* and one per iteration of the loop that splits an unwind table.          *)
(***************************************************************************)
EXTENDS Integers, Sequences, FiniteSets

CONSTANTS
    Pids,                   \* processes without frame pointers
    BuildIDs,               \* build IDs of the executables and libraries
    Anon,                   \* a mapping that is not backed by a file
    JitDump,                \* a mapping of a jitdump file
    None,
    MappingLists,           \* lists of executable mappings a process can have
    TableLen,               \* TableLen[b]: rows of the unwind table of b, 0 if none
    FdeEnds,                \* FdeEnds[b]: the rows of b that are end-of-FDE markers
    TransientFailures,      \* may reading an existing unwind table fail?
    MaxUnwindTableSize,     \* rows of a shard
    MaxUnwindShards,        \* entries of unwind_tables
    MaxUnwindTableChunks,   \* chunks of an unwind_info_chunks entry
    MaxExecutables,         \* entries of unwind_info_chunks
    MaxProcesses,           \* entries of process_info
    MaxMappingsPerProcess,  \* mappings of a process_info entry
    MinRounds               \* minRoundsBeforeRedoing{UnwindInfo, ProcessInformation}

Objects == BuildIDs \cup {Anon, JitDump}

ASSUME ObjectsAssumption == /\ Anon \notin BuildIDs
                            /\ JitDump \notin BuildIDs
                            /\ Anon # JitDump
                            /\ None \notin BuildIDs /\ None \notin Pids

ASSUME MappingListsAssumption == MappingLists \subseteq Seq(Objects)

ASSUME SizesAssumption ==
    /\ MaxUnwindTableSize \in Nat \ {0} /\ MaxUnwindTableChunks \in Nat \ {0}
    /\ MaxUnwindShards \in Nat /\ MaxExecutables \in Nat
    /\ MaxProcesses \in Nat /\ MaxMappingsPerProcess \in Nat /\ MinRounds \in Nat
    /\ TransientFailures \in BOOLEAN

\* BuildCompactUnwindTable ends the rows of every function with a marker, and no
\* function has more rows than a shard.
ASSUME TablesAssumption ==
    /\ TableLen \in [BuildIDs -> Nat]
    /\ FdeEnds \in [BuildIDs -> SUBSET (Nat \ {0})]
    /\ \A b \in BuildIDs : \A k \in 0..(TableLen[b] - 1) :
          \E t \in 1..MaxUnwindTableSize : k + t <= TableLen[b] /\ k + t \in FdeEnds[b]

VARIABLES
    buildIDMapping,   \* build ID |-> executable ID
    executableID,     \* the next executable ID
    shardIndex,       \* the shard the in-flight rows belong to
    inFlight,         \* unwindInfoMemory: the rows of the in-flight shard
    lowIndex,
    highIndex,
    waitingUnwind,    \* waitingToResetUnwindInfo
    unwindRounds,     \* profilingRoundsWithoutUnwindInfoReset, up to MinRounds
    waitingProcess,   \* waitingToResetProcessInfo
    processRounds,    \* profilingRoundsWithoutProcessInfoReset, up to MinRounds
    processCache,     \* pid |-> the mappings whose hash is cached
    unwindTables,     \* BPF map unwind_tables: shard |-> rows
    unwindShards,     \* BPF map unwind_info_chunks: executable ID |-> chunks
    processInfo,      \* BPF map process_info: pid |-> mappings with executable IDs
    \* The call of addUnwindTableForProcess that holds the mutex.
    stage,            \* "idle", "mappings", "table" or "full"
    caller,           \* "batch" or "refresh"
    pid,              \* None when idle
    mappings,         \* executableMappings of the call
    todo,             \* those still to be dealt with
    buf,              \* mappingInfoMemory: the process_info entry being built
    exe,              \* the build ID whose table is being split, or None
    done,             \* rows of that table already in a shard
    chunks,           \* unwindShardsValBuf: its chunks so far
    \* The callers.
    maps,             \* /proc/PID/maps of every process
    refreshing,       \* refreshProcessInfo: what it read before taking the mutex
    batchOpen,        \* the batch callback has yet to call PersistUnwindTable
    \* History.
    tainted,          \* the last reset happened in the middle of a call
    untabled,         \* build IDs that got an executable ID and no table
    sinceReset        \* profiling rounds since the last reset, up to MinRounds

shardVars == <<shardIndex, inFlight, lowIndex, highIndex>>
idVars == <<buildIDMapping, executableID, untabled>>
bpfVars == <<unwindTables, unwindShards, processInfo>>
resetVars == <<waitingUnwind, unwindRounds, sinceReset, tainted>>
processResetVars == <<waitingProcess, processRounds>>
callVars == <<caller, pid, mappings, todo, buf>>
tableVars == <<exe, done, chunks>>
callerVars == <<maps, refreshing, batchOpen>>
vars == <<shardVars, idVars, bpfVars, resetVars, processResetVars, processCache,
          stage, callVars, tableVars, callerVars>>

Row == [exe : BuildIDs, pc : Nat]
Chunk == [exe : BuildIDs, lowPc : Nat, highPc : Nat, shard : Nat, low : Nat, high : Nat]
Written == [obj : Objects, id : Nat]

Put(f, k, v) == [x \in DOMAIN f \cup {k} |-> IF x = k THEN v ELSE f[x]]

\* A BPF hash map of the given capacity refuses a new key with E2BIG.
Full(f, k, capacity) == k \notin DOMAIN f /\ Cardinality(DOMAIN f) >= capacity

\* Mutant: finalizeProfileLoop does not count the round.
RoundNotCounted(n) == n

\* Counters are only compared with MinRounds: counting stops there.
NextRound(n) == IF n < MinRounds THEN n + 1 ELSE n

\* "= 0" races with the unlocked "++" of finalizeProfileLoop, which may win.
ZeroedRounds(n) == {0, NextRound(n)}

Init ==
    /\ buildIDMapping = <<>> /\ executableID = 0
    /\ shardIndex = 0 /\ inFlight = <<>> /\ lowIndex = 0 /\ highIndex = 0
    /\ waitingUnwind = FALSE /\ unwindRounds = 0
    /\ waitingProcess = FALSE /\ processRounds = 0
    /\ processCache = <<>>
    /\ unwindTables = <<>> /\ unwindShards = <<>> /\ processInfo = <<>>
    /\ stage = "idle" /\ caller = "batch" /\ pid = None
    /\ mappings = <<>> /\ todo = <<>> /\ buf = <<>>
    /\ exe = None /\ done = 0 /\ chunks = <<>>
    /\ maps \in [Pids -> MappingLists] /\ refreshing = <<>> /\ batchOpen = FALSE
    /\ tainted = FALSE /\ untabled = {} /\ sinceReset = 0

-----------------------------------------------------------------------------
(* Persisting the in-flight shard and starting over. *)

NoSpace == inFlight # <<>> /\ Full(unwindTables, shardIndex, MaxUnwindShards)

\* unwindTables.Update succeeds, or there are no rows and nothing is written.
PersistShard ==
    /\ ~NoSpace
    /\ unwindTables' = IF inFlight = <<>> THEN unwindTables
                       ELSE Put(unwindTables, shardIndex, inFlight)
    /\ UNCHANGED <<idVars, unwindShards, processInfo, processCache, resetVars>>

\* Out of shards, too soon after the last reset: ErrNeedMoreProfilingRounds.
PersistTooSoon ==
    /\ NoSpace
    /\ unwindRounds < MinRounds
    /\ waitingUnwind' = TRUE
    /\ UNCHANGED <<shardVars, idVars, bpfVars, processCache, unwindRounds, sinceReset, tainted>>

\* Out of shards: resetUnwindState.  unwind_tables keeps its old contents.
PersistReset ==
    /\ NoSpace
    /\ unwindRounds >= MinRounds
    /\ waitingUnwind' = FALSE
    /\ unwindRounds' \in IF waitingUnwind THEN ZeroedRounds(unwindRounds) ELSE {unwindRounds}
    /\ processCache' = <<>> /\ processInfo' = <<>> /\ unwindShards' = <<>>
    /\ buildIDMapping' = <<>> /\ executableID' = 0 /\ untabled' = {}
    /\ inFlight' = <<>> /\ lowIndex' = 0 /\ highIndex' = 0
    /\ sinceReset' = 0
    /\ UNCHANGED unwindTables

\* PersistUnwindTable: the batch callback, after its last process.
PersistUnwindTable ==
    /\ stage = "idle"
    /\ batchOpen
    /\ batchOpen' = FALSE
    /\ \/ PersistShard /\ UNCHANGED shardVars
       \/ PersistTooSoon
       \/ PersistReset /\ shardIndex' = 0 /\ tainted' = FALSE
    /\ UNCHANGED <<processResetVars, stage, callVars, tableVars, maps, refreshing>>

\* Mutant: allocateNewShard leaves highIndex alone.
AllocateKeepingHighIndex ==
    \/ /\ PersistShard
       /\ inFlight' = <<>> /\ lowIndex' = 0
       /\ shardIndex' = shardIndex + 1
       /\ UNCHANGED highIndex
    \/ PersistReset /\ shardIndex' = 1 /\ tainted' = TRUE

\* Mutant: allocateNewShard reuses the shard it has just written.
AllocateSameShard ==
    \/ /\ PersistShard
       /\ inFlight' = <<>> /\ lowIndex' = 0 /\ highIndex' = 0
       /\ UNCHANGED shardIndex
    \/ PersistReset /\ shardIndex' = 1 /\ tainted' = TRUE

\* allocateNewShard, when persisting succeeds or starts over.
AllocateNewShard ==
    \/ /\ PersistShard
       /\ inFlight' = <<>> /\ lowIndex' = 0 /\ highIndex' = 0
       /\ shardIndex' = shardIndex + 1
    \/ PersistReset /\ shardIndex' = 1 /\ tainted' = TRUE

-----------------------------------------------------------------------------
(* Callers of addUnwindTableForProcess and their environment. *)

MapsChange(p) ==
    /\ \E l \in MappingLists : maps' = [maps EXCEPT ![p] = l]
    /\ UNCHANGED <<shardVars, idVars, bpfVars, resetVars, processResetVars, processCache,
                   stage, callVars, tableVars, refreshing, batchOpen>>

\* finalizeProfileLoop: one more profiling round, without the mutex.
FinalizeProfileLoop ==
    /\ unwindRounds' = NextRound(unwindRounds)
    /\ processRounds' = NextRound(processRounds)
    /\ sinceReset' = NextRound(sinceReset)
    /\ UNCHANGED <<shardVars, idVars, bpfVars, waitingUnwind, tainted, waitingProcess,
                   processCache, stage, callVars, tableVars, callerVars>>

\* addUnwindTableForProcess takes the mutex and starts a process_info entry.
Start(c, p, l) ==
    /\ Len(l) < MaxMappingsPerProcess
    /\ stage' = "mappings"
    /\ caller' = c /\ pid' = p /\ mappings' = l
    /\ todo' = l /\ buf' = <<>>

\* ... or gives up: cached, gone from procfs, too many mappings.
GiveUp == UNCHANGED <<stage, callVars>>

BatchAdd(p) ==
    /\ stage = "idle"
    /\ batchOpen' = TRUE
    /\ \/ p \notin DOMAIN processCache /\ Start("batch", p, maps[p])
       \/ GiveUp
    /\ UNCHANGED <<shardVars, idVars, bpfVars, resetVars, processResetVars, processCache,
                   tableVars, maps, refreshing>>

\* refreshProcessInfo compares the cached mappings with the current ones ...
RefreshRead(p) ==
    /\ refreshing = <<>>
    /\ stage = "idle" \/ caller = "batch"
    /\ p \in DOMAIN processCache => processCache[p] # maps[p]
    /\ refreshing' = <<p, maps[p]>>
    /\ UNCHANGED <<shardVars, idVars, bpfVars, resetVars, processResetVars, processCache,
                   stage, callVars, todo, buf, tableVars, maps, batchOpen>>

\* ... and takes the mutex later, with what it read.
RefreshAdd ==
    /\ stage = "idle"
    /\ refreshing # <<>>
    /\ refreshing' = <<>>
    /\ \/ Start("refresh", refreshing[1], refreshing[2])
       \/ Len(refreshing[2]) >= MaxMappingsPerProcess /\ GiveUp
    /\ UNCHANGED <<shardVars, idVars, bpfVars, resetVars, processResetVars, processCache,
                   tableVars, maps, batchOpen>>

-----------------------------------------------------------------------------
(* setUnwindTableForMapping for the next mapping of the call. *)

\* The call returns: an error on the way there means process_info is not written.
Return ==
    /\ stage' = "idle" /\ caller' = "batch" /\ pid' = None
    /\ mappings' = <<>> /\ todo' = <<>> /\ buf' = <<>>
    /\ exe' = None /\ done' = 0 /\ chunks' = <<>>

\* Mutant: every mapping is written as if it were not backed by a file.
WriteZeroID(id) ==
    /\ buf' = Append(buf, [obj |-> Head(todo), id |-> 0])
    /\ todo' = Tail(todo)
    /\ UNCHANGED <<caller, pid, mappings>>

\* Mutant: mappings that are not backed by a file are left out.
WriteFileBacked(id) ==
    /\ buf' = IF Head(todo) = Anon THEN buf ELSE Append(buf, [obj |-> Head(todo), id |-> id])
    /\ todo' = Tail(todo)
    /\ UNCHANGED <<caller, pid, mappings>>

\* writeMapping appends the mapping to the process_info entry.
WriteMapping(id) ==
    /\ buf' = Append(buf, [obj |-> Head(todo), id |-> id])
    /\ todo' = Tail(todo)
    /\ UNCHANGED <<caller, pid, mappings>>

\* jitdump files are skipped and mappings without a file get ID 0.
MappingWithoutTable ==
    /\ stage = "mappings" /\ todo # <<>>
    /\ \/ /\ Head(todo) = JitDump
          /\ todo' = Tail(todo)
          /\ UNCHANGED <<caller, pid, mappings, buf>>
       \/ Head(todo) = Anon /\ WriteMapping(0)
    /\ UNCHANGED <<shardVars, idVars, bpfVars, resetVars, processResetVars, processCache,
                   stage, tableVars, callerVars>>

\* The file cannot be opened, is not ELF or has no build ID.  (elf.NewFile reads an
\* open file, so its error is never ErrNotExist.)
MappingUnreadable ==
    /\ stage = "mappings" /\ todo # <<>> /\ Head(todo) \in BuildIDs
    /\ Return
    /\ UNCHANGED <<shardVars, idVars, bpfVars, resetVars, processResetVars, processCache,
                   callerVars>>

MappingSeen ==
    /\ stage = "mappings" /\ todo # <<>> /\ Head(todo) \in DOMAIN buildIDMapping
    /\ WriteMapping(buildIDMapping[Head(todo)])
    /\ UNCHANGED <<shardVars, idVars, bpfVars, resetVars, processResetVars, processCache,
                   stage, tableVars, callerVars>>

\* mappingID registers the build ID; without a table the executable ID stays free.
MappingNew ==
    /\ stage = "mappings" /\ todo # <<>>
    /\ LET b == Head(todo) IN
       /\ b \in BuildIDs \ DOMAIN buildIDMapping
       /\ buildIDMapping' = Put(buildIDMapping, b, executableID)
       /\ \/ /\ TableLen[b] > 0
             /\ stage' = "table"
             /\ exe' = b /\ done' = 0 /\ chunks' = <<>>
             /\ UNCHANGED untabled
          \/ /\ TableLen[b] = 0 \/ TransientFailures
             /\ untabled' = untabled \cup {b}
             /\ UNCHANGED <<stage, tableVars>>
    /\ WriteMapping(executableID)
    /\ UNCHANGED <<shardVars, executableID, bpfVars, resetVars, processResetVars, processCache,
                   callerVars>>

-----------------------------------------------------------------------------
(* The loop that splits the unwind table of exe into chunks. *)

\* Mutant: a table that does not fit in the rest of the shard is given up.
WholeTableOrNothing ==
    IF TableLen[exe] - done < MaxUnwindTableSize - highIndex THEN TableLen[exe] - done ELSE 0

MaxThreshold ==
    LET rest == TableLen[exe] - done
        available == MaxUnwindTableSize - highIndex
    IN IF rest < available THEN rest ELSE available

EndsFunction(t) == done + t \in FdeEnds[exe]

\* waitingToResetUnwindInfo: ErrNeedMoreProfilingRounds.
TableWaits ==
    /\ stage = "table" /\ waitingUnwind
    /\ Return
    /\ UNCHANGED <<shardVars, idVars, bpfVars, resetVars, processResetVars, processCache,
                   callerVars>>

\* The rows up to the last end of a function that fits become a chunk.
AppendChunk ==
    /\ stage = "table" /\ ~waitingUnwind
    /\ \E t \in 1..MaxThreshold :
          /\ EndsFunction(t)
          /\ \A u \in (t + 1)..MaxThreshold : ~EndsFunction(u)
          /\ chunks' = Append(chunks,
                 [exe |-> exe, lowPc |-> done + 1, highPc |-> done + t,
                  shard |-> shardIndex, low |-> lowIndex, high |-> highIndex + t])
          /\ inFlight' = inFlight \o [k \in 1..t |-> [exe |-> exe, pc |-> done + k]]
          /\ highIndex' = highIndex + t
          /\ lowIndex' = highIndex + t
          /\ done' = done + t
          /\ stage' = IF highIndex + t = MaxUnwindTableSize THEN "full" ELSE "table"
    /\ UNCHANGED <<shardIndex, idVars, bpfVars, resetVars, processResetVars, processCache,
                   callVars, exe, callerVars>>

\* The shard is full, or no function fits in what is left of it.
NewShard ==
    /\ \/ stage = "full"
       \/ /\ stage = "table" /\ ~waitingUnwind
          /\ MaxThreshold > 0
          /\ \A u \in 1..MaxThreshold : ~EndsFunction(u)
    /\ \/ AllocateNewShard /\ stage' = "table" /\ UNCHANGED <<callVars, tableVars>>
       \/ PersistTooSoon /\ Return
    /\ UNCHANGED <<processResetVars, callerVars>>

\* All rows are in shards: the chunks are published under executableID.  An entry
\* holds MaxUnwindTableChunks of them; the others are lost.
PublishChunks ==
    /\ stage = "table" /\ ~waitingUnwind /\ MaxThreshold = 0
    /\ \/ /\ ~Full(unwindShards, executableID, MaxExecutables)
          /\ unwindShards' = Put(unwindShards, executableID,
                 IF Len(chunks) > MaxUnwindTableChunks
                 THEN SubSeq(chunks, 1, MaxUnwindTableChunks) ELSE chunks)
          /\ executableID' = executableID + 1
          /\ stage' = "mappings" /\ exe' = None /\ done' = 0 /\ chunks' = <<>>
          /\ UNCHANGED callVars
       \/ /\ Full(unwindShards, executableID, MaxExecutables)
          /\ Return
          /\ UNCHANGED <<unwindShards, executableID>>
    /\ UNCHANGED <<shardVars, buildIDMapping, untabled, unwindTables, processInfo, resetVars,
                   processResetVars, processCache, callerVars>>

\* All mappings are dealt with: process_info is written, or is full.
WriteProcessInfo ==
    /\ stage = "mappings" /\ todo = <<>>
    /\ \/ /\ ~Full(processInfo, pid, MaxProcesses)
          /\ processInfo' = Put(processInfo, pid, buf)
          /\ processCache' = Put(processCache, pid, mappings)
          /\ UNCHANGED processResetVars
       \/ /\ Full(processInfo, pid, MaxProcesses)
          /\ processRounds < MinRounds
          /\ waitingProcess' = TRUE
          /\ UNCHANGED <<processInfo, processCache, processRounds>>
       \/ /\ Full(processInfo, pid, MaxProcesses)
          /\ processRounds >= MinRounds
          /\ waitingProcess' = FALSE
          /\ processRounds' \in IF waitingProcess THEN ZeroedRounds(processRounds)
                               ELSE {processRounds}
          /\ processInfo' = <<>> /\ processCache' = <<>>
    /\ Return
    /\ UNCHANGED <<shardVars, idVars, unwindTables, unwindShards, resetVars, callerVars>>

Next ==
    \/ \E p \in Pids : MapsChange(p) \/ BatchAdd(p) \/ RefreshRead(p)
    \/ FinalizeProfileLoop
    \/ RefreshAdd
    \/ MappingWithoutTable \/ MappingUnreadable \/ MappingSeen \/ MappingNew
    \/ TableWaits \/ AppendChunk \/ NewShard \/ PublishChunks
    \/ WriteProcessInfo
    \/ PersistUnwindTable

Spec == Init /\ [][Next]_vars

-----------------------------------------------------------------------------
(* Properties. *)

TypeShards ==
    /\ shardIndex \in Nat /\ lowIndex \in Nat /\ highIndex \in Nat
    /\ inFlight \in Seq(Row)
    /\ DOMAIN unwindTables \subseteq Nat
    /\ \A s \in DOMAIN unwindTables : unwindTables[s] \in Seq(Row)
    /\ DOMAIN unwindShards \subseteq Nat
    /\ \A e \in DOMAIN unwindShards : unwindShards[e] \in Seq(Chunk)

TypeIDs ==
    /\ executableID \in Nat
    /\ DOMAIN buildIDMapping \subseteq BuildIDs
    /\ \A b \in DOMAIN buildIDMapping : buildIDMapping[b] \in Nat
    /\ untabled \subseteq BuildIDs

TypeProcesses ==
    /\ DOMAIN processInfo \subseteq Pids
    /\ \A p \in DOMAIN processInfo : processInfo[p] \in Seq(Written)
    /\ DOMAIN processCache \subseteq Pids
    /\ \A p \in DOMAIN processCache : processCache[p] \in MappingLists

TypeRounds ==
    /\ unwindRounds \in 0..MinRounds /\ processRounds \in 0..MinRounds
    /\ sinceReset \in 0..MinRounds

TypeFlags ==
    /\ waitingUnwind \in BOOLEAN /\ waitingProcess \in BOOLEAN
    /\ tainted \in BOOLEAN /\ batchOpen \in BOOLEAN

TypeCalls ==
    /\ stage \in {"idle", "mappings", "table", "full"}
    /\ caller \in {"batch", "refresh"}
    /\ pid \in Pids \cup {None}
    /\ mappings \in MappingLists \cup {<<>>}
    /\ todo \in Seq(Objects) /\ buf \in Seq(Written)
    /\ exe \in BuildIDs \cup {None} /\ done \in Nat /\ chunks \in Seq(Chunk)
    /\ maps \in [Pids -> MappingLists]
    /\ refreshing \in {<<>>} \cup (Pids \X MappingLists)

\* The allocator's indexes, the three BPF maps, the caches and the call under way are
\* well formed; the round counters stay within MinRounds.
TypeOK ==
    TypeShards /\ TypeIDs /\ TypeProcesses /\ TypeRounds /\ TypeFlags /\ TypeCalls

\* What assertInvariants panics about, and the panic of persistUnwindTable: the
\* buffer and the indexes agree, fit in a shard, and whenever a table is being
\* split there is room in the in-flight shard.
InFlightIndexes ==
    /\ Len(inFlight) = highIndex
    /\ lowIndex = highIndex
    /\ highIndex <= MaxUnwindTableSize
    /\ stage = "table" /\ ~waitingUnwind => highIndex < MaxUnwindTableSize

\* The rows of a shard, wherever they are now.
RowsOf(s) == IF s = shardIndex THEN inFlight
             ELSE IF s \in DOMAIN unwindTables THEN unwindTables[s] ELSE <<>>

Locates(c) ==
    \A i \in 1..(c.high - c.low) :
       /\ c.low + i <= Len(RowsOf(c.shard))
       /\ RowsOf(c.shard)[c.low + i] = [exe |-> c.exe, pc |-> c.lowPc + i - 1]

\* A published chunk leads to exactly the rows it was published for: appending to
\* the in-flight shard, moving to a new shard and starting over at a batch's end
\* never disturb them.  (A reset in the middle of a call is excepted.)
ChunksLocateRows ==
    ~tainted => \A e \in DOMAIN unwindShards : \A i \in DOMAIN unwindShards[e] :
                   Locates(unwindShards[e][i])

\* A mapping in process_info leads to the chunks of its own executable or to none:
\* executable IDs are not confused.  (A reset in the middle of a call, and build
\* IDs for which no table was generated, are excepted.)
MappingsFindOwnTable ==
    ~tainted =>
      \A p \in DOMAIN processInfo : \A i \in DOMAIN processInfo[p] :
        LET m == processInfo[p][i] IN
        m.obj \in BuildIDs \ untabled /\ m.id \in DOMAIN unwindShards =>
           \A j \in DOMAIN unwindShards[m.id] : unwindShards[m.id][j].exe = m.obj

\* The published chunks of an executable cover its table from the first row on
\* without a gap or an overlap, and completely unless there are too many, even if the
\* agent started over while it was splitting the table.
ChunksCoverTable ==
    \A e \in DOMAIN unwindShards :
      LET cs == unwindShards[e] IN
      /\ cs # <<>> /\ cs[1].lowPc = 1
      /\ \A i \in 2..Len(cs) : cs[i].lowPc = cs[i - 1].highPc + 1
      /\ Len(cs) < MaxUnwindTableChunks => cs[Len(cs)].highPc = TableLen[cs[Len(cs)].exe]

\* The entry has the objects of the first n mappings of the list, in their order and
\* without the jitdump files; at says which mapping an element of the entry is for.
WrittenFrom(entry, list, n) ==
    \E at \in [DOMAIN entry -> 1..n] :
      /\ \A i \in DOMAIN entry : entry[i].obj = list[at[i]] /\ list[at[i]] # JitDump
      /\ \A i, j \in DOMAIN entry : i < j => at[i] < at[j]
      /\ \A k \in 1..n : list[k] # JitDump => \E i \in DOMAIN entry : at[i] = k

\* refreshProcessInfo skips a process whose cached mappings are the current ones;
\* that is right only if process_info was written from the cached mappings.
CacheMatchesProcessInfo ==
    \A p \in DOMAIN processCache :
      p \in DOMAIN processInfo /\ WrittenFrom(processInfo[p], processCache[p], Len(processCache[p]))

-----------------------------------------------------------------------------
(* Liveness. *)

\* A call that holds the mutex goes on, profiling rounds go by, BPF keeps asking for
\* unwind information of processes that lack it, and sync.Mutex starves nobody.
Fairness ==
    /\ WF_vars(MappingWithoutTable \/ MappingUnreadable \/ MappingSeen \/ MappingNew
               \/ TableWaits \/ AppendChunk \/ NewShard \/ PublishChunks \/ WriteProcessInfo)
    /\ WF_vars(FinalizeProfileLoop)
    /\ SF_vars(\E p \in Pids : BatchAdd(p))
    /\ SF_vars(PersistUnwindTable)

FairSpec == Spec /\ Fairness

\* Once the agent has decided to wait before it wipes the unwind state, and so
\* refuses all new tables, it does wipe it and accepts tables again.
WaitingEnds == waitingUnwind ~> ~waitingUnwind

-----------------------------------------------------------------------------
(* Statements of the source that the code does not live up to. *)

\* maps.go:733: mappingID "will either return the already produced ID or generate a
\* new one", so two build IDs never share an executable ID.
ExecutableIDsDistinct ==
    \A a, b \in DOMAIN buildIDMapping : buildIDMapping[a] = buildIDMapping[b] => a = b

\* maps.go:736: the ID "allows us to reuse the unwind tables for the mappings we see":
\* a mapping in process_info leads to its own executable's chunks, also after the
\* agent ran out of shards and started over in the middle of a call.
MappingsFindOwnTableAfterReset ==
    \A p \in DOMAIN processInfo : \A i \in DOMAIN processInfo[p] :
      LET m == processInfo[p][i] IN
      m.obj \in BuildIDs /\ m.id \in DOMAIN unwindShards =>
         \A j \in DOMAIN unwindShards[m.id] : unwindShards[m.id][j].exe = m.obj

\* maps.go:213: "Counters to ensure we don't clear the unwind info too quickly if we
\* run out of shards": MinRounds profiling rounds pass between two resets.
ResetsApart == [][PersistReset => sinceReset >= MinRounds]_vars

\* maps.go:782: persistUnwindTable "must be called [...] in the callsite, once we are
\* done with generating the unwind tables": when no call is under way, no batch is
\* open and no reset is awaited, the chunks that process_info leads to are in
\* unwind_tables, where the BPF unwinder can find them.
PersistedOnceDone ==
    stage = "idle" /\ ~batchOpen /\ ~waitingUnwind /\ ~tainted =>
      \A p \in DOMAIN processInfo : \A i \in DOMAIN processInfo[p] :
        LET e == processInfo[p][i].id IN
        e \in DOMAIN unwindShards =>
          \A j \in DOMAIN unwindShards[e] :
            LET c == unwindShards[e][j] IN
            c.shard \in DOMAIN unwindTables /\ Len(unwindTables[c.shard]) >= c.high
=============================================================================
