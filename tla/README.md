# A TLA+ verification of Parca Agent

Parca Agent is a continuous CPU profiler: a BPF program samples the stacks of all
processes of a machine, and a Go agent turns the samples into profiles, symbolizes and
labels them and sends them to a server. This directory holds TLA+ modules translated from
its source, the TLC configurations that model-check them and TLAPS proofs about them.

`PROJECT.json` lists the parts of the system, the runs, for every definition the source
lines it stands for, one mutant for every checked property, the hazards of the code and
the places where the code and its own documentation disagree.

## The system

| Part | State | Operations | Interacts with |
| --- | --- | --- | --- |
| BPF program (`bpf/cpu/cpu.bpf.c`) | per-CPU unwind state, BPF maps | `profile_cpu`, `walk_user_stacktrace_impl`, `add_stack`, events | reads the unwind maps, counts into the stack maps, asks the agent for unwind information |
| Unwind-table allocator (`pkg/profiler/cpu/maps.go`) | shards, chunks, executable IDs, process cache, reset counters | `addUnwindTableForProcess`, `refreshProcessInfo`, `PersistUnwindTable`, `resetUnwindState` | written by two goroutines, read by the BPF program, reset purges the stack maps |
| Stack aggregation (`add_stack`, `obtainRawData`, `cleanStacks`) | `stack_counts`, `stack_traces`, `dwarf_stack_traces` | counting, reading, purging | BPF program on every CPU, profiling loop, reset |
| Event handling (`listenEvents`, `onDemandUnwindInfoBatcher`) | channels, batch, timer | receive, batch, refresh, fetch | BPF events, allocator, process information |
| Process information (`pkg/process`) | info cache, fetches in progress, process tree | `Fetch`, `Info`, ancestors, full update | debuginfo and label managers, procfs |
| Debuginfo (`pkg/debuginfo`, `pkg/objectfile`) | caches, upload tokens, open files | extract, upload, open, close, hold on | process information, server |
| Profiles out (`pkg/agent`, `pkg/profiler`) | write batch, observers | `WriteRaw`, `Run`, `NextMatchingProfile` | profiling loop, HTTP handlers, server |
| Discovery and labels (`pkg/discovery`, `pkg/metadata`, `pkg/config`) | providers, targets, label caches, configuration | `ApplyConfig`, updates, `LabelSet`, reload | systemd, Kubernetes, profiling loop |
| Symbols (`pkg/ksym`, `pkg/perf`, `pkg/jit`, `pkg/pprof`, `pkg/symbol`, `pkg/vdso`) | symbol caches, location tables | resolve, reload, convert | profiling loop |
| Unwind tables from DWARF (`pkg/stack/unwind`, `internal/dwarf`) | none | build the compact table | allocator |

What is hard about it: the BPF program and the agent share maps without any lock; maps are
iterated while they change; everything is bounded and starts over when a bound is reached;
caches are consulted long after they were filled; fetches, uploads and discoveries run in
goroutines of their own.

## Modules

### UnwindShards — `pkg/profiler/cpu/maps.go`

One call of `addUnwindTableForProcess` holds `bpfMaps.mutex`, but the BPF program reads the
maps meanwhile and `finalizeProfileLoop` and `refreshProcessInfo` do part of their work
without the mutex. A call is therefore one step per mapping and one per iteration of the
loop that splits an unwind table; `stage` says where it is. The rows of a table are
numbered, `FdeEnds` are the rows that end a function, and a chunk carries the row numbers in
place of program counters. `PersistShard`, `PersistTooSoon` and `PersistReset` are the three
outcomes of `persistUnwindTable`. Counters of rounds are only compared with a minimum, so
they stop there; zeroing one races with the unlocked increment, and either wins.

`unwind_alloc` checks (two processes, executables of 1, 4 and 6 rows and one without,
shards of 3 rows, every map small enough to fill up): the panics of `assertInvariants` are
not reached, published chunks lead to their own rows and cover their table, mappings lead to
their own executable, the process cache says what `process_info` was written from, and
waiting for a reset ends. Fairness: a call that holds the mutex goes on; profiling rounds go
by; the BPF program keeps asking for unwind information, so a batch is added and persisted
again and again (strong fairness: `sync.Mutex` hands itself to a waiter that starves).
Failures to read a table that exists (`TransientFailures`) are off there, to keep the check of
liveness small; the proofs of the invariants include them. `unwind_ids` shows two executables
with one ID.

### StackAggregation — `add_stack`, `obtainRawData`, `cleanStacks`

Every map operation of the BPF program is a step; a round reads key by key, and an iteration
of a purge (next key, delete the previous one) is a step. Elements of `stack_counts` have an
identity (`Slots`), because the BPF program holds a pointer to an element that may be deleted
and reused. A stack is a model value with a hash (`TraceID`); two stacks may share it, and in every
instance two do. History variables record what was added, read and due.

`stacks_races` (two CPUs, two ticks, a reset, full maps) checks that undisturbed rounds
report no tick twice and everything that was there when they began, and that what they
report goes back to a tick in that process: each half is lost or a sampled stack that has the
ID of that tick's (`StacksWereSampled`). The ID is all that a key has of a stack, so that more cannot
be said while stacks share one; if they do not, it is the tick's own stack. `StackAggregation_live.cfg` shows that counts are purged in the end
(`CountsArePurged`), for one CPU. Fairness: a BPF program runs to its end, both goroutines go
on. `StackAggregation_rounds.cfg` is a larger instance for the first two properties (three
ticks).

### ProfileListener — `pkg/agent/matching_profile_listener.go`

The profiling loop shows every profile to the observers of the queries that the HTTP handler
of `/query` has open. `ListenerWriteRaw`, `CallObserver`, `Send` and `FinishWrite` are the loop, under
`omtx`; `Observe`, `Timeout` and `RemoveObserver` are a query. Queries come again (`Again`).
`listener_queries` (three queries, overlapping) checks that a query gets the first match since
it began, that no match passes a waiting query by, and that no observer outlives its channel.
Deadlock is not checked, since the loop and a query can wait for each other (`QueriesEnd`).

### BatchWriter — `pkg/agent/batch_remote_write_client.go`, `pkg/profiler/profile_writer.go`

`WriteRaw` merges a profile into the series of its labels; `Batch` takes all series; a request
is retried until it succeeds or its time is over (`MaxAttempts` stands for that time), and an
error may come after the server stored it. A request that timed out is over: that the server
still stores it while the next one is under way is not modelled. Labels are a sequence, since the code compares them
by position, and `convertLabels` yields any order. `batch_delivery` checks that no profile is
batched twice or lost without an error, that a series keeps its order, that labels are right
and, under fairness of `Run`, that every profile is settled.

### ProcessTree — `pkg/process/tree.go`

Every read of procfs is a step, and processes fork, end and reuse PIDs between any two. A query
walks up one entry at a time; `fullUpdate` reads one PID at a time, `procfs.Proc` and `Stat` in
two steps. `truth` collects the answers that were right at some time during a query: the ancestors
in the cgroup of the process (`Above` is the least set that has its parent and theirs), each with
those that are further up, which is their order. `facts` has what was ever true of a PID, and `outdated`
is set when something that the agent has read and still holds (`Held`: in the tree, in a query, in the
map of an update) becomes false.
`tree_updates` (init, a shim, a container's process and a free PID; two ends and two new processes) checks
that no entry mixes two processes, that the entry of a process that was found to be gone leaves. It has one query: with more, a
slow query that was overtaken by an update can put an old entry back, until it is noticed again.
What can be said of answers is `AnswersFollowFacts`: whatever ends and is replaced, an answer is picked
from a walk every link of which was true when it was read; and until `outdated` it is exactly the
ancestors, although processes that the agent has not read start, end and reuse PIDs. After that the code
gives other answers (`AnswersAreAncestors` below).
`ProcessTree_reuse.cfg` checks the invariants with two overlapping queries. Fairness: `Run` and
the queries go on.

### ObjectFilePool — `pkg/objectfile`

A file in `files` is an original with its descriptor, its `RWMutex` and its finalizer; users
hold it or a copy of it. A finalizer first asks for the mutex (`Finalize`), which makes new
readers wait; when it has it, `ObjectFile.close` marks the original and lets the mutex go (`Close`);
only then, without the mutex, the descriptor is closed (`CloseFile`). Users in `Nesting` read as
`Manager.Extract` does. `pool_copies` (two users, one of them in `Nesting`, a library under two paths)
checks that a read that began before the finalizer got the mutex has its descriptor open to its end;
one that begins between `Close` and `CloseFile` does not (`OpenReadsStayOpen` below). It also checks, under
fairness of users and garbage collector, that descriptors are closed in the end. Strong fairness is only assumed of a user who reads again and again, who drops the file at last, and of the
collector, which finds an unreachable original at last. Expiry needs no fairness: the
finalizer belongs to the original and not to the cached copy. Files behind the deadlock
described below are excepted.

### DebuginfoUpload — `pkg/debuginfo/manager.go`, `find.go`

A task is the mapping of one process, tried again whenever the process is seen. Its steps are the
calls that other tasks can interleave with: asking the store, opening, finding, extracting and
uploading. The singleflight groups are the maps `extracts` and `uploads` from build ID to the task
that runs the function; `Finish` wakes the others. A file is what it contains: the source, a
stripped copy, or a separate debuginfo file. A separate file is uploaded under its own build ID,
which may be that of its source or another one (`separate`); from then on the task goes by that one (`ID`).
As in ObjectFilePool, the pool knows files by build ID, so opening either of the last two may return the
source. Opening a file can fail with the process alive, and a separate file below the root of a process
that has ended cannot be opened unless the pool has it. The store is external: a no to
`ShouldInitiateUpload` means that it has the build ID, as the comment in `ensureDebuginfoUploaded`
says. `upload_faults` (two processes of one binary; with and without stripping; without a separate file,
or with one of the same or of another build ID; one token or two, so that tasks wait for each other;
two failures anywhere, a process that ends) checks that tokens are conserved, that
the cache has only what the store has, that without failures uploads of one build ID exclude each
other and successes are real, and that debuginfo for a running process is uploaded in the end, under
either build ID (`HasDebuginfo`), if steps return or
time out (weak fairness) and the semaphore serves in order (strong fairness of `Acquire`).

### StackWalk, MurmurHash2 — `bpf/cpu/cpu.bpf.c`, `hash.h`

`profile_cpu` and `walk_user_stacktrace_impl`. A program has its CPU and its entry of `heap` to
itself, but the maps it reads are written by the agent meanwhile: every lookup is a step of its
own (`ProfileCpu`, `FindMapping`, `FindChunk`, `WalkFrame`, `WalkRow`, `Bottom`), and the agent
publishes chunks, persists shards, writes `process_info` and starts over between any two. What
the lookups found is kept in `run`. An iteration ends in `Continue`: the next iteration, a tail
call, or a stack that is cut. A task is a situation it can be interrupted in: registers, readable
memory and, for the properties, its true frames; `MCStackWalk` builds them from call chains as a
compiler would lay them out. Addresses wrap at `Word`. A generation is one of the times the agent
starts its tables over; walks that met two of them are marked `stale` and excepted. `WriteProcessInfo`
writes mappings of the generation the agent is in, with different executable IDs; a call that a reset
cuts in two, and IDs that are used again, are the subject of UnwindShards.

`walk` takes one sample of one CPU and one thread, of any of fifteen stacks: frame pointers,
frames without, PLT entries, a library that is loaded late, JITed code, unsupported rules, stacks
deeper than the bounds, a task in the kernel. The state of the CPU starts with the tail calls, the
length and the JIT mark that an earlier walk may have left, which stands for earlier samples. It
checks that what is recorded is the innermost part of the real stack (`RecordedIsStack`), that it
is the whole stack when the maps cover it (`WholeStackRecorded`), and that only stacks that are
too deep count as truncated. `TypeOK` says that no program writes past the array. There are 4
addresses, 3 iterations to a program and 2 tail calls, so that a program can end in the middle of
a stack, and the array can be full before the iterations are used up. What the walk does and the
properties allow for: the outermost frame is not recorded, unless JITed code returns to it, so a
stack of one frame more than the array holds is still whole; and when `set_initial_state` fails,
`profile_cpu` goes on with the registers of the CPU's last sample (`cpu.bpf.c:1064`; `stale`).
`MurmurHash2` is the hash of the code, on words of four bytes; the fold over its input is bounded
by the array. StackWalk takes it as a constant (`StackHash`), and the configurations give it. Its arithmetic
matters to `StackIdNamesStack` only (`StackWalk_ids`); the properties of `walk` and the proofs hold for any hash.

The module ends its model with what it assumes of the constants, and TLC evaluates that on every run:
enough iterations and tail calls for the array, none of the programs ending with the array just full or
with one frame to go (`ProgramsAssumption`: 127 and 128 are not multiples of 7), shards written up to
the end of a chunk, mappings that tell JITed from compiled code, and rows that are right for the frames whose
program counters lead to them (`UnwindInfoAssumption`, `IsRightRow`). A frame that no row leads on
from, or a word that cannot be read, is allowed anywhere.

### FindOffset, RowLookup — `find_offset_for_pc`

`FindOffset` is the binary search, one iteration a step, over a shard whose rows may be
overwritten between any two iterations, one row at a time. `RowLookup` is what it promises: the
answer is the last row of the chunk at or below the program counter, or none, if the shard was
left alone, and otherwise some row of the chunk or none. `find_offset` checks all chunks of all
shards of 7 rows: `FindOffset` implements `RowLookup` (`ImplementsLookup`, the answer being
`result`) and never returns a row outside the chunk or an error code (`AnswersInChunk`). Two
program counters are enough, since a row only matters by whether it is above the one looked up.
Depth 4 is just enough for 7 rows, the case in which a last iteration is needed to find the range
empty; the code asserts less than it needs (`2^depth` rows instead of `2^(depth - 1) - 1`), but its
values satisfy both (`SearchAssumption`).

### EventLoop, ProcessInfo — `pkg/profiler/cpu/cpu.go`, `pkg/process/info.go`

`ProcessInfo` is `InfoManager`: each step of a call is one access to the cache, to
`fetchInProgress` or `uploadInprogress`, to procfs, or an answer of the debuginfo manager.
`EventLoop` composes it with the events of the BPF program, `listenEvents`, the batcher and its
callback, and the profiling loop, which has the information of a process, or not, and then writes the
profile, drops it or fails (`WriteProfile`). The perf buffer holds `MaxEvents` and loses the rest. The
allocator is abstracted to where the rows of a process are (`rows`); `Added` has every outcome of
`addUnwindTableForProcess`, failures and resets included. `events` checks two kinds of behaviour
(`Modes`): requests for mappings with fetches, uploads and the loop, for one process; and requests
for unwind information and refreshes, for two. The two meet in the listener only, which a request
for mappings does not keep: it starts a goroutine (one at a time in the run, next to the loop).
The buffer holds one event. Files vanish or cannot be opened whenever they are opened, and every call
of the debuginfo manager and every write may fail, any number of times. It checks that the in-progress marks
exclude (`OneAtATime`), that every process handed to the batcher gets its turn, with a call of
`PersistUnwindTable` after it (whatever the two return), and that the listener always returns. A process that
runs and is sampled, from some time on without errors of the world (`OpenFails`, `WriteFails`), has its
profiles written again and again (`ProfilesAreWritten`): neither a mark that was left nor another
fetch keeps its information away for ever, whatever failed before. Uploads for a process that is asked for
again and again are tried again and again (`UploadsKeepBeingTried`), whether they fail or not. Fairness is weak: goroutines that can go on do, the timer fires, the
debuginfo manager answers (its calls have deadlines). Nothing is assumed of samples, ends and
faults beyond the premises of these two properties.

### Discovery, LabelManager — `pkg/discovery`, `pkg/metadata`, `pkg/config`

`Discovery` takes a systemd unit from the poll to the labels of a process: `unitsUpdate` and the
calls for main PIDs, which may fail; the updater; the throttled sender, which offers without
waiting; and `ServiceDiscoveryProvider.Run`. `LabelManager` is `LabelSet` and `Fetch` with their two
caches, and `ConfigReloader`. A label set is what service discovery said and the configuration it
was relabelled with. `MCMetadata` checks both in one run, each behaviour being about one half:
`LabelManager` lets service discovery change at any time, so it includes whatever the other half
does. `labels` (a unit, two PIDs, a failed call; two configurations and a file that does not parse;
one request at a time) checks that what the manager stored arrives, that a stopped unit loses its
labels, that the last configuration is applied, and that answers catch up with both. Fairness is
weak: tickers tick, file events arrive, cache entries expire some time after they were written,
goroutines go on. The file is written in place: `watchFile` acts on write events only, so that a file
that is renamed over it goes unnoticed, which is not modelled. With two requests at a time the state space is out of reach for liveness.

### Type invariants

Every module with state has one. Those of UnwindShards, EventLoop, ObjectFilePool, ProcessTree and
DebuginfoUpload, and of StackWalk, are proved, those of FindOffset and ProfileListener are part of the proved
`SearchInv` and `Inv1`, and those of StackWalk and DebuginfoUpload, which bound an array and count
tokens, are checked by runs. The others (StackAggregation, BatchWriter, Discovery, LabelManager) hold on
the instances of their runs too, but the runs leave them out: they say nothing about the code that the
other properties do not.

## Where code and documentation disagree

Each module ends with statements of the repository that its code does not live up to, quoted
with their place. `unwind_ids` is a run, with a finding in `PROJECT.json`. The others are violated
under the configurations below. TLC stops at the first violation, so that a configuration with
several shows one of them at a time, the others being left out; the properties of ProfileListener and
BatchWriter take the place of those in the configuration of the run:

| Configuration | Property | What TLC shows |
| --- | --- | --- |
| `UnwindShards_docs` | `MappingsFindOwnTableAfterReset` | a reset in the middle of a call leaves `process_info` with executable IDs from before it (`maps.go:820`) |
| `UnwindShards_docs` | `ResetsApart` | the counter of rounds is zeroed only if a reset was awaited, so two resets can follow each other at once (`maps.go:814`) |
| `UnwindShards_docs` | `PersistedOnceDone` | a refresh publishes chunks of an in-flight shard that nobody persists (`maps.go:558`) |
| `StackAggregation_docs` | `ZeroNeverRead` | a round reads the zero that is inserted before the increment (`cpu.bpf.c:660`, `cpu.go:834`) |
| `StackAggregation_docs` | `PurgedWasRead` | ticks between the read of a key and its purge are purged unread (`cpu.go:853`) |
| `StackAggregation_docs` | `SharedHashIsRefused` | a stack that shares the hash of one that was there first and has been purged since is reported for that one's count (`cpu.bpf.c:640`) |
| `StackAggregation_docs` | `KeysReadOnce` | a reset deletes the key that the round's iterator stands on, and keys are read twice (`maps.go:856`) |
| `StackWalk_docs` | `FirstJitFrameRecorded` | a JITed frame that compiled code returns to is left out: only the first frame of a stack is taken from the program counter (`cpu.bpf.c:711`) |
| `StackWalk_ids` | `StackIdNamesStack` | the hash covers a quarter of the addresses, as it is given a number of words for one of bytes (`cpu.bpf.c:629`, `hash.h:20`) |
| `StackWalk_docs` | `UncoveredAsksForRefresh` | the search stops one past `len` with another error than "not found", and no refresh is asked for (`cpu.bpf.c:433`, `1089`) |
| `EventLoop_docs` | `FetchPopulatesCache` | `Fetch` returns without an error while another fetch is in progress, and `Info` fails (`info.go:241`) |
| `EventLoop_docs` | `FetchedOnce` | a fetch that missed the cache before the end of another does everything again (`info.go:197`) |
| `Metadata_docs` | `RunningGetsLabels` | with `MaxDBusFaults = 0`, a unit that restarts between two polls keeps its substate, and its new main PID is never asked for (`systemd.go:134`); with `MainPIDs = {1}`, a failed call for the main PID is not repeated, as the unit counts as seen (`systemd.go:146`) |
| `Metadata_docs` | `CachedUnderConfig` | labels of the old configuration are cached after `ApplyConfig` has emptied the cache (`labels/manager.go:219`) |
| `Metadata_docs` | `DiscoveryIsNotCached` | labels of service discovery are cached with those of the next provider, for sixty rounds (`labels/manager.go:149`) |
| `ProfileListener_queries` | `QueriesEnd` | under `FairListenerSpec`, a query that is ending and the profiling loop wait for each other (`matching_profile_listener.go:118`) |
| `BatchWriter_batches` | `OneSeriesPerLabelSet` | labels in another order start a second series (`batch_remote_write_client.go:156`) |
| `ProcessTree_docs` | `AnswersAreAncestors` | the fast path follows cached parents that are no longer parents (`tree.go:157`) |
| `ProcessTree_docs` | `TerminatedAreCleanedUp` | a process that ends inside `updateTree` leaves a nil map, and the next slow query panics (`tree.go:130`) |
| `ProcessTree_docs` | `WalksEnd` | entries of different ages form a cycle that the walk never leaves (`tree.go:268`) |
| `ObjectFilePool_docs` | `HeldFilesAreOpen` | a copy is in use while the finalizer of the original closes the file (`pool.go:268`) |
| `ObjectFilePool_docs` | `OpenReadsStayOpen` | `close` lets the mutex go before the descriptor is closed: a copy that is locked in between is read while it closes (`pool.go:264`) |
| `ObjectFilePool_docs` | `ReadsReturn` | `Reader` inside `ELF`, as in extraction, waits for a finalizer that waits for it (`manager.go:346`) |
| `DebuginfoUpload_docs` | `FallsBackToExtract` | a separate file that cannot be opened makes the upload panic; with `MaxFailures = 0` and `MaxExits = 1`, because its path was found for a process that has ended (`manager.go:259`) |
| `DebuginfoUpload_docs` | `UploadsExclusive` | after a failed upload a late waiter forgets the flight of its successor (`manager.go:418`) |
| `DebuginfoUpload_docs` | `SuccessMeansUploaded` | an error of the second `ShouldInitiateUpload` is taken for a no (`manager.go:431`) |
| `DebuginfoUpload_docs` | `BinariesStayHere` | the pool returns the source for the stripped file, which has its build ID (`manager.go:364`) |
| `DebuginfoUpload_docs` | `ExtractedOnce` | `DebugFile` is set on a copy that nobody sees again (`manager.go:194`) |

## Proofs

`UnwindShardsProofs` proves, for all processes, executables, tables, sizes of maps and
numbers of rounds:

* `TypeCorrect`: the type invariant;
* `InFlightIndexesHold`: no panic of `assertInvariants` or `persistUnwindTable` is reached;
* `ChunksLocateRowsHold`: a published chunk leads to the rows it was made for.

The assumptions are those of the module: sizes are natural numbers (a shard has at least one
row), and no function has more rows than a shard, every function ending in a marker
(`TablesAssumption`). `InFlightIndexes` is not inductive: that there is room while a table is
split follows from the stronger `IndexInv`, in which the in-flight shard has room whenever no
reset is awaited, except between filling it and allocating the next. For the chunks, `RowInv`
also covers the chunks of the table being split and says that no chunk is in a shard after the
in-flight one: rows that `unwind_tables` still holds there from before a reset are never
referred to. The proof has one lemma per kind of change: nothing but later rows change
(`GoodStable`), the shard is persisted (`PersistKeeps`), rows are appended (`AppendKeeps`,
`AppendedGood`).

Its second half goes on from there, under the same assumptions:

* `ChunksCoverTableHolds`: what is published for an executable covers its table without gaps or
  overlaps, and to its end unless there are too many chunks;
* `MappingsFindOwnTableHolds`: a mapping in `process_info` leads to its own executable or to none;
* `CacheMatchesProcessInfoHolds`: `process_info` was written from the mappings that are cached.

The first needs the chunks that are not published yet (`SplitInv`: they cover the first `done` rows
of the table being split). In the second, an executable ID is registered long before the table is
published under it, so `OwnInv` says who may have the next ID: only the executable being split, or
anyone once nothing is published any more until the next reset (`Pending`). The third follows a call
through its mappings (`ProgressInv`: the entry under construction was written from those that are
done). `ChunksCoverTable` holds even if a reset hits a call half-way, which the proof brought to
light: the property used to except that case.

`CpuMapsProofs` is about two readers of maps that change meanwhile. It proves, for all CPUs, samples,
hashes and sizes of maps (`StacksAssumption`):

* `StacksWereSampledHolds`: a round reports only stacks that go back to a tick in that process, each
  half lost or a stack with the ID of that tick's.

The trace maps are purged and filled again while a round goes from a key to its stacks and on to its count.
The invariant therefore follows the keys: those in `stack_counts`, on the CPUs and in the reader are keys of
ticks, and the trace maps have sampled stacks under their own IDs only. The iteration needs that a map with
keys has a first one, in the order of the model (`LeastKey`), which is where pids and tids being numbers
comes in.

And, for every table, chunk, program counter, and any depth that is enough for a shard
(`SearchAssumption`), with the agent rewriting rows between any two iterations:

* `SearchStaysInChunk`: the search never leaves the chunk nor reaches its bound;
* `SearchImplementsLookup`: every step of `FindOffset` is a step of `RowLookup` or a stutter.

`AnswersInChunk` becomes inductive with `WindowInv` (rows left of the window are at or below the
program counter, those right of it above, as long as the chunk was not rewritten) and with the
window's width, which every iteration halves (`DepthInv`).

`StackWalkProofs` proves, for any number of CPUs and threads, all stacks and unwind information and all
limits that meet the assumptions of StackWalk, and any hash:

* `WalksRecordStacks`: `RecordedIsStack`;
* `WalksTruncateDeepStacks`: `TruncatedOnlyWhenDeep`;
* `StackTypeCorrect`: the type invariant.

The properties speak of walks that have ended; `StackInv` says of one under way that it stands at a
frame `f` of its stack (`IsAt`): the registers are those of `f`, or, past a JITed frame, those with the address before the return address;
the list has the addresses of the frames to be found up to there (`RecordedTo`); and the iterations that it has done
are at most `f`, which is what makes the tail calls suffice. `HasFound` adds that what the
lookups have answered so far is of the frame: a mapping of one of the layouts of a generation, a chunk that
has the program counter, and rows of the same generation. A shard that is being filled has all the rows of a
chunk or none (`Written`), so that a search of rows not yet written ends the walk or answers what it
will answer later (`RowIsRight`). Steps of the agent change no walk (`MapsInv`); a step of a program is proved by what it
does to the CPU's own entries (`Moves`). That the list is the innermost part of the stack is said by
naming the frame of each entry (`Lists`): the frames to be found before it are those of the entries before it.

`HandlerProofs` is about two components whose state goroutines of the agent share. It proves, for all
processes, files, goroutines and sizes of the perf buffer:

* `TypeCorrect`: the type invariant;
* `FetchesAndUploadsAreApart`: `OneAtATime`.

`OneAtATime` alone is not inductive: a caller that waits for uploads after a cache hit holds no
mark in `fetchInProgress`, and must not go on to the part of `Fetch` that deletes one. `IInv` adds
where a call that hit the cache may be (`MissedCache`) and, for the types, that nothing is left to
add outside the callback (`RestIsAdded`). The assumptions are those of ProcessInfo and EventLoop:
sizes are natural numbers, `Loop` is no fetcher, there is a process, and mappings are build IDs.
The lemmas are about one caller that moves: within the marked region, out of it with the mark
deleted, or outside it; each step of `Fetch` and `Info` is one of the three.

`DeliveryProofs` is about the two ways a profile leaves the agent, ProfileListener and BatchWriter.
It proves, for all queries, profiles and matchers (`ListenerAssumption`):

* `ObserversAreOpenHolds`: the loop never sends on a channel that its query has closed;
* `AnswerIsNextMatchHolds`: a query gets the first match since it began;
* `NoMatchMissedHolds`: no match passes a waiting query by.

Queries stop waiting while the loop walks along the list, and their observers stay in it until the
mutex is free. The invariant about those that go on waiting (`Waiting`) says that the only match a waiting query can have met since it began
is the profile being shown, and that the query's observer is then at or after the loop's place in the
list. `WithoutEffect` says what a removal does to the places of the others.

and, for all label sets and any number of writes and attempts (`BatchAssumption`):

* `EachProfileOnceHolds`: every profile is in exactly one place, and there once;
* `SeriesInOrderHolds`: the store gets a series in order, apart from repetitions;
* `StoredUnderItsLabelsHolds`: profiles are stored under their labels.

None is inductive. `PlaceInv` orders the places by age: what is settled is older than what is sent,
and that is older than what is collected. `StoreInv` says what a retry depends on: the store's content
is older than the batch, or an earlier attempt has brought the whole batch already. `MergeEffect` is
the lemma about `WriteRaw`, which appends to a series or starts one.

Of ObjectFilePool it proves, for every finite set of users and all paths and files (`PoolAssumption`):

* `ReadsStaySoundHolds`: a read that began before the finalizer got the mutex ends on an open descriptor;
* `PoolTypeCorrect`: the types, and that the mutex of a file counts its readers;
* `OriginalsAreOpenHolds`: who holds an original, rather than a copy, holds an open file.

The descriptor is closed by a step that does not look at the mutex, so that the first is not inductive:
`SoundInv` says that such a read keeps the finalizer at the mutex, in the step before. A finalizer leaves the
mutex when it counts no reader, so `CountInv` says that the count is the number of readers, users that read
inside a read counted twice. That there are finitely many users is what counting needs.

`DebuginfoUploadProofs` proves, for every finite set of tasks, all build IDs and any limits
(`UploadAssumption`):

* `TypeCorrect`: the types, and that no path through an upload leaks a token;
* `CacheIsTrueHolds`: what the cache has, the store has;
* `HealthyUploadsHold`: without failures, uploads of one build ID exclude each other and successes
  are real.

Token conservation is inductive together with the types (`TokenInv`), by lemmas that say which steps
enter and leave the part in which a token is held, for any number of tokens. For the cache, the store never loses what it has
(`ServerKept`). The third needs which task a flight belongs to: a task that uploads is the one its
flight names, under the build ID that it goes by, and who waits for a flight waits for that of a task
that is still running it (`Healthy`, `FlightInv`); after a failure `Forget` makes that false, and with it
the property.

`ProcessTreeProofs` proves, for all PIDs, cgroups, processes at the start, queries and bounds
(`TreeAssumption`: every process but init has a parent that runs, and a nil map is no map):

* `TreeHoldsFacts`: `EntriesWereTrue`, so that no entry mixes two processes that had one PID;
* `TreeTypeCorrect`: the types;

and `AncestorProofs`, which goes on from there:

* `QueriesAnswerAncestors`: `AnswersFollowFacts`, on the fast and on the slow path.

What a query or an update has read reaches the tree much later, so `FactInv` covers what they hold:
the entry that a query found, every process on its way up, and the map that `updateTree` fills were
all true at some time, and `WayInv` says that each process on the way up is the parent of the one before
it. The exact answers are stated in terms of sets because the prover cannot follow a
recursive walk: `StillInv` says that, as long as nothing that was read has become false, a query's path goes from
parent to parent (`PathUp`), each process on it being an ancestor of all before it, and that the tree
is closed under parents and up to date. Then a walk that has come to the top has met every ancestor
(`PathIsAbove`, because the path is a set that has the parents of its members), and what is picked
from it, in that order, is the answer (`WholeAnswer`). A process that starts meanwhile takes nothing
from anybody's ancestors (`ForkStill`), and neither does the end of one that no query has come by
(`ExitStill`): the ancestors of a process that was read do not include it. That the tree is closed
under parents is what the fast path rests on: `Remember` writes the whole path, and never a part.

What is only model-checked: all liveness, which is out of the prover's reach; `WholeStackRecorded` of
StackWalk, which says in effect that a walk gets to its end; `NothingCountedTwice` and `RoundsAreComplete` of
StackAggregation, which compare sums over the slots of a map and of what was counted, sums being folds
about which the prover knows nothing without induction; and Discovery and LabelManager, whose
properties are liveness.

## Not modelled, and why

`PROJECT.json` has the reason for every part. They are of three kinds.

* Conversions of data by one goroutine: symbols, pprof conversion, mapping arithmetic, call-frame
  instructions and compact unwind tables, ELF files. Definitions for them would be as long as the
  code, and the caches among them (kernel symbols, perf maps) serve the profiling loop alone.
  Places to look at if they are taken up: a reload that fails after its hash was stored
  (`ksym.go:85`) and locations indexed by address alone (`pprof.go:274`).
* Thin layers over something external: container runtimes, the Kubernetes informer, the D-Bus wire
  format, BPF loading, flags and wiring.
* Generated code: `bpf/vmlinux.h` is the kernel's types.

Within the modelled parts: discovery providers are never replaced (`ApplyConfig` is called once,
`main.go:526`), caches lose entries by age and not by size, and statistics and logs are
left out.

