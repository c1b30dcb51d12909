------------------------------ MODULE StackWalk ------------------------------
(***************************************************************************)
(* The BPF programs of bpf/cpu/cpu.bpf.c: profile_cpu, which the timer of a  *)
(* CPU fires on the task it interrupts, and walk_user_stacktrace_impl, which *)
(* walks that task's user stack frame by frame with the unwind information   *)
(* of the agent, in bounded loops chained by tail calls.                     *)
(*                                                                         *)
(* A program runs to its end on its CPU and the CPU's entry of the heap map  *)
(* is its own, but the maps the agent fills (process_info,                   *)
(* unwind_info_chunks, unwind_tables) are read anew for every frame, and the *)
(* agent changes them meanwhile: every lookup is a step of its own.  What    *)
(* the agent does between its writes is in UnwindShards; how the counts are   *)
(* drained is in StackAggregation; the search of the rows is in FindOffset    *)
(* (here it is its result).                                                  *)
(*                                                                         *)
(* A stack is a situation that a task can be interrupted in: its registers,   *)
(* the words of its memory that can be read and, for the properties only, its *)
(* true frames.  Addresses count bytes and wrap at Word.  A generation is one  *)
(* of the times the agent starts its unwind tables over: executables, chunks  *)
(* and rows are then numbered anew.                                           *)
(***************************************************************************)
EXTENDS Integers, Sequences, FiniteSets, Functions

CONSTANTS
    Cpus,
    Threads,                  \* kernel PIDs: what bpf_get_current_pid_tgid holds in its low half
    Tgid,                     \* the process of each thread
    Stacks,                   \* a list of the situations a task can be interrupted in
    Layouts,                  \* [generation][n]: process_info_t after the process mapped code n times
    Chunks,                   \* [generation][executable]: its chunks
    Tables,                   \* [generation][shard]: its rows
    MaxStackDepth,            \* MAX_STACK_DEPTH
    MaxStackDepthPerProgram,  \* MAX_STACK_DEPTH_PER_PROGRAM
    MaxTailCalls,             \* MAX_TAIL_CALLS
    MaxMappingsPerProcess,    \* MAX_MAPPINGS_PER_PROCESS
    MaxStackTraces,           \* MAX_STACK_TRACES_ENTRIES
    MixedStackEnabled,        \* the values of unwinder_config.mixed_stack_enabled to consider
    RegistersReadable,        \* the outcomes of retrieve_task_registers to consider
    Word,                     \* one past the largest address
    StackHash(_),             \* MurmurHash2 of the addresses, as add_stack calls it
    MaxSamples                \* bound of the model

Executables == DOMAIN Chunks[1]
Shards == DOMAIN Tables[1]
Generations == DOMAIN Tables

VARIABLES
    heap,                 \* per CPU: unwind_state_t
    run,                  \* per CPU: what the program under way is at, or how the last one ended
    process_info,         \* BPF map: by thread, which of the Layouts: <<generation, n>>
    unwind_info_chunks,   \* BPF map: the executables whose chunks are in it
    unwind_tables,        \* BPF map: by shard, which rows it holds: <<generation, how many>>
    dwarf_stack_traces,   \* BPF map: the stacks walked here, by hash
    stack_counts,         \* BPF map: the keys counted (the counts are in StackAggregation)
    generation,           \* of what the agent writes
    clearing,             \* the agent has cleared process_info and goes on to clear the rest
    loaded,               \* how often the process has mapped code
    samples,              \* how many there were
    mixed_stack_enabled   \* unwinder_config.mixed_stack_enabled

maps == <<process_info, unwind_info_chunks, unwind_tables>>
aggregates == <<dwarf_stack_traces, stack_counts>>
environment == <<generation, clearing, loaded, samples, mixed_stack_enabled>>
vars == <<heap, run, maps, aggregates, environment>>

(***************************************************************************)
(* State.                                                                  *)
(***************************************************************************)
NoChunk == [low_pc |-> 0, high_pc |-> 0, shard_index |-> 0, low_index |-> 0, high_index |-> 0]

\* find_unwind_table_return.
Finds == {"SUCCESS", "MAPPING_SHOULD_NEVER_HAPPEN", "MAPPING_EXHAUSTED_SEARCH",
          "MAPPING_NOT_FOUND", "CHUNK_NOT_FOUND", "JITTED", "SPECIAL"}

Counters == {"success_dwarf", "error_truncated", "error_unsupported_expression",
             "error_unsupported_frame_pointer_action", "error_unsupported_cfa_register",
             "error_catchall", "error_should_never_happen", "error_pc_not_covered", "error_jit"}

Idle(c) == run[c].at = "idle"

\* The addresses collected so far, without the rest of the array.
Collected(h) == SubSeq(h.addresses, 1, h.len)

Add(address, n) == (address + n) % Word

\* The stack that the program on CPU c walks.
Stack(c) == Stacks[run[c].stack]

Readable(c, address) == address \in DOMAIN Stack(c).memory
Read(c, address) == Stack(c).memory[address]

\* The process_info_t of a thread.
Info(t) == Layouts[process_info[t][1]][process_info[t][2]]

\* A function with one more or another value at k.
Put(f, k, v) == [x \in DOMAIN f \cup {k} |-> IF x = k THEN v ELSE f[x]]

\* The first of a set of places, if there is one.
First(K) == {k \in K : \A j \in K : k <= j}

\* The program on CPU c returns, having bumped a counter (or "none") and sent events.
End(c, counter, events) ==
    run' = [run EXCEPT ![c] = [run[c] EXCEPT !.at = "idle", !.walking = FALSE, !.i = 0,
                               !.find = "SUCCESS", !.exe = 0, !.offset = 0, !.generation = 0,
                               !.chunk = NoChunk, !.rows = <<0, 0>>,
                               !.counter = counter, !.events = events]]

\* The program on CPU c goes on at another point.
Goto(c, at) == run' = [run EXCEPT ![c].at = at]

\* request_unwind_information, request_refresh_process_info: both send the thread's ID.
Ask(c, what) == {<<what, run[c].thread>>}

(***************************************************************************)
(* profile_cpu, up to the walk.                                            *)
(***************************************************************************)
\* has_fp: whether following frame pointers from bp ends in a zero, with two frames at least.
\* The value at k is the frame pointer after k reads, or -1 once a read has failed.
HasFp(memory, bp) ==
    LET fp[k \in 0..MaxStackDepth] ==
          IF k = 0 THEN bp
          ELSE IF fp[k - 1] \in DOMAIN memory THEN memory[fp[k - 1]] ELSE -1
        ends == {k \in 1..MaxStackDepth : fp[k] = 0}
    IN ends # {} /\ \A k \in ends : k > 1

\* For the properties only: everything the walk of stack s of thread t needs is in the maps.
Covered(t, s) ==
    /\ t \in DOMAIN process_info /\ process_info[t][2] >= s.layout
    /\ \A m \in Range(Info(t).mappings) : m.type = 0 =>
          /\ m.executable \in unwind_info_chunks
          /\ \A chunk \in Range(Chunks[generation][m.executable]) :
                /\ chunk.shard_index \in DOMAIN unwind_tables
                /\ unwind_tables[chunk.shard_index][1] = generation
                /\ unwind_tables[chunk.shard_index][2] >= chunk.high_index

\* Mutant: set_initial_state leaves tail_calls as the last walk left it.
InitialStateKeepingTailCalls(h, regs) ==
    [h EXCEPT !.len = 0, !.unwinding_jit = FALSE,
              !.ip = regs.ip, !.sp = regs.sp, !.bp = regs.bp]

\* set_initial_state: the addresses of the last stack stay in the array.
InitialState(h, regs) ==
    [h EXCEPT !.len = 0, !.tail_calls = 0, !.unwinding_jit = FALSE,
              !.ip = regs.ip, !.sp = regs.sp, !.bp = regs.bp]

\* The timer interrupts a task with a user stack.  Tasks without one (the idle task,
\* kernel threads) and tasks of processes that are filtered out are left alone.  Of a task
\* that is in the kernel the user registers are looked up; when that fails
\* set_initial_state returns false, which profile_cpu does not look at: the registers stay
\* those of the CPU's last sample.
Sample(c, t, k) == LET s == Stacks[k] IN
    /\ Idle(c) /\ samples < MaxSamples
    /\ \A d \in Cpus : ~Idle(d) => run[d].thread # t
    /\ s.layout <= loaded
    /\ \E known \in IF s.in_kernel THEN RegistersReadable ELSE {TRUE} :
          LET regs == IF known THEN s.regs
                      ELSE [ip |-> heap[c].ip, sp |-> heap[c].sp, bp |-> heap[c].bp]
          IN /\ heap' = [heap EXCEPT ![c] = InitialState(heap[c], regs)]
             /\ run' = [run EXCEPT ![c] =
                   [at |-> IF HasFp(s.memory, regs.bp) THEN "add_stack_fp" ELSE "profile",
                    thread |-> t, stack |-> k, walking |-> FALSE, i |-> 0,
                    find |-> "SUCCESS", exe |-> 0, offset |-> 0, generation |-> 0,
                    chunk |-> NoChunk, rows |-> <<0, 0>>, covered |-> Covered(t, s), stale |-> ~known,
                    counter |-> "none", events |-> {}]]
    /\ samples' = samples + 1
    /\ UNCHANGED <<maps, aggregates, generation, clearing, loaded, mixed_stack_enabled>>

\* add_stack, once the user stack has an ID: the kernel stack, the count, the request for
\* mappings.  Looking up a stack that the kernel walks can fail, and then nothing is counted or
\* asked for; when stack_counts is full nothing is counted.
AddStack(c, counter, user_stack_id, user_stack_id_dwarf) ==
    LET t == run[c].thread
    IN \/ End(c, counter, {}) /\ UNCHANGED stack_counts
       \/ /\ End(c, counter, {<<"mappings", Tgid[t]>>})
          /\ \E added \in {{}, {[pid |-> Tgid[t], tgid |-> t, user_stack_id |-> user_stack_id,
                                user_stack_id_dwarf |-> user_stack_id_dwarf]}} :
                stack_counts' = stack_counts \cup added

\* add_stack of a stack that the kernel walks by its frame pointers.
AddStackFp(c) ==
    /\ run[c].at = "add_stack_fp"
    /\ AddStack(c, "none", Stack(c).frames, <<>>)
    /\ UNCHANGED <<heap, maps, dwarf_stack_traces, environment>>

\* Without process information there is nothing to walk with: the agent is asked for it.
ProfileCpu(c) ==
    /\ run[c].at = "profile"
    /\ IF run[c].thread \in DOMAIN process_info THEN Goto(c, "mapping")
                                               ELSE End(c, "none", Ask(c, "unwind"))
    /\ UNCHANGED <<heap, maps, aggregates, environment>>

\* What profile_cpu makes of the mapping and the chunk of the program counter.
ProfileDecides(c) ==
    /\ run[c].at = "use" /\ ~run[c].walking
    /\ LET t == run[c].thread
           Walk == run' = [run EXCEPT ![c].at = "mapping", ![c].walking = TRUE]
       IN \/ run[c].chunk # NoChunk /\ Walk
          \/ run[c].chunk = NoChunk /\ t \notin DOMAIN process_info /\ End(c, "none", {})
          \/ /\ run[c].chunk = NoChunk /\ t \in DOMAIN process_info
             /\ CASE run[c].find = "MAPPING_NOT_FOUND" ->
                       End(c, "error_pc_not_covered", Ask(c, "refresh"))
                  [] run[c].find = "JITTED" ->
                       IF mixed_stack_enabled THEN Walk ELSE End(c, "error_jit", {})
                  [] OTHER ->
                       IF Info(t).is_jit_compiler
                       THEN End(c, "error_jit", Ask(c, "refresh")) ELSE Walk
    /\ UNCHANGED <<heap, maps, aggregates, environment>>

(***************************************************************************)
(* find_unwind_table.                                                      *)
(***************************************************************************)
\* The entries of a process_info_t after its mappings are zero, and its loop reads one of
\* them.
Entry(info, k) ==
    IF k <= Len(info.mappings) THEN info.mappings[k]
    ELSE [begin |-> 0, end |-> 0, load_address |-> 0, executable |-> 0, type |-> 0]

\* The places that its loop looks at, and the first one that has an address, if any.
Searched(info) == IF info.len + 1 < MaxMappingsPerProcess THEN info.len + 1 ELSE MaxMappingsPerProcess
MappingsAt(info, ip) ==
    First({k \in 1..Searched(info) : Entry(info, k).begin <= ip /\ ip <= Entry(info, k).end})

\* The mapping loop.
FindMapping(c) ==
    /\ run[c].at = "mapping"
    /\ LET t == run[c].thread
           info == Info(t)
           hits == MappingsAt(info, heap[c].ip)
       IN \/ /\ t \notin DOMAIN process_info
             /\ run' = [run EXCEPT ![c].at = "use", ![c].find = "MAPPING_SHOULD_NEVER_HAPPEN",
                                   ![c].chunk = NoChunk]
          \/ /\ t \in DOMAIN process_info /\ hits = {}
             /\ run' = [run EXCEPT ![c].at = "use", ![c].chunk = NoChunk, ![c].find =
                          IF Searched(info) < MaxMappingsPerProcess THEN "MAPPING_EXHAUSTED_SEARCH"
                                                                    ELSE "MAPPING_NOT_FOUND"]
          \/ /\ t \in DOMAIN process_info
             /\ \E k \in hits :
                   LET hit == Entry(info, k)
                   IN run' = [run EXCEPT ![c].at = IF hit.type = 0 THEN "chunk" ELSE "use",
                                ![c].offset = hit.load_address,
                                ![c].generation = process_info[t][1],
                                ![c].exe = hit.executable, ![c].chunk = NoChunk,
                                ![c].find = IF hit.type = 0 THEN "CHUNK_NOT_FOUND"
                                            ELSE IF hit.type = 1 THEN "JITTED" ELSE "SPECIAL"]
    /\ UNCHANGED <<heap, maps, aggregates, environment>>

\* The first chunk of an executable that has a program counter, if any.
ChunksAt(g, e, pc) ==
    First({k \in DOMAIN Chunks[g][e] : Chunks[g][e][k].low_pc <= pc /\ pc <= Chunks[g][e][k].high_pc})

\* The chunk loop.
FindChunk(c) ==
    /\ run[c].at = "chunk"
    /\ LET e == run[c].exe
           hits == IF e \in unwind_info_chunks
                   THEN ChunksAt(generation, e, heap[c].ip - run[c].offset) ELSE {}
       IN \/ /\ hits = {}
             /\ run' = [run EXCEPT ![c].at = "use", ![c].find = "CHUNK_NOT_FOUND"]
          \/ \E k \in hits :
                run' = [run EXCEPT ![c].at = "use", ![c].find = "SUCCESS",
                          ![c].stale = run[c].stale \/ run[c].generation # generation,
                          ![c].generation = generation,
                          ![c].chunk = Chunks[generation][e][k]]
    /\ UNCHANGED <<heap, maps, aggregates, environment>>

(***************************************************************************)
(* walk_user_stacktrace_impl.                                              *)
(***************************************************************************)
\* Mutant: the bound of the array is not looked at.
PushUnbounded(h, address) ==
    [h EXCEPT !.addresses = [k \in DOMAIN @ \cup {h.len + 1} |->
                                IF k = h.len + 1 THEN address ELSE @[k]],
              !.len = @ + 1]

\* An address is added while there is room for it.
Push(h, address) ==
    IF h.len < MaxStackDepth
    THEN [h EXCEPT !.addresses[h.len + 1] = address, !.len = @ + 1]
    ELSE h

\* The end of an iteration that leaves state h: the next iteration, the next program by a
\* tail call (which does not return), or too many of both.
Continue(c, h) ==
    \/ /\ run[c].i + 1 < MaxStackDepthPerProgram
       /\ heap' = [heap EXCEPT ![c] = h]
       /\ run' = [run EXCEPT ![c].at = "mapping", ![c].i = run[c].i + 1]
    \/ /\ run[c].i + 1 = MaxStackDepthPerProgram
       /\ h.len < MaxStackDepth /\ h.tail_calls < MaxTailCalls
       /\ heap' = [heap EXCEPT ![c] = [h EXCEPT !.tail_calls = h.tail_calls + 1]]
       /\ run' = [run EXCEPT ![c].at = "mapping", ![c].i = 0]
    \/ /\ run[c].i + 1 = MaxStackDepthPerProgram
       /\ h.len >= MaxStackDepth \/ h.tail_calls >= MaxTailCalls
       /\ heap' = [heap EXCEPT ![c] = h]
       /\ End(c, "error_truncated", {})

\* The program ends within an iteration that leaves state h.
Stop(c, h, counter, events) ==
    /\ heap' = [heap EXCEPT ![c] = h]
    /\ End(c, counter, events)

\* Mutant: the stack pointer is not moved past a JITed frame.
JitCallerKeepingSp(h, next_fp, ra) ==
    Push([h EXCEPT !.bp = next_fp, !.ip = Add(ra, -1)], ra)

\* The caller of a JITed frame, by its frame pointer.
JitCaller(h, next_fp, ra) ==
    Push([h EXCEPT !.sp = Add(h.bp, 16), !.bp = next_fp, !.ip = Add(ra, -1)], ra)

\* A frame of code that is compiled at run time, by its frame pointer.  The first address
\* of a stack is the program counter itself; from then on a frame adds the address it
\* returns to.
JitFrame(c) ==
    LET h == [heap[c] EXCEPT !.unwinding_jit = TRUE]
        next_fp == Read(c, h.bp)
        ra == Read(c, Add(h.bp, 8))
    IN IF ~mixed_stack_enabled THEN Stop(c, heap[c], "none", {})
       ELSE IF h.len = 0 THEN Continue(c, Push(h, h.ip))
       ELSE IF ~Readable(c, h.bp) \/ ~Readable(c, Add(h.bp, 8)) \/ next_fp = 0
       THEN Stop(c, h, "none", {})
       ELSE Continue(c, JitCaller(h, next_fp, ra))

\* The stack pointer before the call, from the CFA rule of a row, where it has one that
\* is supported.  The rules for the two shapes of PLT entries depend on how
\* far into the 16-byte entry the program counter is.
PreviousSp(regs, row) ==
    CASE row.cfa_type = "RBP" -> Add(regs.bp, row.cfa_offset)
      [] row.cfa_type = "RSP" -> Add(regs.sp, row.cfa_offset)
      [] row.cfa_type = "PLT1" -> Add(regs.sp, IF regs.ip % 16 >= 11 THEN 16 ELSE 8)
      [] row.cfa_type = "PLT2" -> Add(regs.sp, IF regs.ip % 16 >= 10 THEN 16 ELSE 8)
      [] OTHER -> 0

\* The return address below a stack pointer, or 0.
PreviousIp(memory, sp) == IF Add(sp, -8) \in DOMAIN memory THEN memory[Add(sp, -8)] ELSE 0

\* The frame pointer before the call, if it can be read.
PreviousBp(memory, regs, row) ==
    IF row.rbp_type = "UNCHANGED" THEN {regs.bp}
    ELSE {memory[a] : a \in {Add(PreviousSp(regs, row), row.rbp_offset)} \cap DOMAIN memory}

\* A row that leads on, and one that the stack ends at.
Supported(row) == /\ row.rbp_type \in {"UNCHANGED", "OFFSET"}
                  /\ row.cfa_type \in {"RBP", "RSP", "PLT1", "PLT2"}
EndsStack(row) == \/ row.cfa_type = "END_OF_FDE_MARKER"
                  \/ row.rbp_type = "UNDEFINED_RETURN_ADDRESS"

\* Mutant: the frame that a JITed frame returns to is added once more.
AddFrameAgain(h) == [Push(h, h.ip) EXCEPT !.unwinding_jit = FALSE]

\* The frame of the program counter is added, unless a JITed frame has added it.
AddFrame(h) == [IF h.unwinding_jit THEN h ELSE Push(h, h.ip) EXCEPT !.unwinding_jit = FALSE]

\* A frame of compiled code, by a row of the unwind table.
TableFrame(c, row) ==
    LET h == AddFrame(heap[c])
        memory == Stack(c).memory
        previous_rsp == PreviousSp(h, row)
        previous_rip == PreviousIp(memory, previous_rsp)
        previous_rbp == PreviousBp(memory, h, row)
        none == ~Supported(row) \/ previous_rsp = 0 \/ previous_rip = 0 \/ previous_rbp = {}
        t == run[c].thread
    IN \/ /\ ~none
          /\ \E bp \in previous_rbp :
                Continue(c, [h EXCEPT !.ip = previous_rip, !.sp = previous_rsp, !.bp = bp])
       \/ /\ none
          /\ Stop(c, h,
                  IF row.rbp_type \in {"REGISTER", "EXPRESSION"}
                  THEN "error_unsupported_frame_pointer_action"
                  ELSE IF row.cfa_type = "EXPRESSION" THEN "error_unsupported_expression"
                  ELSE IF row.cfa_type = "UNKNOWN" THEN "error_unsupported_cfa_register"
                  ELSE IF previous_rsp = 0 \/ previous_rip # 0 THEN "error_catchall"
                  ELSE IF t \notin DOMAIN process_info THEN "none"
                  ELSE IF Info(t).is_jit_compiler THEN "error_jit" ELSE "error_catchall", {})

\* The rows of a shard: those written, and zeroes up to its size.
RowOf(table, written, k) ==
    IF k <= written THEN table[k]
    ELSE [pc |-> 0, cfa_type |-> "UNKNOWN", cfa_offset |-> 0,
          rbp_type |-> "UNCHANGED", rbp_offset |-> 0]

\* The rows of a chunk that find_offset_for_pc may answer with, as RowLookup has it: the last
\* row at or below the program counter when the rows are in order, and any row when they are
\* not (they are of two generations).
Answers(table, written, chunk, pc) ==
    LET row(k) == RowOf(table, written, k)
        rows == (chunk.low_index + 1)..chunk.high_index
        below == {k \in rows : row(k).pc <= pc}
    IN IF \A j, k \in rows : j <= k => row(j).pc <= row(k).pc
       THEN {k \in below : \A j \in below : j <= k} ELSE rows

\* What an iteration makes of the mapping and the chunk of the program counter.
WalkFrame(c) ==
    /\ run[c].at = "use" /\ run[c].walking
    /\ CASE run[c].find = "JITTED" -> JitFrame(c)
         [] run[c].find = "SPECIAL" -> Stop(c, heap[c], "none", {})
         [] run[c].find = "MAPPING_NOT_FOUND" -> Stop(c, heap[c], "none", Ask(c, "refresh"))
         [] run[c].find \notin {"SUCCESS", "JITTED", "SPECIAL", "MAPPING_NOT_FOUND"} ->
              Goto(c, "bottom") /\ UNCHANGED heap
         [] run[c].find = "SUCCESS" ->
              IF run[c].chunk.shard_index \notin DOMAIN unwind_tables
              THEN Stop(c, heap[c], "none", {})
              ELSE LET rows == unwind_tables[run[c].chunk.shard_index]
                   IN /\ run' = [run EXCEPT ![c].at = "row", ![c].rows = rows,
                                   ![c].stale = run[c].stale \/ rows[1] # run[c].generation]
                      /\ UNCHANGED heap
    /\ UNCHANGED <<maps, aggregates, environment>>

\* The search of the shard, and the frame by the row that it finds.
WalkRow(c) ==
    /\ run[c].at = "row"
    /\ LET written == run[c].rows[2]
           table == Tables[run[c].rows[1]][run[c].chunk.shard_index]
           answers == Answers(table, written, run[c].chunk, heap[c].ip - run[c].offset)
       IN \/ answers = {} /\ Stop(c, heap[c], "none", {})
          \/ \E k \in answers :
                IF EndsStack(RowOf(table, written, k)) THEN Goto(c, "bottom") /\ UNCHANGED heap
                ELSE TableFrame(c, RowOf(table, written, k))
    /\ UNCHANGED <<maps, aggregates, environment>>

\* The program counter is in code without unwind information: the stack ends here when the
\* frame pointer is zero, and otherwise the process is likely to have mapped new code.
\* An entry that dwarf_stack_traces has no room for is lost, and its key is counted all the
\* same.
Bottom(c) ==
    /\ run[c].at = "bottom"
    /\ LET t == run[c].thread
           h == heap[c]
           id == StackHash(h.addresses)
       IN \/ /\ h.bp = 0
             /\ dwarf_stack_traces' =
                   IF id \in DOMAIN dwarf_stack_traces
                      \/ Cardinality(DOMAIN dwarf_stack_traces) < MaxStackTraces
                   THEN Put(dwarf_stack_traces, id, [addresses |-> h.addresses, len |-> h.len])
                   ELSE dwarf_stack_traces
             /\ AddStack(c, "success_dwarf", <<>>, id)
          \/ /\ h.bp # 0
             /\ IF t \notin DOMAIN process_info THEN End(c, "none", {})
                ELSE IF Info(t).is_jit_compiler THEN End(c, "error_jit", {})
                ELSE End(c, "error_pc_not_covered", Ask(c, "refresh"))
             /\ UNCHANGED aggregates
    /\ UNCHANGED <<heap, maps, environment>>

(***************************************************************************)
(* What the constants are: sizes, situations and unwind information.       *)
(***************************************************************************)
Address == 0..(Word - 1)

\* The code asserts enough iterations "to traverse the whole stack".
ASSUME SizesAssumption ==
    /\ MaxStackDepth \in Nat \ {0} /\ MaxStackDepthPerProgram \in Nat \ {0} /\ MaxTailCalls \in Nat
    /\ MaxTailCalls * MaxStackDepthPerProgram >= MaxStackDepth
    /\ MaxMappingsPerProcess \in Nat /\ Word \in Nat \ {0} /\ MaxSamples \in Nat

\* No program ends with the array just full, or with one frame more to go: 127 and 128 are
\* not multiples of 7.
ASSUME ProgramsAssumption ==
    \A n \in 1..(MaxTailCalls + 1) :
        n * MaxStackDepthPerProgram \notin {MaxStackDepth, MaxStackDepth + 1}

\* Registers, words of memory and frames have addresses, and the registers are the first
\* frame's.
IsSituation(s) ==
    /\ \A a \in DOMAIN s.memory : s.memory[a] \in Address
    /\ Len(s.frames) \in Nat \ {0} /\ DOMAIN s.frames = 1..Len(s.frames)
    /\ \A k \in 1..Len(s.frames) :
          s.frames[k].address \in Address /\ s.frames[k].sp \in Address /\ s.frames[k].bp \in Address
    /\ s.regs = [ip |-> s.frames[1].address, sp |-> s.frames[1].sp, bp |-> s.frames[1].bp]

\* A JITed frame has a caller, and keeps a frame pointer: the caller's frame pointer and the
\* return address are where it points.
JitFramesAreRight(s) ==
    \A k \in 1..Len(s.frames) : s.frames[k].kind = "jit" =>
        /\ k < Len(s.frames)
        /\ LET bp == s.frames[k].bp
               caller == s.frames[k + 1]
           IN (bp \in DOMAIN s.memory /\ Add(bp, 8) \in DOMAIN s.memory /\ s.memory[bp] # 0)
              => caller.bp = s.memory[bp] /\ caller.address = s.memory[Add(bp, 8)]
                 /\ caller.sp = Add(bp, 16)

ASSUME StacksAssumption ==
    /\ Threads # {} /\ DOMAIN Stacks # {}
    /\ \A k \in DOMAIN Stacks : IsSituation(Stacks[k]) /\ JitFramesAreRight(Stacks[k])

ASSUME LayoutsAssumption ==
    /\ 1 \in DOMAIN Layouts[1]
    /\ \A g \in Generations :
          /\ DOMAIN Layouts[g] = DOMAIN Layouts[1]
          /\ \A n \in DOMAIN Layouts[g] :
                /\ Layouts[g][n].len \in Nat /\ Len(Layouts[g][n].mappings) \in Nat
                /\ \A k \in 1..Len(Layouts[g][n].mappings) :
                      /\ Layouts[g][n].mappings[k].executable \in Nat
                      /\ Layouts[g][n].mappings[k].load_address \in Nat

\* Chunks are in shards.  A shard is written up to the end of a chunk, and then has all the
\* rows of another chunk or none.
ChunkInfo == [low_pc : Nat, high_pc : Nat, shard_index : Nat, low_index : Nat, high_index : Nat]
ChunksOf(g) == UNION {Range(Chunks[g][e]) : e \in Executables}

ASSUME TablesAssumption ==
    /\ Generations \subseteq Nat /\ 1 \in Generations
    /\ \A g \in Generations :
          /\ \A shard \in Shards : Len(Tables[g][shard]) \in Nat
          /\ \A shard \in Shards : \A k \in 1..Len(Tables[g][shard]) :
                Tables[g][shard][k].cfa_offset \in Int /\ Tables[g][shard][k].rbp_offset \in Int
          /\ \A chunk, other \in ChunksOf(g) :
                /\ chunk \in ChunkInfo /\ chunk.shard_index \in Shards
                /\ chunk.high_index <= Len(Tables[g][chunk.shard_index])
                /\ other.shard_index = chunk.shard_index =>
                      other.high_index <= chunk.low_index \/ chunk.high_index <= other.high_index

\* The program counters that frame k is looked up with: a walk goes on from a JITed frame with
\* the address before the one it returns to.
LookedUp(s, k) ==
    {s.frames[k].address} \cup
    (IF k > 1 /\ s.frames[k - 1].kind = "jit" THEN {Add(s.frames[k].address, -1)} ELSE {})

\* What a row says of frame k, if it is supported and there is a return address, is the caller.
IsRightRow(s, k, ip, row) ==
    LET here == [ip |-> ip, sp |-> s.frames[k].sp, bp |-> s.frames[k].bp]
        sp == PreviousSp(here, row)
        ra == PreviousIp(s.memory, sp)
    IN (~EndsStack(row) /\ Supported(row) /\ sp # 0 /\ ra # 0)
       => /\ k < Len(s.frames) /\ s.frames[k + 1].sp = sp /\ s.frames[k + 1].address = ra
          /\ \A bp \in PreviousBp(s.memory, here, row) : s.frames[k + 1].bp = bp

\* Mappings tell JITed code from compiled code, and the rows of a shard that is written are
\* right for the frames whose program counters lead to them.
ASSUME UnwindInfoAssumption ==
    \A x \in DOMAIN Stacks : \A k \in 1..Len(Stacks[x].frames) : \A ip \in LookedUp(Stacks[x], k) :
    \A g \in Generations : \A n \in DOMAIN Layouts[g] : \A m \in MappingsAt(Layouts[g][n], ip) :
        LET mapping == Entry(Layouts[g][n], m)
            pc == ip - mapping.load_address
        IN /\ mapping.type = 1 => Stacks[x].frames[k].kind = "jit"
           /\ mapping.type = 0 => Stacks[x].frames[k].kind # "jit"
           /\ mapping.type = 0 /\ mapping.executable \in Executables =>
                 \A j \in ChunksAt(g, mapping.executable, pc) :
                    LET chunk == Chunks[g][mapping.executable][j]
                        table == Tables[g][chunk.shard_index]
                    IN \A r \in Answers(table, Len(table), chunk, pc) :
                          IsRightRow(Stacks[x], k, ip, table[r])

(***************************************************************************)
(* The agent, as far as it writes the maps, and the process.               *)
(***************************************************************************)
\* What the agent's step leaves of the stacks that were covered.
KeepCovered ==
    run' = [c \in Cpus |-> [run[c] EXCEPT !.covered =
               run[c].covered /\ (Idle(c) \/ \E t \in {run[c].thread}, s \in {Stack(c)} : Covered(t, s)')]]

\* Shards are filled one after the other: all before shard are complete, and none after it
\* has been begun.
InFlight(shard) ==
    \A other \in Shards :
        LET full == <<generation, Len(Tables[generation][other])>>
        IN /\ other < shard => other \in DOMAIN unwind_tables /\ unwind_tables[other] = full
           /\ other > shard /\ other \in DOMAIN unwind_tables =>
                 unwind_tables[other][1] # generation

\* The chunks that a set of executables has in a shard.
ChunksIn(shard, executables) ==
    {chunk \in UNION {Range(Chunks[generation][e]) : e \in executables} :
        chunk.shard_index = shard}

\* setUnwindTableForMapping publishes the chunks of the next executable, after the shards that
\* it filled have been written.
PublishChunks(e) ==
    /\ ~clearing /\ e \notin unwind_info_chunks
    /\ \A d \in Executables : d < e => d \in unwind_info_chunks
    /\ \E shard \in Shards : ChunksIn(shard, {e}) # {} /\ InFlight(shard)
                             /\ \A other \in Shards : other > shard => ChunksIn(other, {e}) = {}
    /\ unwind_info_chunks' = unwind_info_chunks \cup {e}
    /\ UNCHANGED <<heap, process_info, unwind_tables, aggregates, environment>>
    /\ KeepCovered

\* persistUnwindTable writes the rows that the shard has so far, among them those of the
\* chunks that are published.
PersistShard(shard) ==
    /\ ~clearing /\ InFlight(shard)
    /\ \E n \in {chunk.high_index : chunk \in ChunksIn(shard, Executables)} :
          /\ \A chunk \in ChunksIn(shard, unwind_info_chunks) : chunk.high_index <= n
          /\ shard \in DOMAIN unwind_tables /\ unwind_tables[shard][1] = generation =>
                unwind_tables[shard][2] <= n
          /\ unwind_tables' = Put(unwind_tables, shard, <<generation, n>>)
    /\ UNCHANGED <<heap, process_info, unwind_info_chunks, aggregates, environment>>
    /\ KeepCovered

\* addUnwindTableForProcess writes the mappings it has read, once their chunks are published.
\* The process may have mapped more since.
WriteProcessInfo(t) ==
    /\ ~clearing
    /\ \E n \in 1..loaded :
          /\ \A m \in Range(Layouts[generation][n].mappings) :
                m.type = 0 => m.executable \in unwind_info_chunks
          /\ process_info' = Put(process_info, t, <<generation, n>>)
    /\ UNCHANGED <<heap, unwind_info_chunks, unwind_tables, aggregates, environment>>
    /\ KeepCovered

\* cleanProcessInfo: on its own when process_info is full, or as resetUnwindState's first step.
CleanProcessInfo ==
    /\ ~clearing
    /\ process_info' = <<>>
    /\ clearing' \in IF generation + 1 \in Generations THEN BOOLEAN ELSE {FALSE}
    /\ UNCHANGED <<heap, unwind_info_chunks, unwind_tables, aggregates, generation, loaded,
                   samples, mixed_stack_enabled>>
    /\ KeepCovered

\* The rest of resetUnwindState: cleanShardInfo and cleanStacks.  The rows stay.
CleanShardInfo ==
    /\ clearing /\ clearing' = FALSE
    /\ unwind_info_chunks' = {} /\ generation' = generation + 1
    /\ dwarf_stack_traces' = <<>> /\ stack_counts' = {}
    /\ UNCHANGED <<heap, process_info, unwind_tables, loaded, samples, mixed_stack_enabled>>
    /\ KeepCovered

\* The process maps more code.
LoadCode ==
    /\ loaded + 1 \in DOMAIN Layouts[1]
    /\ loaded' = loaded + 1
    /\ UNCHANGED <<heap, run, maps, aggregates, generation, clearing, samples,
                   mixed_stack_enabled>>

Program(c) ==
    \/ AddStackFp(c) \/ ProfileCpu(c) \/ ProfileDecides(c)
    \/ FindMapping(c) \/ FindChunk(c) \/ WalkFrame(c) \/ WalkRow(c) \/ Bottom(c)

Agent ==
    \/ \E e \in Executables : PublishChunks(e)
    \/ \E shard \in Shards : PersistShard(shard)
    \/ \E t \in Threads : WriteProcessInfo(t)
    \/ CleanProcessInfo \/ CleanShardInfo

\* The walk of some other process may have left anything in the state of a CPU.
Init ==
    /\ \E tail_calls \in {0, MaxTailCalls}, jit \in BOOLEAN, len \in {0, MaxStackDepth} :
          heap = [c \in Cpus |-> [ip |-> 0, sp |-> 0, bp |-> 0, tail_calls |-> tail_calls,
                                  unwinding_jit |-> jit, len |-> len,
                                  addresses |-> [k \in 1..MaxStackDepth |-> 0]]]
    /\ run = [c \in Cpus |->
                [at |-> "idle", thread |-> CHOOSE t \in Threads : TRUE,
                 stack |-> CHOOSE k \in DOMAIN Stacks : TRUE, walking |-> FALSE, i |-> 0,
                 find |-> "SUCCESS", exe |-> 0, offset |-> 0, generation |-> 0,
                 chunk |-> NoChunk, rows |-> <<0, 0>>, covered |-> FALSE, stale |-> FALSE,
                 counter |-> "none", events |-> {}]]
    /\ process_info = <<>> /\ unwind_info_chunks = {} /\ unwind_tables = <<>>
    /\ dwarf_stack_traces = <<>> /\ stack_counts = {}
    /\ generation = 1 /\ clearing = FALSE /\ loaded = 1 /\ samples = 0
    /\ mixed_stack_enabled \in MixedStackEnabled

Next ==
    \/ \E c \in Cpus : Program(c)
    \/ \E c \in Cpus, t \in Threads, k \in DOMAIN Stacks : Sample(c, t, k)
    \/ Agent
    \/ LoadCode

Spec == Init /\ [][Next]_vars

(***************************************************************************)
(* Properties.                                                             *)
(***************************************************************************)
\* heap holds MaxStackDepth addresses and the programs never write past them.
TypeOK ==
    /\ \A c \in Cpus :
          /\ heap[c].addresses \in [1..MaxStackDepth -> 0..(Word - 1)]
          /\ heap[c].len \in 0..MaxStackDepth /\ heap[c].tail_calls \in 0..MaxTailCalls
          /\ heap[c].ip \in 0..(Word - 1) /\ heap[c].sp \in 0..(Word - 1)
          /\ heap[c].bp \in 0..(Word - 1) /\ heap[c].unwinding_jit \in BOOLEAN
          /\ run[c].find \in Finds /\ run[c].counter \in Counters \cup {"none"}
          /\ run[c].i \in 0..(MaxStackDepthPerProgram - 1)
    /\ \A t \in DOMAIN process_info : t \in Threads /\ process_info[t][1] = generation
    /\ unwind_info_chunks \subseteq Executables /\ DOMAIN unwind_tables \subseteq Shards
    /\ generation \in Generations /\ clearing \in BOOLEAN

\* The frames of a stack that the walk is to find.  A JITed frame that was
\* called from by compiled code is not among them (see FirstJitFrameRecorded), and neither is
\* the outermost frame, unless a JITed frame returns to it.
Found(s) ==
    LET jit(k) == k > 0 /\ s.frames[k].kind = "jit"
    IN {k \in 1..Len(s.frames) : /\ jit(k) => k = 1 \/ jit(k - 1)
                                 /\ k = Len(s.frames) => jit(k - 1)}

\* The addresses collected are those of the frames at: before each of them in the stack are those
\* before it in the list, and no other that is to be found.
Lists(at, h, s) ==
    \A j \in 1..h.len :
        /\ at[j] \in Found(s) /\ h.addresses[j] = s.frames[at[j]].address
        /\ \A f \in Found(s) : f < at[j] <=> \E m \in 1..(j - 1) : at[m] = f

\* They are the innermost frames that are to be found, in order, or all of them.
IsInnermost(h, s) == \E at \in [1..h.len -> Found(s)] : Lists(at, h, s)
IsWhole(h, s) == \E at \in [1..h.len -> Found(s)] : Lists(at, h, s) /\ Range(at) = Found(s)

\* The walk on CPU c ended and recorded a stack.
Recorded(c) == Idle(c) /\ run[c].counter = "success_dwarf"

\* A stack that walk_user_stacktrace_impl records is the innermost part of the task's real
\* one, whatever the agent writes meanwhile: nothing of an earlier walk's state, no frame
\* twice, none out of order.  Excepted are walks that met rows, chunks or mappings of two
\* generations, or that started from registers that could not be read.
RecordedIsStack ==
    \A c \in Cpus : Recorded(c) /\ ~run[c].stale =>
        IsInnermost(heap[c], Stack(c))

\* The stack can be walked with rows and frame pointers: no rule is unsupported, it ends in
\* a frame without a return address and with a zero frame pointer, and JITed frames are allowed and have a caller's
\* frame pointer.
Walkable(s) ==
    LET n == Len(s.frames)
    IN /\ s.frames[n].kind = "end" /\ s.frames[n].bp = 0
       /\ \A k \in 1..(n - 1) :
             \/ s.frames[k].kind = "table"
             \/ s.frames[k].kind = "jit" /\ mixed_stack_enabled /\ s.frames[k + 1].bp # 0

\* A walkable stack of at most MAX_STACK_DEPTH frames of a process that stays covered by the
\* maps is recorded, and to its last frame: the loops, tail calls and agent's writes in
\* between lose nothing.
WholeStackRecorded ==
    \A c \in Cpus :
        LET s == Stack(c)
        IN (/\ Idle(c) /\ run[c].covered /\ ~run[c].stale
            /\ Walkable(s) /\ Len(s.frames) <= MaxStackDepth + 1
            /\ ~HasFp(s.memory, s.regs.bp))
           => Recorded(c) /\ IsWhole(heap[c], s)

\* "We couldn't get the whole stacktrace": a walk is counted as truncated only when the
\* stack has more frames than fit, never for want of tail calls.
TruncatedOnlyWhenDeep ==
    \A c \in Cpus :
        Idle(c) /\ run[c].counter = "error_truncated" /\ ~run[c].stale
        => Len(Stack(c).frames) > MaxStackDepth + 1

(***************************************************************************)
(* What the repository says and the code does not do.                      *)
(***************************************************************************)
\* "When we enter a JITed stack, the first JITed frame can be obtained from the current value
\* of pc" (cpu.bpf.c:711): a whole stack that is recorded has every JITed frame.
FirstJitFrameRecorded ==
    \A c \in Cpus : Recorded(c) /\ run[c].covered /\ ~run[c].stale =>
        LET frames == Stack(c).frames
        IN \A k \in 1..Len(frames) : frames[k].kind = "jit" /\ k <= MaxStackDepth =>
              frames[k].address \in Range(Collected(heap[c]))

\* "MAX_STACK_DEPTH * 2 = 256 (because we hash 32 bits at a time)" (hash.h:20): the ID of a
\* stack is a hash of all its addresses, so that two whole stacks that differ only further out
\* are recorded under different IDs.
StackIdNamesStack ==
    \A c, d \in Cpus :
        (/\ Recorded(c) /\ Recorded(d) /\ run[c].covered /\ run[d].covered
         /\ Collected(heap[c]) # Collected(heap[d]))
        => StackHash(heap[c].addresses) # StackHash(heap[d].addresses)

\* "IP not covered, could be a new/JIT mapping" (cpu.bpf.c:1089): the process information of a
\* process that runs in a mapping it does not have is asked for anew.
UncoveredAsksForRefresh ==
    \A c \in Cpus :
        (/\ Idle(c) /\ run[c].counter # "none" /\ ~run[c].stale
         /\ run[c].thread \in DOMAIN process_info
         /\ heap[c].len = 0
         /\ ~\E m \in Range(Info(run[c].thread).mappings) :
                m.begin <= heap[c].ip /\ heap[c].ip <= m.end)
        => <<"refresh", run[c].thread>> \in run[c].events
=============================================================================
