-------------------------- MODULE StackAggregation --------------------------
(***************************************************************************)
(* How samples become profiles: add_stack of the BPF program               *)
(* (bpf/cpu/cpu.bpf.c) counts stacks in BPF maps, and once per profiling   *)
(* round obtainRawData (pkg/profiler/cpu/cpu.go) reads the maps key by key *)
(* and then purges them (cleanStacks in pkg/profiler/cpu/maps.go).         *)
(*                                                                         *)
(* There is no lock between the two sides, and resetUnwindState purges the *)
(* same maps from another goroutine.  Every BPF helper that touches a map  *)
(* is a step, and so are the system calls of the readers, but for the two  *)
(* reads of a key's stacks and for the two calls of an iteration of a      *)
(* purge.  Keys are tuples of machine words, ordered as the kernel walks   *)
(* the hash table: any fixed order will do.                                *)
(***************************************************************************)
EXTENDS Integers, Sequences, FiniteSets, Functions, Bags

CONSTANTS
    CPUs,
    Samples,         \* [pid, tid, dwarf : BOOLEAN, user, kernel]: what a tick can find
    NoStack,         \* the kernel part of a sample taken in user space
    TraceID,         \* stack |-> its hash, which is its ID in a trace map
    Slots,           \* the preallocated elements of stack_counts
    MaxDwarfTraces,  \* elements of dwarf_stack_traces
    MaxSamples,      \* bound: ticks in a behaviour
    MaxResets,       \* bound: calls of resetUnwindState in a behaviour
    None

Stacks == {s.user : s \in Samples} \cup ({s.kernel : s \in Samples} \ {NoStack})

ASSUME StacksAssumption ==
    /\ TraceID \in [Stacks -> Nat]
    /\ NoStack \notin {s.user : s \in Samples}
    /\ \A s \in Samples : s.pid \in Nat /\ s.tid \in Nat
    /\ MaxDwarfTraces \in Nat

VARIABLES
    stackTraces,       \* BPF map stack_traces: <<ID>> |-> stack
    dwarfStackTraces,  \* BPF map dwarf_stack_traces: <<hash>> |-> stack
    stackCounts,       \* BPF map stack_counts: key |-> [slot, count]
    cpu,               \* add_stack on every CPU: [at, sample, key, slot]
    reader,            \* obtainRawData: [at, key, user, kernel]
    rawData,           \* the bag of combined stacks of this round, per process
    clean,             \* cleanStacks of the profiling loop and of resetUnwindState
    reported,          \* the bag of everything handed on in earlier rounds
    \* History.
    taken,             \* samples for which a tick fired
    ticks,
    added,             \* increments executed
    resets,
    seen,              \* key |-> the count read in this round
    due,               \* what was there to be read when this round began
    total,             \* ticks reported by the rounds that were not disturbed
    disturbed          \* resetUnwindState purged the maps during this round

traceVars == <<stackTraces, dwarfStackTraces>>
mapVars == <<traceVars, stackCounts>>
tickVars == <<taken, ticks, added>>
roundVars == <<rawData, reported, seen, due, total, disturbed>>
vars == <<mapVars, cpu, reader, clean, tickVars, resets, roundVars>>

EFAULT == -14   \* bpf_get_stackid: no kernel stack, the sample is from user space

Put(f, k, v) == [x \in DOMAIN f \cup {k} |-> IF x = k THEN v ELSE f[x]]
Delete(f, k) == Restrict(f, DOMAIN f \ {k})

Before(a, b) == \E i \in 1..Len(a) : a[i] < b[i] /\ \A j \in 1..(i - 1) : a[j] = b[j]

\* bpf_map_get_next_key: from the start again if the previous key is gone.
GetNextKey(keys, prev) ==
    LET later == IF prev \in keys THEN {k \in keys : Before(prev, k)} ELSE keys
    IN IF later = {} THEN None
       ELSE CHOOSE k \in later : \A j \in later \ {k} : Before(k, j)

NotCleaning == [map |-> 0, prev |-> None]
IdleCPU == [at |-> "idle", sample |-> None, key |-> None, slot |-> None]
Waiting == [at |-> "wait", key |-> None, user |-> NoStack, kernel |-> NoStack]

Init ==
    /\ stackTraces = <<>> /\ dwarfStackTraces = <<>>
    /\ stackCounts = <<>>
    /\ cpu = [c \in CPUs |-> IdleCPU]
    /\ reader = Waiting
    /\ clean = [a \in {"loop", "reset"} |-> NotCleaning]
    /\ rawData = EmptyBag /\ reported = EmptyBag
    /\ taken = {} /\ ticks = 0 /\ added = 0 /\ resets = 0
    /\ seen = <<>> /\ due = 0 /\ total = 0 /\ disturbed = FALSE

-----------------------------------------------------------------------------
(* add_stack. *)

\* bpf_get_stackid fails when another stack has the same ID.
Collides(stack) ==
    /\ stack # NoStack
    /\ <<TraceID[stack]>> \in DOMAIN stackTraces
    /\ stackTraces[<<TraceID[stack]>>] # stack

StackKey(s) ==
    LET kernelID == IF s.kernel = NoStack THEN EFAULT ELSE TraceID[s.kernel]
    IN IF s.dwarf THEN <<s.pid, s.tid, 0, kernelID, TraceID[s.user]>>
                  ELSE <<s.pid, s.tid, TraceID[s.user], kernelID, 0>>

\* A tick finds sample s; its user stack is stored.
AddUserStack(c, s) ==
    /\ cpu[c].at = "idle" /\ ticks < MaxSamples
    /\ ticks' = ticks + 1 /\ taken' = taken \cup {s}
    /\ \/ /\ s.dwarf
          /\ dwarfStackTraces' =
               IF /\ <<TraceID[s.user]>> \notin DOMAIN dwarfStackTraces
                  /\ Cardinality(DOMAIN dwarfStackTraces) >= MaxDwarfTraces
               THEN dwarfStackTraces
               ELSE Put(dwarfStackTraces, <<TraceID[s.user]>>, s.user)
          /\ cpu' = [cpu EXCEPT ![c] = [IdleCPU EXCEPT !.at = "kernel", !.sample = s]]
          /\ UNCHANGED stackTraces
       \/ /\ ~s.dwarf /\ ~Collides(s.user)
          /\ stackTraces' = Put(stackTraces, <<TraceID[s.user]>>, s.user)
          /\ cpu' = [cpu EXCEPT ![c] = [IdleCPU EXCEPT !.at = "kernel", !.sample = s]]
          /\ UNCHANGED dwarfStackTraces
       \/ ~s.dwarf /\ Collides(s.user) /\ UNCHANGED <<traceVars, cpu>>
    /\ UNCHANGED <<stackCounts, reader, clean, added, resets, roundVars>>

AddKernelStack(c) ==
    /\ cpu[c].at = "kernel"
    /\ LET s == cpu[c].sample IN
       \/ /\ ~Collides(s.kernel)
          /\ stackTraces' = IF s.kernel = NoStack THEN stackTraces
                            ELSE Put(stackTraces, <<TraceID[s.kernel]>>, s.kernel)
          /\ cpu' = [cpu EXCEPT ![c] = [IdleCPU EXCEPT !.at = "lookup", !.key = StackKey(s)]]
       \/ /\ Collides(s.kernel)
          /\ cpu' = [cpu EXCEPT ![c] = IdleCPU]
          /\ UNCHANGED stackTraces
    /\ UNCHANGED <<dwarfStackTraces, stackCounts, reader, clean, tickVars, resets, roundVars>>

Found(c) ==
    cpu' = [cpu EXCEPT ![c] = [IdleCPU EXCEPT !.at = "add", !.slot = stackCounts[cpu[c].key].slot]]

FreeSlots == Slots \ {stackCounts[k].slot : k \in DOMAIN stackCounts}

\* bpf_map_lookup_or_try_init, up to the insertion of a zero ...
LookupOrTryInit(c) ==
    /\ cpu[c].at = "lookup"
    /\ \/ cpu[c].key \in DOMAIN stackCounts /\ Found(c) /\ UNCHANGED stackCounts
       \/ /\ cpu[c].key \notin DOMAIN stackCounts
          /\ \E i \in FreeSlots :
                stackCounts' = Put(stackCounts, cpu[c].key, [slot |-> i, count |-> 0])
          /\ cpu' = [cpu EXCEPT ![c].at = "again"]
       \/ /\ cpu[c].key \notin DOMAIN stackCounts /\ FreeSlots = {}
          /\ cpu' = [cpu EXCEPT ![c] = IdleCPU]
          /\ UNCHANGED stackCounts
    /\ UNCHANGED <<traceVars, reader, clean, tickVars, resets, roundVars>>

\* ... and the second lookup, which a purge can come before.
LookupAgain(c) ==
    /\ cpu[c].at = "again"
    /\ \/ cpu[c].key \in DOMAIN stackCounts /\ Found(c)
       \/ cpu[c].key \notin DOMAIN stackCounts /\ cpu' = [cpu EXCEPT ![c] = IdleCPU]
    /\ UNCHANGED <<mapVars, reader, clean, tickVars, resets, roundVars>>

\* The element may meanwhile have been freed, or freed and used for another key.
Increment(c) ==
    /\ cpu[c].at = "add"
    /\ stackCounts' = [k \in DOMAIN stackCounts |->
          IF stackCounts[k].slot = cpu[c].slot THEN [stackCounts[k] EXCEPT !.count = @ + 1]
          ELSE stackCounts[k]]
    /\ added' = added + 1
    /\ cpu' = [cpu EXCEPT ![c] = IdleCPU]
    /\ UNCHANGED <<traceVars, reader, clean, taken, ticks, resets, roundVars>>

-----------------------------------------------------------------------------
(* obtainRawData. *)

\* The stack with this ID, or NoStack: ID 0 stands for a failure.
ReadStack(traces, id) ==
    IF id # 0 /\ <<id>> \in DOMAIN traces THEN traces[<<id>>] ELSE NoStack

UserStackOf(key) ==
    IF key[5] # 0 THEN ReadStack(dwarfStackTraces, key[5]) ELSE ReadStack(stackTraces, key[3])

\* Mutant: readKernelStack is given the ID of the user stack.
KernelStackByUserID(key) == ReadStack(stackTraces, key[3])

KernelStackOf(key) == ReadStack(stackTraces, key[4])

Readable(key) == UserStackOf(key) # NoStack \/ KernelStackOf(key) # NoStack

StartRound ==
    /\ reader.at = "wait"
    /\ reader' = [Waiting EXCEPT !.at = "next"]
    /\ rawData' = EmptyBag /\ seen' = <<>>
    /\ due' = SumFunctionOnSet([k \in DOMAIN stackCounts |-> stackCounts[k].count],
                               {k \in DOMAIN stackCounts : Readable(k)})
    /\ disturbed' = (clean["reset"].map # 0)
    /\ UNCHANGED <<mapVars, cpu, clean, tickVars, resets, reported, total>>

\* The iterator's next key; after the last one finalizeProfileLoop purges the maps.
ReadKey ==
    /\ reader.at = "next"
    /\ LET k == GetNextKey(DOMAIN stackCounts, reader.key) IN
       \/ /\ k # None
          /\ reader' = [Waiting EXCEPT !.at = "stacks", !.key = k]
          /\ UNCHANGED clean
       \/ /\ k = None
          /\ reader' = [Waiting EXCEPT !.at = "clean"]
          /\ clean' = [clean EXCEPT !["loop"].map = 1]
    /\ UNCHANGED <<mapVars, cpu, tickVars, resets, roundVars>>

\* Mutant: a key is skipped when one of its stacks cannot be read.
ReadBothStacks ==
    /\ reader.at = "stacks"
    /\ reader' = IF UserStackOf(reader.key) # NoStack /\ KernelStackOf(reader.key) # NoStack
                 THEN [reader EXCEPT !.at = "count", !.user = UserStackOf(reader.key),
                                     !.kernel = KernelStackOf(reader.key)]
                 ELSE [reader EXCEPT !.at = "next"]
    /\ UNCHANGED <<mapVars, cpu, clean, tickVars, resets, roundVars>>

\* Both stacks of the key; one neither of which can be read is skipped.
ReadStacks ==
    /\ reader.at = "stacks"
    /\ reader' = IF Readable(reader.key)
                 THEN [reader EXCEPT !.at = "count", !.user = UserStackOf(reader.key),
                                     !.kernel = KernelStackOf(reader.key)]
                 ELSE [reader EXCEPT !.at = "next"]
    /\ UNCHANGED <<mapVars, cpu, clean, tickVars, resets, roundVars>>

CombinedStack == [pid |-> reader.key[1], user |-> reader.user, kernel |-> reader.kernel]

\* A key that is gone ends the round with an error: nothing is handed on or purged.
ReadStackCount ==
    /\ reader.at = "count"
    /\ \/ /\ reader.key \notin DOMAIN stackCounts
          /\ reader' = Waiting /\ rawData' = EmptyBag /\ seen' = <<>>
       \/ /\ reader.key \in DOMAIN stackCounts
          /\ LET n == stackCounts[reader.key].count IN
             /\ rawData' = IF n = 0 THEN rawData
                           ELSE rawData (+) [t \in {CombinedStack} |-> n]
             /\ seen' = Put(seen, reader.key, n)
          /\ reader' = [Waiting EXCEPT !.at = "next", !.key = reader.key]
    /\ UNCHANGED <<mapVars, cpu, clean, tickVars, resets, reported, due, total, disturbed>>

\* The maps are purged: preprocessRawData, and the profiles are handed on.
FinishRound ==
    /\ reader.at = "clean" /\ clean["loop"].map = 0
    /\ reader' = Waiting
    /\ reported' = reported (+) rawData
    /\ total' = IF disturbed THEN total ELSE total + BagCardinality(rawData)
    /\ rawData' = EmptyBag /\ seen' = <<>> /\ due' = 0 /\ disturbed' = FALSE
    /\ UNCHANGED <<mapVars, cpu, clean, tickVars, resets>>

-----------------------------------------------------------------------------
(* cleanStacks: clearBpfMap for each of the three maps.  A key is deleted once   *)
(* the iterator has gone on to the next one.                                     *)

\* Mutant: the counts are not purged.
CleanTracesOnly == <<"stackTraces", "dwarfStackTraces">>

CleanOrder == <<"stackTraces", "dwarfStackTraces", "stackCounts">>

KeysOf(map) == CASE map = "stackTraces" -> DOMAIN stackTraces
                 [] map = "dwarfStackTraces" -> DOMAIN dwarfStackTraces
                 [] map = "stackCounts" -> DOMAIN stackCounts

\* resetUnwindState, in the goroutine that adds unwind tables.
ResetUnwindState ==
    /\ clean["reset"].map = 0 /\ resets < MaxResets
    /\ resets' = resets + 1
    /\ clean' = [clean EXCEPT !["reset"].map = 1]
    /\ disturbed' = TRUE
    /\ UNCHANGED <<mapVars, cpu, reader, tickVars, rawData, reported, seen, due, total>>

\* Mutant: the previous key is not updated.
CleanStuck(a) ==
    /\ clean[a].map # 0
    /\ LET next == GetNextKey(KeysOf(CleanOrder[clean[a].map]), clean[a].prev)
       IN clean' = IF next # None THEN clean
                   ELSE [clean EXCEPT ![a].map = (@ + 1) % (Len(CleanOrder) + 1)]
    /\ UNCHANGED <<mapVars, cpu, reader, tickVars, resets, roundVars>>

\* An iteration of clearBpfMap; after the last one it is the turn of the next map.
CleanStep(a) ==
    /\ clean[a].map # 0
    /\ LET map == CleanOrder[clean[a].map]
           k == clean[a].prev
           next == GetNextKey(KeysOf(map), k)
       IN /\ stackTraces' = IF map = "stackTraces" THEN Delete(stackTraces, k) ELSE stackTraces
          /\ dwarfStackTraces' = IF map = "dwarfStackTraces" THEN Delete(dwarfStackTraces, k)
                                 ELSE dwarfStackTraces
          /\ stackCounts' = IF map = "stackCounts" THEN Delete(stackCounts, k) ELSE stackCounts
          /\ clean' = [clean EXCEPT ![a] =
                IF next # None THEN [map |-> clean[a].map, prev |-> next]
                ELSE [NotCleaning EXCEPT !.map = (clean[a].map + 1) % (Len(CleanOrder) + 1)]]
    /\ UNCHANGED <<cpu, reader, tickVars, resets, roundVars>>

Tick == \E c \in CPUs, s \in Samples : AddUserStack(c, s)
AddStack(c) == AddKernelStack(c) \/ LookupOrTryInit(c) \/ LookupAgain(c) \/ Increment(c)
ObtainRawData == StartRound \/ ReadKey \/ ReadStacks \/ ReadStackCount \/ FinishRound

Next ==
    \/ Tick
    \/ \E c \in CPUs : AddStack(c)
    \/ ObtainRawData
    \/ ResetUnwindState
    \/ \E a \in {"loop", "reset"} : CleanStep(a)

\* BPF programs run to their end, and both goroutines go on.
Fairness ==
    /\ \A c \in CPUs : WF_vars(AddStack(c))
    /\ WF_vars(ObtainRawData)
    /\ \A a \in {"loop", "reset"} : WF_vars(CleanStep(a))

Spec == Init /\ [][Next]_vars
FairSpec == Spec /\ Fairness

-----------------------------------------------------------------------------
(* Properties. *)

Keys == {StackKey(s) : s \in Samples}
Combined == [pid : {s.pid : s \in Samples}, user : Stacks \cup {NoStack},
             kernel : Stacks \cup {NoStack}]

\* The BPF maps and the state of the three kinds of actors are well formed.
TypeOK ==
    /\ DOMAIN stackTraces \subseteq {<<TraceID[t]>> : t \in Stacks}
    /\ DOMAIN dwarfStackTraces \subseteq {<<TraceID[t]>> : t \in Stacks}
    /\ Cardinality(DOMAIN dwarfStackTraces) <= MaxDwarfTraces
    /\ DOMAIN stackCounts \subseteq Keys
    /\ \A k \in DOMAIN stackCounts : /\ stackCounts[k] \in [slot : Slots, count : 0..MaxSamples]
                                     /\ \A j \in DOMAIN stackCounts \ {k} :
                                           stackCounts[j].slot # stackCounts[k].slot
    /\ \A c \in CPUs : cpu[c].at \in {"idle", "kernel", "lookup", "again", "add"}
    /\ reader.at \in {"wait", "next", "stacks", "count", "clean"}
    /\ \A a \in {"loop", "reset"} : clean[a].map \in 0..Len(CleanOrder)
    /\ DOMAIN rawData \subseteq Combined /\ DOMAIN reported \subseteq Combined

\* The rounds that resetUnwindState does not disturb report no tick twice, however
\* they, failed rounds and ticks during the purge interleave.
NothingCountedTwice == total <= added

\* The stacks of these samples that have the ID of this one: a trace map can have any of
\* them there, and nothing for a part that a sample does not have.
StacksOf(samples) == ({s.user : s \in samples} \cup {s.kernel : s \in samples}) \ {NoStack}
SharingID(samples, stack) ==
    {t \in StacksOf(samples) : stack # NoStack /\ TraceID[t] = TraceID[stack]}

\* What a round reports for a process goes back to one tick in that process: each half is
\* lost or a sampled stack with the ID of that tick's, under purges by two goroutines, full
\* maps, and IDs that stacks share. (If IDs are distinct it is the tick's own stack.)
StacksWereSampled ==
    \A t \in DOMAIN reported \cup DOMAIN rawData :
       /\ t.user # NoStack \/ t.kernel # NoStack
       /\ \E s \in taken : /\ s.pid = t.pid
                          /\ t.user \in SharingID(taken, s.user) \cup {NoStack}
                          /\ t.kernel \in SharingID(taken, s.kernel) \cup {NoStack}

\* A round that resetUnwindState did not disturb reports at least what was in the
\* maps, with a readable stack, when the round began.
RoundsAreComplete ==
    reader.at = "clean" /\ ~disturbed => BagCardinality(rawData) >= due

\* Counts do not stay behind in the map: every key is purged in the end.
CountsArePurged == \A k \in Keys : k \in DOMAIN stackCounts ~> k \notin DOMAIN stackCounts

-----------------------------------------------------------------------------
(* Statements of the repository that the code does not live up to. *)

\* cpu.go:834, of a count of zero: "This should never happen".
ZeroNeverRead == \A k \in DOMAIN seen : seen[k] # 0

\* cpu.bpf.c:640: "`bpf_get_stackid` returns an error if two different stacks share their
\* hash": what is reported for a tick that frame pointers were used for is its own stack.
SharedHashIsRefused ==
    \A t \in DOMAIN reported :
       \E s \in taken : s.pid = t.pid /\ (~s.dwarf => t.user \in {s.user, NoStack})

\* maps.go:151: "BPF iterators need the previous value to iterate to the next, so we
\* can only delete the "previous" item once we've already iterated to the next."  The
\* iteration of a round therefore never starts again: it reads a key at most once.
KeysReadOnce ==
    [][reader.at = "count" /\ reader'.at = "next" => reader.key \notin DOMAIN seen]_vars

\* docs/design.md:28: "The data that is read from the BPF maps gets processed and then
\* purged": what the profiling loop purges is what it has read.
PurgedWasRead ==
    [][\A k \in DOMAIN stackCounts \ DOMAIN stackCounts' :
         k = clean["loop"].prev => k \in DOMAIN seen /\ seen[k] = stackCounts[k].count]_vars
=============================================================================
