---------------------------- MODULE CpuMapsProofs ----------------------------
(***************************************************************************)
(* The two readers of the BPF maps of the CPU profiler, for every value of *)
(* the constants: the program that looks up a row of the unwind table, and *)
(* the agent that collects the stacks.                                     *)
(*                                                                         *)
(* First the rounds of StackAggregation: what a round reports was sampled. *)
(*                                                                         *)
(* Then the search of FindOffset: it returns a row of its chunk or         *)
(* DEFAULT, and implements the one-step lookup of RowLookup. The inductive *)
(* invariant is SearchInv: the rows before the window start at or before   *)
(* pc, the rows after it start later, and the window is below              *)
(* 2^(iterations left - 1).                                                *)
(***************************************************************************)
EXTENDS StackAggregation, FindOffset, WellFoundedInduction, TLAPS

-----------------------------------------------------------------------------
(* The order of keys. *)

Key == {k \in Nat \X Nat \X Nat \X Int \X Nat : k[4] >= EFAULT}

\* The kernel walks a hash table in some order: numbers have a first one.
LEMMA LeastNat ==
    ASSUME NEW S, S \subseteq Nat, S # {}
    PROVE  \E x \in S : \A y \in S : x <= y
  <1>1. \E x \in S : \A y \in S : ~(<<y, x>> \in OpToRel(<, Nat))
    BY WFMin, NatLessThanWellFounded, Zenon
  <1>2. PICK x \in S : \A y \in S : ~(<<y, x>> \in OpToRel(<, Nat))
    BY <1>1, Zenon
  <1>3. ASSUME NEW y \in S PROVE x <= y
    <2>1. OpToRel(<, Nat) = {xy \in Nat \X Nat : xy[1] < xy[2]}
      BY DEF OpToRel
    <2>2. x \in Nat /\ y \in Nat
      OBVIOUS
    <2>3. ~(y < x)
      BY <1>2, <2>1, <2>2, Zenon
    <2> QED
      BY <2>2, <2>3
  <1> QED
    BY <1>3

\* The same for the components of keys, one of which may be EFAULT.
LEMMA LeastInt ==
    ASSUME NEW S, S \subseteq Int, \A x \in S : x >= EFAULT, S # {}
    PROVE  \E x \in S : \A y \in S : x <= y
  <1> DEFINE T == {x - EFAULT : x \in S}
  <1>1. T \subseteq Nat /\ T # {}
    <2>1. \A x \in S : x - EFAULT \in Nat
      BY DEF EFAULT
    <2> QED
      BY <2>1, Zenon
  <1> HIDE DEF T
  <1>2. PICK n \in T : \A m \in T : n <= m
    BY <1>1, LeastNat, Zenon
  <1>3. PICK x \in S : n = x - EFAULT
    BY DEF T
  <1>4. ASSUME NEW y \in S PROVE x <= y
    <2>1. y - EFAULT \in T
      BY DEF T
    <2> QED
      BY <1>2, <1>3, <2>1 DEF EFAULT
  <1> QED
    BY <1>4

\* Those of a set of keys whose pos-th component is the least one.
First(K, pos) == {k \in K : \A j \in K : k[pos] <= j[pos]}

\* There are such keys, and every other one is greater in that component.
LEMMA FirstExists ==
    ASSUME NEW K, K \subseteq Key, K # {}, NEW pos \in 1..5
    PROVE  /\ First(K, pos) # {} /\ First(K, pos) \subseteq K
           /\ \A k \in First(K, pos) : \A j \in K : k[pos] < j[pos] \/ (k[pos] = j[pos] /\ j \in First(K, pos))
  <1>0. \A k \in Key : k[pos] \in Int /\ k[pos] >= EFAULT
    BY DEF Key, EFAULT
  <1> DEFINE S == {k[pos] : k \in K}
  <1>1. S \subseteq Int /\ S # {} /\ \A x \in S : x >= EFAULT
    BY <1>0
  <1>2. PICK x \in S : \A y \in S : x <= y
    BY <1>1, LeastInt, Zenon
  <1>3. PICK k \in K : x = k[pos]
    OBVIOUS
  <1>4. k \in First(K, pos)
    BY <1>2, <1>3 DEF First
  <1>5. ASSUME NEW a \in First(K, pos), NEW j \in K
        PROVE  a[pos] < j[pos] \/ (a[pos] = j[pos] /\ j \in First(K, pos))
    <2>1. a \in K /\ a[pos] \in Int /\ j[pos] \in Int /\ a[pos] <= j[pos]
      BY <1>0 DEF First
    <2>2. ASSUME a[pos] = j[pos] PROVE j \in First(K, pos)
      BY <2>2 DEF First
    <2> QED
      BY <2>1, <2>2
  <1> QED
    BY <1>4, <1>5 DEF First

\* A set of keys has a first one, at which the iteration of the map begins.
LEMMA LeastKey ==
    ASSUME NEW K, K \subseteq Key, K # {}
    PROVE  \E k \in K : \A j \in K \ {k} : Before(k, j)
  <1> DEFINE K1 == First(K, 1)
             K2 == First(K1, 2)
             K3 == First(K2, 3)
             K4 == First(K3, 4)
             K5 == First(K4, 5)
  <1>1. /\ K1 # {} /\ K1 \subseteq K
        /\ \A k \in K1 : \A j \in K : k[1] < j[1] \/ (k[1] = j[1] /\ j \in K1)
    BY FirstExists
  <1> HIDE DEF K1
  <1>2. /\ K2 # {} /\ K2 \subseteq K1
        /\ \A k \in K2 : \A j \in K1 : k[2] < j[2] \/ (k[2] = j[2] /\ j \in K2)
    BY <1>1, FirstExists
  <1> HIDE DEF K2
  <1>3. /\ K3 # {} /\ K3 \subseteq K2
        /\ \A k \in K3 : \A j \in K2 : k[3] < j[3] \/ (k[3] = j[3] /\ j \in K3)
    BY <1>1, <1>2, FirstExists
  <1> HIDE DEF K3
  <1>4. /\ K4 # {} /\ K4 \subseteq K3
        /\ \A k \in K4 : \A j \in K3 : k[4] < j[4] \/ (k[4] = j[4] /\ j \in K4)
    BY <1>1, <1>2, <1>3, FirstExists
  <1> HIDE DEF K4
  <1>5. /\ K5 # {} /\ K5 \subseteq K4
        /\ \A k \in K5 : \A j \in K4 : k[5] < j[5] \/ (k[5] = j[5] /\ j \in K5)
    BY <1>1, <1>2, <1>3, <1>4, FirstExists
  <1> HIDE DEF K5
  <1>6. PICK k \in K5 : TRUE
    BY <1>5
  <1>7. k \in K /\ k \in K1 /\ k \in K2 /\ k \in K3 /\ k \in K4
    BY <1>1, <1>2, <1>3, <1>4, <1>5
  <1>8. ASSUME NEW j \in K, j # k
        PROVE  Before(k, j)
    <2>1. Len(k) = 5 /\ k \in Key /\ j \in Key
      BY <1>7 DEF Key
    <2>2. \/ k[1] < j[1]
          \/ k[1] = j[1] /\ k[2] < j[2]
          \/ k[1] = j[1] /\ k[2] = j[2] /\ k[3] < j[3]
          \/ k[1] = j[1] /\ k[2] = j[2] /\ k[3] = j[3] /\ k[4] < j[4]
          \/ k[1] = j[1] /\ k[2] = j[2] /\ k[3] = j[3] /\ k[4] = j[4] /\ k[5] < j[5]
          \/ k[1] = j[1] /\ k[2] = j[2] /\ k[3] = j[3] /\ k[4] = j[4] /\ k[5] = j[5]
      BY <1>1, <1>2, <1>3, <1>4, <1>5, <1>6, <1>7
    <2>3. ~(k[1] = j[1] /\ k[2] = j[2] /\ k[3] = j[3] /\ k[4] = j[4] /\ k[5] = j[5])
      BY <1>8, <2>1 DEF Key
    <2>4. ASSUME NEW pos \in 1..5, k[pos] < j[pos], \A m \in 1..(pos - 1) : k[m] = j[m]
          PROVE  Before(k, j)
      BY <2>1, <2>4 DEF Before
    <2>5. CASE k[1] < j[1]
      BY <2>4, <2>5
    <2>6. CASE k[1] = j[1] /\ k[2] < j[2]
      BY <2>4, <2>6
    <2>7. CASE k[1] = j[1] /\ k[2] = j[2] /\ k[3] < j[3]
      BY <2>4, <2>7
    <2>8. CASE k[1] = j[1] /\ k[2] = j[2] /\ k[3] = j[3] /\ k[4] < j[4]
      BY <2>4, <2>8
    <2>9. CASE k[1] = j[1] /\ k[2] = j[2] /\ k[3] = j[3] /\ k[4] = j[4] /\ k[5] < j[5]
      BY <2>4, <2>9
    <2> QED
      BY <2>2, <2>3, <2>5, <2>6, <2>7, <2>8, <2>9
  <1> QED
    BY <1>7, <1>8

\* The iterator of obtainRawData returns a key of the map, or none.
LEMMA NextKeyIn ==
    ASSUME NEW K, K \subseteq Key, NEW prev, GetNextKey(K, prev) # None
    PROVE  GetNextKey(K, prev) \in K
  <1> DEFINE later == IF prev \in K THEN {k \in K : Before(prev, k)} ELSE K
  <1>1. later \subseteq K /\ later # {}
    BY DEF GetNextKey
  <1>2. \E k \in later : \A j \in later \ {k} : Before(k, j)
    BY <1>1, LeastKey, Zenon
  <1>3. GetNextKey(K, prev) = CHOOSE k \in later : \A j \in later \ {k} : Before(k, j)
    BY <1>1 DEF GetNextKey
  <1> HIDE DEF later
  <1> QED
    BY <1>1, <1>2, <1>3

-----------------------------------------------------------------------------
(* What the maps, the CPUs and the reader know was sampled. *)

USE DEF traceVars, mapVars, tickVars, roundVars

TakenKeys == {StackKey(s) : s \in taken}

\* A trace map has stacks of these samples under their own IDs.
Genuine(traces, samples) ==
    \A id \in DOMAIN traces : /\ traces[id] \in Stacks /\ traces[id] \in StacksOf(samples)
                            /\ id = <<TraceID[traces[id]]>>

CPUState == [at : {"idle", "kernel", "lookup", "again", "add"}, sample : Samples \cup {None},
             key : Keys \cup {None}, slot : Slots \cup {None}]
ReaderState == [at : {"wait", "next", "stacks", "count", "clean"}, key : Keys \cup {None},
                user : Stacks \cup {NoStack}, kernel : Stacks \cup {NoStack}]

MapInv ==
    /\ Genuine(stackTraces, taken) /\ Genuine(dwarfStackTraces, taken)
    /\ DOMAIN stackCounts \subseteq TakenKeys
    /\ \A k \in DOMAIN stackCounts : stackCounts[k] \in [slot : Slots, count : Nat]

CPUInv ==
    /\ taken \subseteq Samples
    /\ cpu \in [CPUs -> CPUState]
    /\ \A c \in CPUs : cpu[c].at = "kernel" => cpu[c].sample \in taken
    /\ \A c \in CPUs : cpu[c].at \in {"lookup", "again"} => cpu[c].key \in TakenKeys

\* The stacks have the IDs of those that one tick found in the process, if they were not lost.
FoundBy(samples, pid, user, kernel) ==
    /\ user # NoStack \/ kernel # NoStack
    /\ \E s \in samples : /\ s.pid = pid
                          /\ user \in SharingID(samples, s.user) \cup {NoStack}
                          /\ kernel \in SharingID(samples, s.kernel) \cup {NoStack}

ReaderInv ==
    /\ reader \in ReaderState
    /\ reader.at \in {"stacks", "count"} => reader.key \in TakenKeys
    /\ reader.at = "count" => FoundBy(taken, reader.key[1], reader.user, reader.kernel)

BagInv(bag) == \A t \in DOMAIN bag : FoundBy(taken, t.pid, t.user, t.kernel)

SampledInv == MapInv /\ CPUInv /\ ReaderInv /\ BagInv(rawData) /\ BagInv(reported)

\* The parts of a sample, and of its key.
LEMMA SampleParts ==
    ASSUME NEW s \in Samples
    PROVE  /\ s.user \in Stacks /\ s.user # NoStack /\ TraceID[s.user] \in Nat
           /\ s.kernel # NoStack => s.kernel \in Stacks /\ TraceID[s.kernel] \in Nat
           /\ s.pid \in Nat /\ s.tid \in Nat
  BY StacksAssumption DEF Stacks

\* The components of the stack_count_key_t of a sample.
LEMMA KeyParts ==
    ASSUME NEW s \in Samples
    PROVE  /\ StackKey(s) \in Key /\ StackKey(s) \in Keys /\ StackKey(s)[1] = s.pid
           /\ StackKey(s)[4] = IF s.kernel = NoStack THEN EFAULT ELSE TraceID[s.kernel]
           /\ StackKey(s)[3] \in {0, TraceID[s.user]} /\ StackKey(s)[5] \in {0, TraceID[s.user]}
  <1> DEFINE kernelID == IF s.kernel = NoStack THEN EFAULT ELSE TraceID[s.kernel]
  <1>1. kernelID \in Int /\ kernelID >= EFAULT
    BY SampleParts DEF EFAULT
  <1>2. StackKey(s) = IF s.dwarf THEN <<s.pid, s.tid, 0, kernelID, TraceID[s.user]>>
                                 ELSE <<s.pid, s.tid, TraceID[s.user], kernelID, 0>>
    BY DEF StackKey
  <1> HIDE DEF kernelID
  <1>3. /\ StackKey(s) \in Key /\ StackKey(s)[1] = s.pid /\ StackKey(s)[4] = kernelID
        /\ StackKey(s)[3] \in {0, TraceID[s.user]} /\ StackKey(s)[5] \in {0, TraceID[s.user]}
    <2>1. CASE s.dwarf
      BY <1>1, <1>2, <2>1, SampleParts DEF Key
    <2>2. CASE ~s.dwarf
      BY <1>1, <1>2, <2>2, SampleParts DEF Key
    <2> QED
      BY <2>1, <2>2
  <1> QED
    BY <1>3 DEF Keys, kernelID

\* A stack that is read under an ID was sampled, and has that ID.
LEMMA ReadGenuine ==
    ASSUME NEW traces, NEW samples, Genuine(traces, samples), NEW t \in Stacks, t # NoStack,
           NEW id \in {0, TraceID[t]}
    PROVE  ReadStack(traces, id) \in SharingID(samples, t) \cup {NoStack}
  <1>1. CASE id # 0 /\ <<id>> \in DOMAIN traces
    <2>1. traces[<<id>>] \in StacksOf(samples) /\ <<id>> = <<TraceID[traces[<<id>>]]>>
      BY <1>1 DEF Genuine
    <2>2. TraceID[traces[<<id>>]] = TraceID[t]
      BY <1>1, <2>1
    <2>3. traces[<<id>>] \in SharingID(samples, t)
      BY <2>1, <2>2 DEF SharingID
    <2> QED
      BY <1>1, <2>3 DEF ReadStack
  <1>2. CASE ~(id # 0 /\ <<id>> \in DOMAIN traces)
    BY <1>2 DEF ReadStack
  <1> QED
    BY <1>1, <1>2

\* What obtainRawData reads for the key of a sample has the IDs of its stacks, or is none.
LEMMA ReadOfSample ==
    ASSUME MapInv, NEW s \in Samples
    PROVE  /\ UserStackOf(StackKey(s)) \in SharingID(taken, s.user) \cup {NoStack}
           /\ KernelStackOf(StackKey(s)) \in SharingID(taken, s.kernel) \cup {NoStack}
  <1>1. UserStackOf(StackKey(s)) \in SharingID(taken, s.user) \cup {NoStack}
    BY SampleParts, KeyParts, ReadGenuine DEF UserStackOf, MapInv
  <1>2. CASE s.kernel # NoStack
    BY <1>1, <1>2, SampleParts, KeyParts, ReadGenuine DEF KernelStackOf, MapInv
  <1>3. CASE s.kernel = NoStack
    <2>1. <<EFAULT>> \notin DOMAIN stackTraces
      <3>1. SUFFICES ASSUME <<EFAULT>> \in DOMAIN stackTraces PROVE FALSE
        OBVIOUS
      <3>2. PICK t \in Stacks : <<EFAULT>> = <<TraceID[t]>>
        BY <3>1 DEF MapInv, Genuine
      <3> QED
        BY <3>2, StacksAssumption DEF EFAULT
    <2> QED
      BY <1>1, <1>3, <2>1, KeyParts DEF KernelStackOf, ReadStack
  <1> QED
    BY <1>1, <1>2, <1>3

\* More samples have more stacks.
LEMMA MoreStacks ==
    ASSUME NEW A, NEW B, A \subseteq B
    PROVE  /\ StacksOf(A) \subseteq StacksOf(B)
           /\ \A t : SharingID(A, t) \subseteq SharingID(B, t)
           /\ \A traces : Genuine(traces, A) => Genuine(traces, B)
  <1>1. StacksOf(A) \subseteq StacksOf(B)
    BY DEF StacksOf
  <1> QED
    BY <1>1, Zenon DEF SharingID, Genuine

\* What was found by a tick stays so.
LEMMA FoundKept ==
    ASSUME NEW A, NEW B, A \subseteq B, NEW pid, NEW user, NEW kernel, FoundBy(A, pid, user, kernel)
    PROVE  FoundBy(B, pid, user, kernel)
  BY MoreStacks DEF FoundBy

-----------------------------------------------------------------------------
(* The maps. *)

\* Storing a stack under its id.
LEMMA PutGenuine ==
    ASSUME NEW traces, NEW samples, Genuine(traces, samples), NEW t \in Stacks, t \in StacksOf(samples)
    PROVE  Genuine(Put(traces, <<TraceID[t]>>, t), samples)
  BY DEF Genuine, Put

\* Deleting an entry of a map of stacks.
LEMMA DeleteGenuine ==
    ASSUME NEW traces, NEW samples, Genuine(traces, samples), NEW k
    PROVE  Genuine(Delete(traces, k), samples)
  BY DEF Genuine, Delete, Restrict

\* More ticks leave the reader and what it has reported as they are.
LEMMA ReaderKept ==
    ASSUME ReaderInv, BagInv(rawData), BagInv(reported), taken \subseteq taken',
           UNCHANGED <<reader, rawData, reported>>
    PROVE  ReaderInv' /\ BagInv(rawData)' /\ BagInv(reported)'
  <1>1. TakenKeys \subseteq TakenKeys'
    BY DEF TakenKeys, StackKey
  <1>2. ReaderInv'
    BY <1>1, FoundKept DEF ReaderInv, ReaderState, Keys, StackKey, Stacks
  <1>3. BagInv(rawData)' /\ BagInv(reported)'
    BY FoundKept DEF BagInv
  <1> QED
    BY <1>2, <1>3

\* A CPU that goes on.
LEMMA CPUStep ==
    ASSUME CPUInv, taken \subseteq taken', taken' \subseteq Samples, NEW c \in CPUs, NEW r \in CPUState,
           cpu' = [cpu EXCEPT ![c] = r],
           r.at = "kernel" => r.sample \in taken',
           r.at \in {"lookup", "again"} => r.key \in TakenKeys'
    PROVE  CPUInv'
  <1>1. TakenKeys \subseteq TakenKeys'
    BY DEF TakenKeys, StackKey
  <1>2. cpu' \in [CPUs -> CPUState]
    BY DEF CPUInv
  <1>3. \A d \in CPUs : cpu'[d] = IF d = c THEN r ELSE cpu[d]
    BY DEF CPUInv
  <1> QED
    BY <1>1, <1>2, <1>3 DEF CPUInv, CPUState

\* A CPU at rest has a state of its type.
LEMMA IdleState == IdleCPU \in CPUState
  BY DEF IdleCPU, CPUState

\* profile_cpu takes a sample.
LEMMA TickStep ==
    ASSUME SampledInv, NEW c \in CPUs, NEW s \in Samples, AddUserStack(c, s)
    PROVE  SampledInv'
  <1>1. /\ taken' = taken \cup {s}
        /\ UNCHANGED <<stackCounts, reader, rawData, reported>>
    BY DEF AddUserStack
  <1>2. taken \subseteq taken' /\ taken' \subseteq Samples /\ TakenKeys \subseteq TakenKeys'
    BY <1>1 DEF SampledInv, CPUInv, TakenKeys, StackKey
  <1>3. ReaderInv' /\ BagInv(rawData)' /\ BagInv(reported)'
    BY <1>1, <1>2, ReaderKept DEF SampledInv
  <1>4. Genuine(stackTraces', taken') /\ Genuine(dwarfStackTraces', taken')
    <2>0. s.user \in Stacks /\ s.user \in StacksOf(taken')
      BY <1>1, SampleParts DEF StacksOf
    <2>1. Genuine(stackTraces, taken') /\ Genuine(dwarfStackTraces, taken')
      BY <1>2, MoreStacks DEF SampledInv, MapInv
    <2>2. /\ Genuine(Put(stackTraces, <<TraceID[s.user]>>, s.user), taken')
          /\ Genuine(Put(dwarfStackTraces, <<TraceID[s.user]>>, s.user), taken')
      BY <2>0, <2>1, PutGenuine
    <2>3. /\ stackTraces' \in {stackTraces, Put(stackTraces, <<TraceID[s.user]>>, s.user)}
          /\ dwarfStackTraces' \in {dwarfStackTraces, Put(dwarfStackTraces, <<TraceID[s.user]>>, s.user)}
      BY DEF AddUserStack
    <2> QED
      BY <2>1, <2>2, <2>3
  <1>5. MapInv'
    BY <1>1, <1>2, <1>4 DEF SampledInv, MapInv
  <1>6. CPUInv'
    <2>1. PICK r : r = [IdleCPU EXCEPT !.at = "kernel", !.sample = s]
      OBVIOUS
    <2>2. r \in CPUState /\ r.at = "kernel" /\ r.sample = s
      BY <2>1, Zenon DEF IdleCPU, CPUState
    <2>3. cpu' = cpu \/ cpu' = [cpu EXCEPT ![c] = r]
      BY <2>1 DEF AddUserStack
    <2>4. CASE cpu' = cpu
      BY <1>2, <2>4 DEF SampledInv, CPUInv
    <2>5. CASE cpu' = [cpu EXCEPT ![c] = r]
      BY <1>1, <1>2, <2>2, <2>5, CPUStep, Zenon DEF SampledInv
    <2> QED
      BY <2>3, <2>4, <2>5
  <1> QED
    BY <1>3, <1>5, <1>6 DEF SampledInv

\* add_stack goes on: the kernel's stack, the two lookups and the increment.
LEMMA AddStep ==
    ASSUME SampledInv, NEW c \in CPUs, AddStack(c)
    PROVE  SampledInv'
  <1>1. UNCHANGED <<taken, reader, rawData, reported, dwarfStackTraces>> /\ TakenKeys' = TakenKeys
    BY Zenon DEF AddStack, AddKernelStack, LookupOrTryInit, LookupAgain, Increment, TakenKeys, StackKey
  <1>2. ReaderInv' /\ BagInv(rawData)' /\ BagInv(reported)'
    BY <1>1, ReaderKept DEF SampledInv
  <1>3. cpu[c] \in CPUState /\ taken \subseteq Samples /\ taken' \subseteq Samples
    BY <1>1 DEF SampledInv, CPUInv
  <1>4. ASSUME cpu' = [cpu EXCEPT ![c] = IdleCPU] PROVE CPUInv'
    BY <1>1, <1>3, <1>4, IdleState, CPUStep, Zenon DEF SampledInv, IdleCPU
  <1>5. ASSUME Found(c), cpu[c].key \in DOMAIN stackCounts PROVE CPUInv'
    <2>1. PICK r : r = [IdleCPU EXCEPT !.at = "add", !.slot = stackCounts[cpu[c].key].slot]
      OBVIOUS
    <2>2. r \in CPUState /\ r.at = "add"
      BY <1>5, <2>1, Zenon DEF IdleCPU, CPUState, SampledInv, MapInv
    <2> QED
      BY <1>1, <1>3, <1>5, <2>1, <2>2, CPUStep, Zenon DEF SampledInv, Found
  <1>6. CASE AddKernelStack(c)
    <2>1. PICK s \in taken : s = cpu[c].sample
      BY <1>6 DEF AddKernelStack, SampledInv, CPUInv
    <2>2. UNCHANGED stackCounts
      BY <1>6 DEF AddKernelStack
    <2>3. Genuine(stackTraces', taken)
      <3>0. s.kernel # NoStack => s.kernel \in Stacks /\ s.kernel \in StacksOf(taken)
        BY <1>3, SampleParts DEF StacksOf
      <3>1. s.kernel # NoStack => Genuine(Put(stackTraces, <<TraceID[s.kernel]>>, s.kernel), taken)
        BY <3>0, PutGenuine DEF SampledInv, MapInv
      <3> QED
        BY <1>6, <2>1, <3>1 DEF AddKernelStack, SampledInv, MapInv
    <2>4. MapInv'
      BY <1>1, <2>2, <2>3 DEF SampledInv, MapInv
    <2>5. CASE cpu' = [cpu EXCEPT ![c] = [IdleCPU EXCEPT !.at = "lookup", !.key = StackKey(s)]]
      <3>1. PICK r : r = [IdleCPU EXCEPT !.at = "lookup", !.key = StackKey(s)]
        OBVIOUS
      <3>2. r \in CPUState /\ r.at = "lookup" /\ r.key \in TakenKeys'
        BY <1>1, <1>3, <3>1, KeyParts, Zenon DEF IdleCPU, CPUState, TakenKeys
      <3>3. CPUInv'
        BY <1>1, <1>3, <2>5, <3>1, <3>2, CPUStep, Zenon DEF SampledInv
      <3> QED
        BY <1>2, <2>4, <3>3 DEF SampledInv
    <2> QED
      BY <1>2, <1>4, <1>6, <2>1, <2>4, <2>5 DEF AddKernelStack, SampledInv
  <1>7. CASE LookupOrTryInit(c)
    <2>1. UNCHANGED stackTraces /\ cpu[c].key \in TakenKeys
      BY <1>7 DEF LookupOrTryInit, SampledInv, CPUInv
    <2>2. MapInv'
      <3>1. CASE UNCHANGED stackCounts
        BY <1>1, <2>1, <3>1 DEF SampledInv, MapInv
      <3>2. ASSUME NEW e \in FreeSlots, stackCounts' = Put(stackCounts, cpu[c].key, [slot |-> e, count |-> 0])
            PROVE  MapInv'
        BY <1>1, <2>1, <3>2 DEF SampledInv, MapInv, Put, FreeSlots
      <3> QED
        BY <1>7, <3>1, <3>2, Zenon DEF LookupOrTryInit
    <2>3. CASE cpu' = [cpu EXCEPT ![c].at = "again"]
      <3>1. PICK r : r = [cpu[c] EXCEPT !.at = "again"]
        BY Zenon
      <3>2. r \in CPUState /\ r.at = "again" /\ r.key \in TakenKeys'
        BY <1>1, <1>3, <2>1, <3>1 DEF CPUState
      <3>3. cpu' = [cpu EXCEPT ![c] = r]
        BY <2>3, <3>1
      <3>4. CPUInv'
        BY <1>1, <1>3, <3>2, <3>3, CPUStep, Zenon DEF SampledInv
      <3> QED
        BY <1>2, <2>2, <3>4 DEF SampledInv
    <2> QED
      BY <1>2, <1>4, <1>5, <1>7, <2>2, <2>3 DEF LookupOrTryInit, SampledInv
  <1>8. CASE LookupAgain(c)
    <2>1. MapInv'
      BY <1>1, <1>8 DEF LookupAgain, SampledInv, MapInv
    <2> QED
      BY <1>2, <1>4, <1>5, <1>8, <2>1 DEF LookupAgain, SampledInv
  <1>9. CASE Increment(c)
    <2>1. MapInv'
      BY <1>1, <1>9 DEF Increment, SampledInv, MapInv
    <2> QED
      BY <1>2, <1>4, <1>9, <2>1 DEF Increment, SampledInv
  <1> QED
    BY <1>6, <1>7, <1>8, <1>9 DEF AddStack

-----------------------------------------------------------------------------
(* The profiling loop. *)

\* The kernel has the maps and the CPUs to itself while the loop only reads.
LEMMA MapsKept ==
    ASSUME MapInv, CPUInv, UNCHANGED <<mapVars, cpu, tickVars>>
    PROVE  MapInv' /\ CPUInv' /\ TakenKeys' = TakenKeys /\ taken' = taken
  <1>1. TakenKeys' = TakenKeys /\ taken' = taken
    BY DEF TakenKeys, StackKey
  <1> QED
    BY <1>1 DEF MapInv, CPUInv

\* Bags hold what was put in.
LEMMA BagDomains ==
    /\ DOMAIN EmptyBag = {}
    /\ \A A, B : DOMAIN (A (+) B) = DOMAIN A \cup DOMAIN B
  BY DEF EmptyBag, SetToBag, (+)

\* One step of obtainRawData.
LEMMA RoundStep ==
    ASSUME SampledInv, ObtainRawData
    PROVE  SampledInv'
  <1>0. UNCHANGED <<mapVars, cpu, tickVars>>
    BY DEF ObtainRawData, StartRound, ReadKey, ReadStacks, ReadStackCount, FinishRound
  <1>1. MapInv' /\ CPUInv' /\ TakenKeys' = TakenKeys /\ taken' = taken
    BY <1>0, MapsKept DEF SampledInv
  <1>2. TakenKeys \subseteq Keys /\ TakenKeys \subseteq Key
    BY KeyParts DEF TakenKeys, SampledInv, CPUInv
  <1>3. Waiting \in ReaderState
    BY DEF Waiting, ReaderState
  <1>4. CASE StartRound
    <2>1. ReaderInv'
      BY <1>3, <1>4 DEF StartRound, ReaderInv, Waiting, ReaderState
    <2>2. BagInv(rawData)' /\ BagInv(reported)'
      BY <1>1, <1>4, BagDomains DEF StartRound, SampledInv, BagInv
    <2> QED
      BY <1>1, <2>1, <2>2 DEF SampledInv
  <1>5. CASE ReadKey
    <2>1. PICK k : k = GetNextKey(DOMAIN stackCounts, reader.key)
      OBVIOUS
    <2>2. k # None => k \in TakenKeys
      BY <1>2, <2>1, NextKeyIn DEF SampledInv, MapInv
    <2>3. ReaderInv'
      BY <1>1, <1>2, <1>5, <2>1, <2>2, Zenon DEF ReadKey, ReaderInv, Waiting, ReaderState
    <2>4. BagInv(rawData)' /\ BagInv(reported)'
      BY <1>1, <1>5 DEF ReadKey, SampledInv, BagInv
    <2> QED
      BY <1>1, <2>3, <2>4 DEF SampledInv
  <1>6. CASE ReadStacks
    <2>1. reader \in ReaderState /\ reader.at = "stacks"
      BY <1>6 DEF ReadStacks, SampledInv, ReaderInv
    <2>2. PICK s \in taken : reader.key = StackKey(s)
      BY <2>1 DEF SampledInv, ReaderInv, TakenKeys
    <2>3. s \in Samples
      BY DEF SampledInv, CPUInv
    <2>4. /\ UserStackOf(reader.key) \in SharingID(taken, s.user) \cup {NoStack}
          /\ KernelStackOf(reader.key) \in SharingID(taken, s.kernel) \cup {NoStack}
          /\ reader.key[1] = s.pid
      BY <2>2, <2>3, ReadOfSample, KeyParts DEF SampledInv
    <2>5. /\ UserStackOf(reader.key) \in Stacks \cup {NoStack}
          /\ KernelStackOf(reader.key) \in Stacks \cup {NoStack}
      <3>1. StacksOf(taken) \subseteq Stacks
        BY DEF SampledInv, CPUInv, StacksOf, Stacks
      <3> QED
        BY <2>4, <3>1 DEF SharingID
    <2>6. Readable(reader.key) => FoundBy(taken, reader.key[1], UserStackOf(reader.key), KernelStackOf(reader.key))
      BY <2>4 DEF Readable, FoundBy
    <2>7. ReaderInv'
      <3>1. CASE Readable(reader.key)
        <4>1. reader' = [reader EXCEPT !.at = "count", !.user = UserStackOf(reader.key),
                                       !.kernel = KernelStackOf(reader.key)]
          BY <1>6, <3>1 DEF ReadStacks
        <4>2. /\ reader' \in ReaderState /\ reader'.at = "count" /\ reader'.key = reader.key
              /\ reader'.user = UserStackOf(reader.key) /\ reader'.kernel = KernelStackOf(reader.key)
          BY <2>1, <2>5, <4>1, Zenon DEF ReaderState
        <4>3. reader'.key \in TakenKeys'
          BY <1>1, <2>1, <4>2 DEF SampledInv, ReaderInv
        <4> QED
          BY <1>1, <2>6, <3>1, <4>2, <4>3 DEF ReaderInv
      <3>2. CASE ~Readable(reader.key)
        <4>1. reader' = [reader EXCEPT !.at = "next"]
          BY <1>6, <3>2 DEF ReadStacks
        <4> QED
          BY <2>1, <4>1 DEF ReaderInv, ReaderState
      <3> QED
        BY <3>1, <3>2
    <2>8. BagInv(rawData)' /\ BagInv(reported)'
      BY <1>1, <1>6 DEF ReadStacks, SampledInv, BagInv
    <2> QED
      BY <1>1, <2>7, <2>8 DEF SampledInv
  <1>7. CASE ReadStackCount
    <2>1. reader \in ReaderState /\ FoundBy(taken, reader.key[1], reader.user, reader.kernel)
      BY <1>7 DEF ReadStackCount, SampledInv, ReaderInv
    <2>2. reader' = Waiting \/ reader' = [Waiting EXCEPT !.at = "next", !.key = reader.key]
      BY <1>7 DEF ReadStackCount
    <2>3. ReaderInv'
      BY <1>3, <2>1, <2>2, Zenon DEF ReaderInv, Waiting, ReaderState
    <2>4. DOMAIN rawData' \subseteq DOMAIN rawData \cup {CombinedStack}
      <3>1. PICK more : more = [t \in {CombinedStack} |-> stackCounts[reader.key].count]
        BY Zenon
      <3>2. DOMAIN more = {CombinedStack}
        BY <3>1
      <3>3. rawData' = EmptyBag \/ rawData' = rawData \/ rawData' = rawData (+) more
        BY <1>7, <3>1 DEF ReadStackCount
      <3> QED
        BY <3>2, <3>3, BagDomains, Zenon
    <2>5. FoundBy(taken, CombinedStack.pid, CombinedStack.user, CombinedStack.kernel)
      BY <2>1 DEF CombinedStack
    <2>6. BagInv(rawData)'
      BY <1>1, <2>4, <2>5 DEF SampledInv, BagInv
    <2>7. BagInv(reported)'
      BY <1>1, <1>7 DEF ReadStackCount, SampledInv, BagInv
    <2> QED
      BY <1>1, <2>3, <2>6, <2>7 DEF SampledInv
  <1>8. CASE FinishRound
    <2>1. ReaderInv'
      BY <1>3, <1>8 DEF FinishRound, ReaderInv, Waiting, ReaderState
    <2>2. BagInv(rawData)' /\ BagInv(reported)'
      BY <1>1, <1>8, BagDomains, Zenon DEF FinishRound, SampledInv, BagInv
    <2> QED
      BY <1>1, <2>1, <2>2 DEF SampledInv
  <1> QED
    BY <1>4, <1>5, <1>6, <1>7, <1>8 DEF ObtainRawData

\* A purge only takes keys away, whichever goroutine it is of.
LEMMA PurgeStep ==
    ASSUME SampledInv, NEW a \in {"loop", "reset"}, CleanStep(a)
    PROVE  SampledInv'
  <1>1. UNCHANGED <<cpu, reader, tickVars, resets, roundVars>> /\ TakenKeys' = TakenKeys
    BY DEF CleanStep, TakenKeys, StackKey
  <1>2. ReaderInv' /\ BagInv(rawData)' /\ BagInv(reported)'
    BY <1>1, ReaderKept DEF SampledInv
  <1>3. CPUInv'
    BY <1>1 DEF SampledInv, CPUInv
  <1>4. PICK k : /\ stackTraces' \in {stackTraces, Delete(stackTraces, k)}
                 /\ dwarfStackTraces' \in {dwarfStackTraces, Delete(dwarfStackTraces, k)}
                 /\ stackCounts' \in {stackCounts, Delete(stackCounts, k)}
    BY DEF CleanStep
  <1>5. Genuine(stackTraces', taken) /\ Genuine(dwarfStackTraces', taken)
    BY <1>4, DeleteGenuine DEF SampledInv, MapInv
  <1>6. /\ DOMAIN stackCounts' \subseteq DOMAIN stackCounts
        /\ \A j \in DOMAIN stackCounts' : stackCounts'[j] = stackCounts[j]
    BY <1>4 DEF Delete, Restrict
  <1>7. MapInv'
    BY <1>1, <1>5, <1>6 DEF SampledInv, MapInv
  <1> QED
    BY <1>2, <1>3, <1>7 DEF SampledInv

\* Every step of the BPF programs, the profiling loop and a reset keeps the invariant.
LEMMA NextSampled == ASSUME SampledInv, [Next]_vars PROVE SampledInv'
  <1>1. CASE Tick
    BY <1>1, TickStep DEF Tick
  <1>2. CASE \E c \in CPUs : AddStack(c)
    BY <1>2, AddStep
  <1>3. CASE ObtainRawData
    BY <1>3, RoundStep
  <1>4. CASE \E a \in {"loop", "reset"} : CleanStep(a)
    BY <1>4, PurgeStep
  <1>5. CASE ResetUnwindState \/ UNCHANGED vars
    <2>1. UNCHANGED <<mapVars, cpu, reader, tickVars, rawData, reported>>
      BY <1>5 DEF ResetUnwindState, vars
    <2> QED
      BY <2>1, MapsKept, ReaderKept DEF SampledInv
  <1> QED
    BY <1>1, <1>2, <1>3, <1>4, <1>5 DEF Next

\* For any hash, whatever stacks share an ID: what obtainRawData has read or handed on for
\* a process goes back to one tick in that process, each half being a sampled stack with the
\* ID of that tick's, or lost. Ticks, purges of two goroutines, full maps and reused elements
\* never mix the keys of two samples. If IDs are distinct the stacks are the tick's own.
THEOREM StacksWereSampledHolds == Spec => []StacksWereSampled
  <1>1. Init => SampledInv
    BY BagDomains DEF Init, SampledInv, MapInv, CPUInv, ReaderInv, BagInv, Genuine, IdleCPU, CPUState,
                      Waiting, ReaderState
  <1>2. SampledInv /\ [Next]_vars => SampledInv'
    BY NextSampled
  <1>3. SampledInv => StacksWereSampled
    BY DEF SampledInv, BagInv, FoundBy, StacksWereSampled
  <1> QED
    BY <1>1, <1>2, <1>3, PTL DEF Spec

-----------------------------------------------------------------------------
(* The search. *)

\* The codes that are no index.
LEMMA Codes ==
    /\ SEARCHING = -1 /\ DEFAULT = -2 /\ SHOULD_NEVER_HAPPEN = -3 /\ EXHAUSTED_ITERATIONS = -4
  BY DEF SEARCHING, DEFAULT, SHOULD_NEVER_HAPPEN, EXHAUSTED_ITERATIONS, Lookup!SEARCHING,
         Lookup!DEFAULT, Lookup!SHOULD_NEVER_HAPPEN, Lookup!EXHAUSTED_ITERATIONS

\* The middle of a non-empty window is inside it, and either half is at most half as long.
LEMMA MidInside ==
    ASSUME NEW a \in Nat, NEW b \in Nat, a < b
    PROVE  /\ (a + b) \div 2 \in Nat
           /\ a <= (a + b) \div 2 /\ (a + b) \div 2 < b
           /\ 2 * (b - ((a + b) \div 2 + 1)) < b - a
           /\ 2 * ((a + b) \div 2 - a) <= b - a
  OBVIOUS

\* The powers of two are natural numbers that halve.
LEMMA Halving ==
    ASSUME NEW k \in Nat, k < MaxBinarySearchDepth
    PROVE  /\ Pow2[k] \in Nat
           /\ k > 0 => Pow2[k - 1] \in Nat /\ Pow2[k] = 2 * Pow2[k - 1]
  BY SearchAssumption

\* A call starts with the invariant.
LEMMA InitSearchInv == SearchInit => SearchInv
  <1> SUFFICES ASSUME SearchInit PROVE SearchInv
    OBVIOUS
  <1>1. /\ rows \in [Index -> Pcs] /\ pc \in Pcs
        /\ low \in 0..MaxUnwindTableSize /\ high \in low..MaxUnwindTableSize
        /\ Lookup!Sorted(rows, low, high)
        /\ rewritten = FALSE /\ result = SEARCHING
        /\ left = low /\ right = high /\ found = DEFAULT /\ i = 0
    BY DEF SearchInit, Lookup!Init, Index, Lookup!Index, SEARCHING
  <1>2. SearchTypeOK
    <2>1. left \in Nat /\ right \in Nat /\ i \in 0..MaxBinarySearchDepth
      BY <1>1, SearchAssumption
    <2> QED
      BY <1>1, <2>1, Zenon DEF SearchTypeOK
  <1>3. WindowInv
    BY <1>1, SearchAssumption DEF WindowInv
  <1>4. DepthInv
    BY <1>1, SearchAssumption DEF DepthInv
  <1> QED
    BY <1>1, <1>2, <1>3, <1>4 DEF SearchInv, AnswersInChunk

\* The program counters are natural numbers.
LEMMA RowsAreNat ==
    ASSUME SearchInv
    PROVE  pc \in Nat /\ \A k \in low..(high - 1) : k \in Index /\ rows[k] \in Nat
  <1>1. rows \in [Index -> Pcs] /\ pc \in Pcs /\ Pcs \subseteq Nat
    BY SearchAssumption DEF SearchInv, SearchTypeOK
  <1>2. \A k \in low..(high - 1) : k \in Index
    BY SearchAssumption DEF SearchInv, SearchTypeOK, Index
  <1>3. \A k \in Index : rows[k] \in Pcs
    BY <1>1
  <1> QED
    BY <1>1, <1>2, <1>3, Zenon

\* Every iteration keeps the invariant and never leaves the shard.
LEMMA IterateKeeps ==
    ASSUME SearchInv, Iterate
    PROVE  SearchInv' /\ result' = SEARCHING
  <1>1. /\ left \in Nat /\ right \in Nat /\ left < right /\ i \in Nat
        /\ low \in Nat /\ high \in Nat /\ high <= MaxUnwindTableSize
        /\ low <= left /\ right <= high
        /\ result = SEARCHING /\ i < MaxBinarySearchDepth
        /\ right - left < Pow2[MaxBinarySearchDepth - 1 - i]
        /\ MaxUnwindTableSize \in Nat /\ MaxBinarySearchDepth \in Nat
    BY SearchAssumption DEF SearchInv, SearchTypeOK, WindowInv, DepthInv, Iterate
  <1>2. /\ Mid \in Nat /\ left <= Mid /\ Mid < right
        /\ 2 * (right - (Mid + 1)) < right - left
        /\ 2 * (Mid - left) <= right - left
    BY <1>1, MidInside DEF Mid
  <1>3. Mid \in Index /\ ~(Mid >= MaxUnwindTableSize)
    BY <1>1, <1>2 DEF Index
  <1>4. /\ i' = i + 1 /\ result' = SEARCHING
        /\ UNCHANGED <<rows, pc, low, high, rewritten>>
        /\ \/ rows[Mid] <= pc /\ found' = Mid /\ left' = Mid + 1 /\ right' = right
           \/ ~(rows[Mid] <= pc) /\ right' = Mid /\ found' = found /\ left' = left
    BY <1>1, <1>3 DEF Iterate, args
  <1>5. right' - left' < Pow2[MaxBinarySearchDepth - 1 - i'] /\ i' < MaxBinarySearchDepth
    <2> DEFINE k == MaxBinarySearchDepth - 1 - i
    <2>1. k \in Nat /\ k < MaxBinarySearchDepth
      BY <1>1
    <2>2. right - left < Pow2[k] /\ right - left >= 1
      BY <1>1
    <2>3. k > 0
      <3>1. ASSUME k = 0 PROVE FALSE
        <4>1. right - left < 1
          BY <2>2, <3>1, SearchAssumption
        <4> QED
          BY <1>1, <2>2, <4>1
      <3> QED
        BY <2>1, <3>1
    <2>4. Pow2[k - 1] \in Nat /\ Pow2[k] = 2 * Pow2[k - 1]
      BY <2>1, <2>3, Halving
    <2>5. 2 * (right' - left') <= right - left
      BY <1>1, <1>2, <1>4
    <2>6. right' - left' < Pow2[k - 1]
      BY <1>1, <1>2, <1>4, <2>2, <2>4, <2>5
    <2> QED
      BY <1>1, <1>4, <2>3, <2>6
  <1>6. SearchTypeOK'
    BY <1>1, <1>2, <1>3, <1>4 DEF SearchInv, SearchTypeOK
  <1>7. WindowInv'
    <2>1. /\ low' <= left' /\ left' <= right' /\ right' <= high'
          /\ (left' = low' /\ found' = DEFAULT) \/ (left' > low' /\ found' = left' - 1)
      BY <1>1, <1>2, <1>4 DEF SearchInv, WindowInv
    <2>2. ASSUME ~rewritten'
          PROVE  /\ Lookup!Sorted(rows, low, high)
                 /\ \A k \in low..(left' - 1) : rows[k] <= pc
                 /\ \A k \in right'..(high - 1) : rows[k] > pc
      <3>1. /\ Lookup!Sorted(rows, low, high)
            /\ \A k \in low..(left - 1) : rows[k] <= pc
            /\ \A k \in right..(high - 1) : rows[k] > pc
        BY <1>4, <2>2 DEF SearchInv, WindowInv
      <3>2. pc \in Nat /\ \A k \in low..(high - 1) : k \in Index /\ rows[k] \in Nat
        BY <1>1, RowsAreNat
      <3>3. \A j, k \in low..(high - 1) : j <= k => rows[j] <= rows[k]
        BY <3>1 DEF Lookup!Sorted
      <3>4. Mid \in low..(high - 1)
        BY <1>1, <1>2
      <3>5. CASE rows[Mid] <= pc /\ left' = Mid + 1 /\ right' = right
        <4>1. ASSUME NEW k \in low..(left' - 1) PROVE rows[k] <= pc
          <5>1. k \in low..(high - 1) /\ k <= Mid
            BY <1>1, <1>2, <3>5
          <5>2. rows[k] <= rows[Mid]
            BY <3>3, <3>4, <5>1
          <5> QED
            BY <3>2, <3>4, <3>5, <5>1, <5>2
        <4> QED
          BY <3>1, <3>5, <4>1
      <3>6. CASE ~(rows[Mid] <= pc) /\ right' = Mid /\ left' = left
        <4>1. ASSUME NEW k \in right'..(high - 1) PROVE rows[k] > pc
          <5>1. k \in low..(high - 1) /\ Mid <= k
            BY <1>1, <1>2, <3>6
          <5>2. rows[Mid] <= rows[k]
            BY <3>3, <3>4, <5>1
          <5> QED
            BY <3>2, <3>4, <3>6, <5>1, <5>2
        <4> QED
          BY <3>1, <3>6, <4>1
      <3> QED
        BY <1>4, <3>5, <3>6
    <2>3. rows' = rows /\ low' = low /\ high' = high /\ pc' = pc /\ rewritten' = rewritten
      BY <1>4
    <2> QED
      BY <2>1, <2>2, <2>3 DEF WindowInv, Lookup!Sorted
  <1> QED
    BY <1>4, <1>5, <1>6, <1>7 DEF SearchInv, DepthInv, AnswersInChunk

\* A search that returns gives what it found, and the window is then empty.
LEMMA ReturnGives ==
    ASSUME SearchInv, Return
    PROVE  /\ SearchInv' /\ result' = found
           /\ result = SEARCHING /\ left = right
           /\ UNCHANGED <<rows, pc, low, high, rewritten>>
  <1>1. /\ result = SEARCHING /\ i < MaxBinarySearchDepth /\ result' = found
        /\ UNCHANGED <<rows, pc, low, high, rewritten, left, right, found, i>>
        /\ left = right
    BY SearchAssumption DEF SearchInv, SearchTypeOK, WindowInv, DepthInv, Return, args, locals
  <1>2. found = DEFAULT \/ found \in low..(high - 1)
    BY <1>1 DEF SearchInv, SearchTypeOK, WindowInv
  <1>3. found # SEARCHING
    BY Codes DEF SearchInv, SearchTypeOK, Index
  <1>4. SearchTypeOK'
    BY <1>1 DEF SearchInv, SearchTypeOK
  <1>5. WindowInv'
    BY <1>1 DEF SearchInv, WindowInv, Lookup!Sorted
  <1>6. DepthInv' /\ AnswersInChunk'
    BY <1>1, <1>2, <1>3 DEF DepthInv, AnswersInChunk
  <1> QED
    BY <1>1, <1>4, <1>5, <1>6 DEF SearchInv

\* Overwriting the shard keeps what the invariant says of a shard that changed.
LEMMA RewriteKeeps ==
    ASSUME SearchInv, Rewrite
    PROVE  SearchInv'
  <1>1. /\ UNCHANGED <<pc, low, high, left, right, found, i, result>> /\ rewritten' = TRUE
        /\ rows' \in [Index -> Pcs]
    BY DEF SearchInv, SearchTypeOK, Rewrite, Lookup!Rewrite, locals, Index, Lookup!Index
  <1>2. SearchTypeOK'
    BY <1>1 DEF SearchInv, SearchTypeOK
  <1>3. WindowInv'
    BY <1>1 DEF SearchInv, WindowInv
  <1> QED
    BY <1>1, <1>2, <1>3 DEF SearchInv, DepthInv, AnswersInChunk

\* Every step keeps the invariant.
LEMMA NextSearchInv == SearchInv /\ [SearchNext]_search_vars => SearchInv'
  <1> SUFFICES ASSUME SearchInv, [SearchNext]_search_vars PROVE SearchInv'
    OBVIOUS
  <1>1. CASE UNCHANGED search_vars
    <2>1. UNCHANGED <<rows, pc, low, high, rewritten, left, right, found, i, result>>
      BY <1>1 DEF search_vars, args, locals
    <2> QED
      BY <2>1 DEF SearchInv, SearchTypeOK, WindowInv, DepthInv, AnswersInChunk, Lookup!Sorted
  <1> QED
    BY <1>1, IterateKeeps, ReturnGives, RewriteKeeps DEF SearchNext

\* Whatever the sizes and the tables, and whatever is written to the shard during the
\* search: find_offset_for_pc returns a row of the chunk it was given or DEFAULT.
THEOREM SearchStaysInChunk == SearchSpec => []AnswersInChunk
  <1>1. SearchInv => AnswersInChunk
    BY DEF SearchInv
  <1> QED
    BY <1>1, InitSearchInv, NextSearchInv, PTL DEF SearchSpec

\* A returning search answers as RowLookup does.
LEMMA ReturnAnswers ==
    ASSUME SearchInv, Return
    PROVE  Lookup!Answer
  <1>1. /\ SearchInv' /\ result' = found
        /\ result = SEARCHING /\ left = right
        /\ UNCHANGED <<rows, pc, low, high, rewritten>>
    BY ReturnGives
  <1>2. /\ low \in Nat /\ high \in Nat /\ left \in Nat /\ low <= left /\ left <= high /\ pc \in Nat
        /\ (left = low /\ found = DEFAULT) \/ (left > low /\ found = left - 1)
    BY <1>1, SearchAssumption DEF SearchInv, SearchTypeOK, WindowInv
  <1>3. CASE rewritten
    BY <1>1, <1>2, <1>3 DEF Lookup!Answer, SEARCHING, DEFAULT
  <1>4. CASE ~rewritten
    <2>1. /\ \A k \in low..(left - 1) : rows[k] <= pc
          /\ \A k \in left..(high - 1) : rows[k] > pc
      BY <1>1, <1>4 DEF SearchInv, WindowInv
    <2>2. \A k \in low..(high - 1) : rows[k] \in Nat
      BY <1>1, <1>2, RowsAreNat
    <2>3. Lookup!AtOrBelow = low..(left - 1)
      BY <1>2, <2>1, <2>2 DEF Lookup!AtOrBelow
    <2>4. CASE left = low
      BY <1>1, <1>2, <2>3, <2>4 DEF Lookup!Answer, SEARCHING, DEFAULT
    <2>5. CASE left > low
      <3>1. Lookup!IsLast(found)
        BY <1>2, <2>3, <2>5 DEF Lookup!IsLast
      <3>2. Lookup!IsLast(result')
        BY <1>1, <3>1
      <3> QED
        BY <1>1, <3>2 DEF Lookup!Answer, SEARCHING
    <2> QED
      BY <1>2, <2>4, <2>5
  <1> QED
    BY <1>3, <1>4

\* For every size and every table, the bounded loop of find_offset_for_pc implements the
\* one-step lookup: its answer is the last row of the chunk that starts at or before pc.
THEOREM SearchImplementsLookup == SearchSpec => ImplementsLookup
  <1>1. SearchInit => Lookup!Init
    BY DEF SearchInit
  <1>2. SearchInv /\ [SearchNext]_search_vars => [Lookup!Next]_(Lookup!lookupVars)
    <2> SUFFICES ASSUME SearchInv, [SearchNext]_search_vars PROVE [Lookup!Next]_(Lookup!lookupVars)
      OBVIOUS
    <2>1. CASE Iterate
      <3>1. result' = result
        BY <2>1, IterateKeeps DEF Iterate
      <3> QED
        BY <2>1, <3>1 DEF Iterate, args, Lookup!lookupVars
    <2>2. CASE Return
      BY <2>2, ReturnAnswers DEF Lookup!Next
    <2>3. CASE Rewrite
      BY <2>3 DEF Rewrite, Lookup!Next
    <2>4. CASE UNCHANGED search_vars
      BY <2>4 DEF search_vars, args, Lookup!lookupVars
    <2> QED
      BY <2>1, <2>2, <2>3, <2>4 DEF SearchNext
  <1> QED
    BY <1>1, <1>2, InitSearchInv, NextSearchInv, PTL DEF SearchSpec, ImplementsLookup, Lookup!Spec
=============================================================================
