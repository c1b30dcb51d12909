--------------------------- MODULE StackWalkProofs ---------------------------
EXTENDS StackWalk, TLAPS

-----------------------------------------------------------------------------
(* The inductive invariant of the walk. *)

Heap == [ip : Address, sp : Address, bp : Address, tail_calls : 0..MaxTailCalls,
         unwinding_jit : BOOLEAN, len : 0..MaxStackDepth, addresses : [1..MaxStackDepth -> Address]]

Lookups == {"profile", "mapping", "chunk", "use", "row", "bottom"}
Points == Lookups \cup {"idle", "add_stack_fp"}
Requests == SUBSET ({"unwind", "refresh", "mappings"} \X (Threads \cup {Tgid[t] : t \in Threads}))
Programs == [at : Points, thread : Threads, stack : DOMAIN Stacks, walking : BOOLEAN,
             i : 0..(MaxStackDepthPerProgram - 1), find : Finds, exe : Nat, offset : Nat,
             generation : Nat, chunk : ChunkInfo, rows : Nat \X Nat, covered : BOOLEAN,
             stale : BOOLEAN, counter : Counters \cup {"none"}, events : Requests]

\* The iterations that a walk has done.
Done(h, prog) == h.tail_calls * MaxStackDepthPerProgram + prog.i

\* The innermost frames that the walk at frame f has come to the addresses of.
Passed(h, f) == IF h.unwinding_jit THEN f ELSE f - 1

\* The registers are those of frame f of stack s, at its address or at the one before.
RegistersAt(g, s, f) ==
    /\ f \in 1..Len(s.frames)
    /\ g.sp = s.frames[f].sp /\ g.bp = s.frames[f].bp
    /\ g.ip = IF g.unwinding_jit /\ f > 1 THEN Add(s.frames[f].address, -1) ELSE s.frames[f].address
    /\ f = 1 => (g.unwinding_jit => s.frames[1].kind = "jit")
    /\ f > 1 => (g.unwinding_jit <=> s.frames[f - 1].kind = "jit")

\* The addresses of the frames to be found among the n innermost are recorded, as many as fit.
RecordedTo(g, s, n) ==
    \E at : /\ at \in [1..g.len -> Found(s)] /\ Lists(at, g, s)
            /\ \A j \in 1..g.len : j <= at[j] /\ at[j] <= n
            /\ g.len < MaxStackDepth => \A f \in Found(s) : f <= n => \E j \in 1..g.len : at[j] = f

\* The walk of stack s is at frame f.
IsAt(h, s, f, done) ==
    /\ RegistersAt(h, s, f) /\ RecordedTo(h, s, Passed(h, f))
    /\ h.len <= done /\ done <= f
    /\ h.len = 0 => done = 0 /\ f = 1 /\ ~h.unwinding_jit

\* The rows of a shard as they are when it has been written.
Written(w, shard) ==
    /\ w \in Generations \X Nat
    /\ \E x \in ChunksOf(w[1]) : x.shard_index = shard /\ w[2] = x.high_index

\* A mapping of compiled code was found, and a chunk.
HasMapping(h, prog) ==
    /\ prog.generation \in Generations
    /\ \E n \in DOMAIN Layouts[prog.generation] : \E k \in MappingsAt(Layouts[prog.generation][n], h.ip) :
          LET entry == Entry(Layouts[prog.generation][n], k)
          IN entry.type = 0 /\ prog.exe = entry.executable /\ prog.offset = entry.load_address
HasChunk(h, prog) ==
    /\ prog.exe \in Executables
    /\ \E j \in ChunksAt(prog.generation, prog.exe, h.ip - prog.offset) : prog.chunk = Chunks[prog.generation][prog.exe][j]

\* What the lookups of the program have found is right, unless it is of two generations.
HasFound(h, prog, s, f) ==
    /\ prog.at = "chunk" => HasMapping(h, prog)
    /\ prog.at = "use" /\ prog.find = "JITTED" => s.frames[f].kind = "jit"
    /\ prog.at = "use" /\ prog.find = "SUCCESS" => HasMapping(h, prog) /\ HasChunk(h, prog)
    /\ prog.at = "row" => HasMapping(h, prog) /\ HasChunk(h, prog) /\ prog.rows[1] = prog.generation

\* The same, whatever it is of.
IsLookup(prog) ==
    /\ prog.at = "use" /\ prog.find = "SUCCESS" => prog.chunk.shard_index \in Shards
    /\ prog.at = "row" => prog.chunk.shard_index \in Shards /\ Written(prog.rows, prog.chunk.shard_index)

WalkInv(h, prog) ==
    LET s == Stacks[prog.stack]
    IN /\ prog.at \in Lookups /\ ~prog.stale => \E f \in 1..Len(s.frames) : IsAt(h, s, f, Done(h, prog)) /\ HasFound(h, prog, s, f)
       /\ prog.at = "idle" /\ ~prog.stale /\ prog.counter = "success_dwarf" => IsInnermost(h, s)
       /\ prog.at = "idle" /\ ~prog.stale /\ prog.counter = "error_truncated" => Len(s.frames) > MaxStackDepth + 1

CpuInv(h, prog) == h \in Heap /\ prog \in Programs /\ IsLookup(prog) /\ WalkInv(h, prog)

MapsInv ==
    /\ generation \in Generations /\ clearing \in BOOLEAN
    /\ loaded \in Nat /\ 1..loaded \subseteq DOMAIN Layouts[1]
    /\ DOMAIN process_info \subseteq Threads
    /\ \A t \in DOMAIN process_info :
          process_info[t][1] = generation /\ process_info[t][2] \in DOMAIN Layouts[1]
    /\ clearing => DOMAIN process_info = {} /\ generation + 1 \in Generations
    /\ unwind_info_chunks \subseteq Executables
    /\ \A shard \in DOMAIN unwind_tables : shard \in Shards /\ Written(unwind_tables[shard], shard)

StackInv ==
    /\ DOMAIN heap = Cpus /\ DOMAIN run = Cpus /\ MapsInv
    /\ \A c \in Cpus : CpuInv(heap[c], run[c])

-----------------------------------------------------------------------------

\* Adding to an address wraps.
LEMMA AddIsAddress ==
    ASSUME NEW a \in Int, NEW n \in Int
    PROVE  Add(a, n) \in Address
  BY SizesAssumption DEF Add, Address

\* The fields of a CPU's entry of the heap map, unwind_state_t.
LEMMA HeapFields ==
    ASSUME NEW h \in Heap
    PROVE  /\ h.ip \in Address /\ h.sp \in Address /\ h.bp \in Address /\ h.tail_calls \in 0..MaxTailCalls
           /\ h.unwinding_jit \in BOOLEAN /\ h.len \in 0..MaxStackDepth
           /\ h.addresses \in [1..MaxStackDepth -> Address]
  BY DEF Heap

\* A function with another value at one place.
LEMMA StoreIs ==
    ASSUME NEW D, NEW S, NEW w \in [D -> S], NEW d \in D, NEW a \in S
    PROVE  /\ [w EXCEPT ![d] = a] \in [D -> S] /\ [w EXCEPT ![d] = a][d] = a
           /\ \A k \in D : k # d => [w EXCEPT ![d] = a][k] = w[k]
  OBVIOUS

\* The state after Push.
IsPush(g, h, a) ==
    /\ g \in Heap
    /\ g.ip = h.ip /\ g.sp = h.sp /\ g.bp = h.bp
    /\ g.tail_calls = h.tail_calls /\ g.unwinding_jit = h.unwinding_jit
    /\ h.len < MaxStackDepth => g.len = h.len + 1 /\ g.addresses[h.len + 1] = a
    /\ h.len >= MaxStackDepth => g.len = h.len
    /\ \A k \in 1..h.len : g.addresses[k] = h.addresses[k]

\* add_frame: one address more, unless the list is full.
LEMMA PushIs ==
    ASSUME NEW h \in Heap, NEW a \in Address
    PROVE  IsPush(Push(h, a), h, a)
  <1>1. CASE h.len < MaxStackDepth
    <2>1. h.len + 1 \in 1..MaxStackDepth /\ h.len + 1 \in 0..MaxStackDepth
      BY <1>1, HeapFields, SizesAssumption
    <2>2. Push(h, a) = [h EXCEPT !.addresses = [h.addresses EXCEPT ![h.len + 1] = a], !.len = h.len + 1]
      BY <1>1 DEF Push
    <2>3. PICK v : v = [h.addresses EXCEPT ![h.len + 1] = a]
      BY Zenon
    <2>4. v \in [1..MaxStackDepth -> Address] /\ v[h.len + 1] = a
      BY <2>1, <2>3, HeapFields, StoreIs, ZenonT(60)
    <2>5. \A k \in 1..h.len : v[k] = h.addresses[k]
      <3>1. \A k \in 1..h.len : k \in 1..MaxStackDepth /\ k # h.len + 1
        BY <2>1, HeapFields, SizesAssumption
      <3> QED
        BY <2>1, <2>3, <3>1, HeapFields, StoreIs
    <2>6. PICK g : g = [h EXCEPT !.addresses = v, !.len = h.len + 1]
      BY Zenon
    <2>7. /\ g.ip = h.ip /\ g.sp = h.sp /\ g.bp = h.bp /\ g.tail_calls = h.tail_calls
          /\ g.unwinding_jit = h.unwinding_jit /\ g.addresses = v /\ g.len = h.len + 1 /\ g \in Heap
      BY <2>1, <2>4, <2>6, Zenon DEF Heap
    <2>8. Push(h, a) = g
      BY <2>2, <2>3, <2>6, Zenon
    <2>9. IsPush(g, h, a)
      BY <1>1, <2>4, <2>5, <2>7, HeapFields, SizesAssumption DEF IsPush
    <2> QED
      BY <2>8, <2>9, Zenon
  <1>2. CASE ~(h.len < MaxStackDepth)
    BY <1>2, HeapFields, SizesAssumption DEF Push, IsPush
  <1> QED
    BY <1>1, <1>2

\* What IsSituation says of a frame.
LEMMA FrameIs ==
    ASSUME NEW s, IsSituation(s), NEW f \in 1..Len(s.frames)
    PROVE  /\ Len(s.frames) \in Nat /\ f \in Nat /\ f > 0
           /\ s.frames[f].address \in Address /\ s.frames[f].sp \in Address /\ s.frames[f].bp \in Address
  BY DEF IsSituation

\* The address of frame f is added when the frames before it have been, if it fits.
LEMMA RecordNext ==
    ASSUME NEW s, IsSituation(s), NEW h \in Heap, NEW f \in 1..Len(s.frames), f \in Found(s),
           RecordedTo(h, s, f - 1)
    PROVE  RecordedTo(Push(h, s.frames[f].address), s, f) /\ Push(h, s.frames[f].address).len > 0
  <1> DEFINE a == s.frames[f].address
  <1>1. a \in Address /\ f \in Nat /\ Found(s) \subseteq Nat
    BY FrameIs DEF Found
  <1>2. PICK g : g = Push(h, a)
    BY Zenon
  <1>3. IsPush(g, h, a) /\ h.len \in 0..MaxStackDepth /\ h.len \in Nat /\ MaxStackDepth \in Nat \ {0}
    BY <1>1, <1>2, PushIs, HeapFields, SizesAssumption
  <1>4. PICK at : /\ at \in [1..h.len -> Found(s)] /\ Lists(at, h, s)
                  /\ \A j \in 1..h.len : j <= at[j] /\ at[j] <= f - 1
                  /\ h.len < MaxStackDepth => \A x \in Found(s) : x <= f - 1 => \E j \in 1..h.len : at[j] = x
    BY Zenon DEF RecordedTo
  <1>5. CASE h.len >= MaxStackDepth
    <2>1. g.len = h.len /\ g.len > 0 /\ \A j \in 1..h.len : g.addresses[j] = h.addresses[j]
      BY <1>3, <1>5, SMTT(30) DEF IsPush
    <2>2. Lists(at, g, s)
      BY <1>4, <2>1 DEF Lists
    <2>3. \A j \in 1..g.len : j <= at[j] /\ at[j] <= f
      BY <1>1, <1>4, <2>1
    <2>4. ~(g.len < MaxStackDepth) /\ at \in [1..g.len -> Found(s)]
      BY <1>3, <1>4, <1>5, <2>1
    <2>5. RecordedTo(g, s, f)
      BY <2>2, <2>3, <2>4, Zenon DEF RecordedTo
    <2> QED
      BY <1>2, <2>1, <2>5
  <1>6. CASE h.len < MaxStackDepth
    <2>1. PICK n \in Nat : n = h.len
      BY <1>3
    <2>2. /\ g.len = n + 1 /\ g.addresses[n + 1] = a
          /\ \A j \in 1..n : g.addresses[j] = h.addresses[j]
      BY <1>3, <1>6, <2>1 DEF IsPush
    <2>3. PICK new : new = [j \in 1..(n + 1) |-> IF j = n + 1 THEN f ELSE at[j]]
      BY Zenon
    <2>4. \A j \in 1..(n + 1) : j \in 1..n \/ j = n + 1
      BY <2>1
    <2>5. new \in [1..(n + 1) -> Found(s)] /\ new[n + 1] = f /\ \A j \in 1..n : new[j] = at[j]
      BY <1>4, <2>1, <2>3
    <2>6. n + 1 <= f
      BY <1>1, <1>4, <2>1
    <2>7. \A j \in 1..(n + 1) : j <= new[j] /\ new[j] <= f
      <3>1. \A j \in 1..n : j <= new[j] /\ new[j] <= f - 1
        BY <1>4, <2>1, <2>5
      <3>2. \A j \in 1..n : new[j] \in Nat
        BY <1>1, <1>4, <2>1, <2>5, SMTT(30)
      <3>3. \A j \in 1..n : new[j] <= f
        BY <1>1, <3>1, <3>2
      <3> QED
        BY <1>1, <2>4, <2>5, <2>6, <3>1, <3>3
    <2>8. \A x \in Found(s) : x <= f => \E j \in 1..(n + 1) : new[j] = x
      <3> SUFFICES ASSUME NEW x \in Found(s), x <= f PROVE \E j \in 1..(n + 1) : new[j] = x
        OBVIOUS
      <3>1. CASE x = f
        BY <2>1, <2>5, <3>1
      <3>2. CASE x # f
        <4>1. x <= f - 1
          BY <1>1, <3>2
        <4>2. PICK j \in 1..n : at[j] = x
          BY <1>4, <1>6, <2>1, <4>1
        <4> QED
          BY <2>1, <2>5, <4>2, SMTT(30)
      <3> QED
        BY <3>1, <3>2
    <2>9. ASSUME NEW j \in 1..(n + 1), NEW x \in Found(s)
          PROVE  x < new[j] <=> \E m \in 1..(j - 1) : new[m] = x
      <3>1. CASE j \in 1..n
        <4>1. x < at[j] <=> \E m \in 1..(j - 1) : at[m] = x
          BY <1>4, <2>1, <3>1 DEF Lists
        <4>2. \A m \in 1..(j - 1) : m \in 1..n
          BY <2>1, <3>1
        <4>3. \A m \in 1..(j - 1) : new[m] = at[m]
          BY <2>5, <4>2
        <4>4. (\E m \in 1..(j - 1) : at[m] = x) <=> \E m \in 1..(j - 1) : new[m] = x
          BY <4>3
        <4>5. new[j] = at[j]
          BY <2>5, <3>1
        <4> QED
          BY <4>1, <4>4, <4>5
      <3>2. CASE j = n + 1
        <4>1. new[j] = f /\ 1..(j - 1) = 1..n
          BY <2>1, <2>5, <3>2
        <4>2. ASSUME x < f PROVE \E m \in 1..n : new[m] = x
          <5>1. x <= f - 1
            BY <1>1, <4>2
          <5>2. PICK m \in 1..n : at[m] = x
            BY <1>4, <1>6, <2>1, <5>1
          <5> QED
            BY <2>5, <5>2
        <4>3. ASSUME NEW m \in 1..n, new[m] = x PROVE x < f
          <5>1. at[m] = x /\ at[m] <= f - 1
            BY <1>4, <2>1, <2>5, <4>3
          <5> QED
            BY <1>1, <5>1
        <4> QED
          BY <4>1, <4>2, <4>3
      <3> QED
        BY <2>4, <3>1, <3>2
    <2>10. \A j \in 1..(n + 1) : new[j] \in Found(s) /\ g.addresses[j] = s.frames[new[j]].address
      <3>1. \A j \in 1..n : h.addresses[j] = s.frames[at[j]].address
        BY <1>4, <2>1 DEF Lists
      <3> QED
        BY <2>2, <2>4, <2>5, <3>1
    <2>11. Lists(new, g, s)
      BY <2>2, <2>9, <2>10 DEF Lists
    <2>12. RecordedTo(g, s, f)
      <3>1. /\ new \in [1..g.len -> Found(s)]
            /\ \A j \in 1..g.len : j <= new[j] /\ new[j] <= f
            /\ \A x \in Found(s) : x <= f => \E j \in 1..g.len : new[j] = x
        BY <2>2, <2>5, <2>7, <2>8
      <3> QED
        BY <2>11, <3>1, Zenon DEF RecordedTo
    <2> QED
      BY <1>2, <2>1, <2>2, <2>12
  <1> QED
    BY <1>3, <1>5, <1>6

\* A frame that is not to be found changes nothing.
LEMMA RecordSkip ==
    ASSUME NEW s, IsSituation(s), NEW h, NEW f \in 1..Len(s.frames), f \notin Found(s),
           RecordedTo(h, s, f - 1)
    PROVE  RecordedTo(h, s, f)
  <1>1. f \in Nat /\ Found(s) \subseteq Nat
    BY FrameIs DEF Found
  <1>2. PICK at : /\ at \in [1..h.len -> Found(s)] /\ Lists(at, h, s)
                  /\ \A j \in 1..h.len : j <= at[j] /\ at[j] <= f - 1
                  /\ h.len < MaxStackDepth => \A x \in Found(s) : x <= f - 1 => \E j \in 1..h.len : at[j] = x
    BY Zenon DEF RecordedTo
  <1>3. \A j \in 1..h.len : at[j] <= f
    BY <1>1, <1>2
  <1>4. \A x \in Found(s) : x <= f => x <= f - 1
    BY <1>1
  <1> QED
    BY <1>2, <1>3, <1>4, Zenon DEF RecordedTo

\* Before the first frame nothing is recorded.
LEMMA RecordNone ==
    ASSUME NEW s, IsSituation(s), NEW h, h.len \in Nat
    PROVE  RecordedTo(h, s, 0) <=> h.len = 0
  <1>1. \A f \in Found(s) : f \in Nat /\ ~(f <= 0)
    BY FrameIs DEF Found
  <1>2. ASSUME h.len = 0 PROVE RecordedTo(h, s, 0)
    <2>1. PICK at : at = [j \in 1..0 |-> 0]
      BY Zenon
    <2>2. 1..h.len = {} /\ at \in [1..h.len -> Found(s)]
      BY <1>2, <2>1
    <2>3. Lists(at, h, s)
      BY <2>2, Zenon DEF Lists
    <2> QED
      BY <1>1, <2>2, <2>3, Zenon DEF RecordedTo
  <1>3. ASSUME RecordedTo(h, s, 0) PROVE h.len = 0
    <2>1. PICK at : at \in [1..h.len -> Found(s)] /\ \A j \in 1..h.len : at[j] <= 0
      BY <1>3, Zenon DEF RecordedTo
    <2>2. \A j \in 1..h.len : FALSE
      BY <1>1, <2>1
    <2> QED
      BY <2>2
  <1> QED
    BY <1>2, <1>3

\* Which frames are to be found.
LEMMA FoundIs ==
    ASSUME NEW s, IsSituation(s), JitFramesAreRight(s), NEW f \in 1..Len(s.frames)
    PROVE  /\ f = 1 /\ f < Len(s.frames) => f \in Found(s)
           /\ f > 1 /\ s.frames[f - 1].kind = "jit" => f \in Found(s)
           /\ f > 1 /\ s.frames[f - 1].kind # "jit" /\ s.frames[f].kind = "jit" => f \notin Found(s)
           /\ f < Len(s.frames) /\ s.frames[f].kind # "jit" => f \in Found(s)
           /\ s.frames[f].kind = "jit" => f < Len(s.frames)
  BY FrameIs DEF Found, JitFramesAreRight

\* What is recorded is in the addresses and their number.
LEMMA RecordSame ==
    ASSUME NEW s, NEW n, NEW h, NEW g, g.len = h.len, g.addresses = h.addresses, RecordedTo(h, s, n)
    PROVE  RecordedTo(g, s, n)
  <1>1. \A at : Lists(at, h, s) => Lists(at, g, s)
    BY Zenon DEF Lists
  <1> QED
    BY <1>1, Zenon DEF RecordedTo

\* The first address is that of a JITed frame: the frame itself is recorded, and the walk stays
\* at it.
LEMMA JitFirst ==
    ASSUME NEW s, IsSituation(s), JitFramesAreRight(s), NEW h \in Heap, NEW f, NEW done \in Nat,
           IsAt(h, s, f, done), s.frames[f].kind = "jit", h.len = 0,
           NEW b \in Heap, b = [h EXCEPT !.unwinding_jit = TRUE]
    PROVE  IsAt(Push(b, b.ip), s, 1, done + 1)
  <1>1. f = 1 /\ done = 0 /\ ~h.unwinding_jit /\ 1 \in 1..Len(s.frames)
    BY DEF IsAt, RegistersAt
  <1>2. /\ b.sp = h.sp /\ b.bp = h.bp /\ b.ip = h.ip /\ b.unwinding_jit = TRUE
        /\ b.len = h.len /\ b.addresses = h.addresses
    BY DEF Heap
  <1>3. b.ip = s.frames[1].address /\ b.sp = s.frames[1].sp /\ b.bp = s.frames[1].bp
    BY <1>1, <1>2 DEF IsAt, RegistersAt
  <1>4. 1 \in Found(s)
    BY <1>1, FoundIs
  <1>5. RecordedTo(b, s, 1 - 1)
    <2>1. RecordedTo(h, s, 1 - 1)
      BY <1>1 DEF IsAt, Passed
    <2> QED
      BY <1>2, <2>1, RecordSame, Zenon
  <1>6. RecordedTo(Push(b, b.ip), s, 1) /\ Push(b, b.ip).len > 0
    BY <1>1, <1>3, <1>4, <1>5, RecordNext
  <1>7. IsPush(Push(b, b.ip), b, b.ip)
    BY PushIs, HeapFields
  <1>8. PICK g : g = Push(b, b.ip)
    BY Zenon
  <1>9. RegistersAt(g, s, 1)
    BY <1>1, <1>2, <1>3, <1>7, <1>8 DEF RegistersAt, IsPush
  <1>10. g.len <= done + 1 /\ g.len > 0 /\ Passed(g, 1) = 1
    <2>1. b.len = 0 /\ g.unwinding_jit = TRUE /\ IsPush(g, b, b.ip)
      BY <1>2, <1>7, <1>8, Zenon DEF IsPush
    <2>2. g.len = 1
      BY <2>1, SizesAssumption DEF IsPush
    <2> QED
      BY <1>1, <2>1, <2>2 DEF Passed
  <1>11. IsAt(g, s, 1, done + 1)
    BY <1>1, <1>6, <1>8, <1>9, <1>10, HeapFields DEF IsAt
  <1> QED
    BY <1>8, <1>11

\* From a JITed frame to its caller.
LEMMA JitNext ==
    ASSUME NEW s, IsSituation(s), JitFramesAreRight(s), NEW h \in Heap, NEW f, NEW done \in Nat,
           IsAt(h, s, f, done), s.frames[f].kind = "jit", h.len > 0,
           h.bp \in DOMAIN s.memory, Add(h.bp, 8) \in DOMAIN s.memory, s.memory[h.bp] # 0,
           NEW b \in Heap, b.len = h.len, b.addresses = h.addresses, b.unwinding_jit = TRUE,
           b.sp = Add(h.bp, 16), b.bp = s.memory[h.bp], b.ip = Add(s.memory[Add(h.bp, 8)], -1)
    PROVE  IsAt(Push(b, s.memory[Add(h.bp, 8)]), s, f + 1, done + 1)
  <1>1. f \in 1..Len(s.frames) /\ f < Len(s.frames) /\ f + 1 \in 1..Len(s.frames) /\ f \in Nat /\ f > 0
    <2>1. f \in 1..Len(s.frames)
      BY DEF IsAt, RegistersAt
    <2> QED
      BY <2>1, FoundIs, FrameIs
  <1>2. /\ h.bp = s.frames[f].bp
        /\ s.frames[f + 1].bp = s.memory[h.bp] /\ s.frames[f + 1].address = s.memory[Add(h.bp, 8)]
        /\ s.frames[f + 1].sp = Add(h.bp, 16)
    BY <1>1 DEF IsAt, RegistersAt, JitFramesAreRight
  <1>3. RecordedTo(h, s, f)
    <2>1. CASE h.unwinding_jit
      BY <2>1 DEF IsAt, Passed
    <2>2. CASE ~h.unwinding_jit
      <3>1. RecordedTo(h, s, f - 1)
        BY <2>2 DEF IsAt, Passed
      <3>2. f > 1
        <4>1. f = 1 => f - 1 = 0
          BY <1>1
        <4> QED
          BY <1>1, <3>1, <4>1, RecordNone, HeapFields
      <3>3. f \notin Found(s)
        BY <1>1, <2>2, <3>2, FoundIs, SMTT(30) DEF IsAt, RegistersAt
      <3> QED
        BY <1>1, <3>1, <3>3, RecordSkip
    <2> QED
      BY <2>1, <2>2
  <1>4. f + 1 \in Found(s)
    <2>1. f + 1 > 1 /\ s.frames[(f + 1) - 1].kind = "jit"
      BY <1>1
    <2> QED
      BY <1>1, <2>1, FoundIs
  <1>5. RecordedTo(b, s, (f + 1) - 1)
    <2>1. (f + 1) - 1 = f
      BY <1>1
    <2> QED
      BY <1>3, <2>1, RecordSame
  <1>6. PICK a : a = s.memory[Add(h.bp, 8)]
    BY Zenon
  <1>7. a \in Address /\ a = s.frames[f + 1].address
    BY <1>1, <1>2, <1>6, FrameIs, SMTT(30)
  <1>8. PICK g : g = Push(b, a)
    BY Zenon
  <1>9. RecordedTo(g, s, f + 1) /\ g.len > 0
    BY <1>1, <1>4, <1>5, <1>7, <1>8, RecordNext
  <1>10. IsPush(g, b, a)
    BY <1>7, <1>8, PushIs
  <1>11. RegistersAt(g, s, f + 1)
    <2>1. f + 1 > 1 /\ (f + 1) - 1 = f
      BY <1>1
    <2> QED
      BY <1>1, <1>2, <1>6, <1>10, <2>1 DEF RegistersAt, IsPush
  <1>12. g.len <= done + 1 /\ done + 1 <= f + 1 /\ Passed(g, f + 1) = f + 1
    BY <1>1, <1>10, HeapFields, SizesAssumption, SMTT(30) DEF IsPush, Passed, IsAt
  <1>13. IsAt(g, s, f + 1, done + 1)
    BY <1>9, <1>11, <1>12 DEF IsAt
  <1> QED
    BY <1>6, <1>8, <1>13

\* The state after AddFrame.
LEMMA AddFrameIs ==
    ASSUME NEW h \in Heap
    PROVE  /\ AddFrame(h) \in Heap
           /\ AddFrame(h).ip = h.ip /\ AddFrame(h).sp = h.sp /\ AddFrame(h).bp = h.bp
           /\ AddFrame(h).tail_calls = h.tail_calls /\ AddFrame(h).unwinding_jit = FALSE
           /\ LET g == IF h.unwinding_jit THEN h ELSE Push(h, h.ip)
              IN AddFrame(h).len = g.len /\ AddFrame(h).addresses = g.addresses
  <1>1. PICK g : g = IF h.unwinding_jit THEN h ELSE Push(h, h.ip)
    BY Zenon
  <1>2. IsPush(Push(h, h.ip), h, h.ip)
    BY PushIs, HeapFields
  <1>3. /\ g \in Heap /\ g.ip = h.ip /\ g.sp = h.sp /\ g.bp = h.bp /\ g.tail_calls = h.tail_calls
    BY <1>1, <1>2 DEF IsPush
  <1>4. AddFrame(h) = [g EXCEPT !.unwinding_jit = FALSE]
    BY <1>1, Zenon DEF AddFrame
  <1>5. /\ AddFrame(h) \in Heap
        /\ AddFrame(h).ip = g.ip /\ AddFrame(h).sp = g.sp /\ AddFrame(h).bp = g.bp
        /\ AddFrame(h).tail_calls = g.tail_calls /\ AddFrame(h).unwinding_jit = FALSE
        /\ AddFrame(h).len = g.len /\ AddFrame(h).addresses = g.addresses
    BY <1>3, <1>4, Zenon DEF Heap
  <1> QED
    BY <1>1, <1>3, <1>5, Zenon

\* From a frame of compiled code to its caller, by a right row.
LEMMA TableNext ==
    ASSUME NEW s, IsSituation(s), JitFramesAreRight(s), NEW h \in Heap, NEW f, NEW done \in Nat,
           IsAt(h, s, f, done), s.frames[f].kind # "jit", f < Len(s.frames),
           NEW b \in Heap, b.len = AddFrame(h).len, b.addresses = AddFrame(h).addresses,
           b.unwinding_jit = FALSE,
           b.sp = s.frames[f + 1].sp, b.bp = s.frames[f + 1].bp, b.ip = s.frames[f + 1].address
    PROVE  IsAt(b, s, f + 1, done + 1)
  <1>1. f \in 1..Len(s.frames) /\ f + 1 \in 1..Len(s.frames) /\ f \in Nat /\ f > 0
    <2>1. f \in 1..Len(s.frames)
      BY DEF IsAt, RegistersAt
    <2> QED
      BY <2>1, FrameIs
  <1>2. RegistersAt(b, s, f + 1)
    <2>1. f + 1 > 1 /\ (f + 1) - 1 = f /\ f + 1 # 1
      BY <1>1
    <2> QED
      BY <1>1, <2>1 DEF RegistersAt
  <1>3. /\ RecordedTo(AddFrame(h), s, f)
        /\ AddFrame(h).len > 0 /\ AddFrame(h).len <= done + 1
    <2>1. CASE h.unwinding_jit
      <3>1. RecordedTo(h, s, f) /\ h.len <= done /\ h.len # 0
        BY <2>1 DEF IsAt, Passed
      <3>2. AddFrame(h).len = h.len /\ AddFrame(h).addresses = h.addresses
        BY <2>1, AddFrameIs, Zenon
      <3> QED
        BY <3>1, <3>2, RecordSame, HeapFields
    <2>2. CASE ~h.unwinding_jit
      <3>1. RecordedTo(h, s, f - 1) /\ h.len <= done /\ h.ip = s.frames[f].address
        BY <2>2 DEF IsAt, RegistersAt, Passed
      <3>2. f \in Found(s)
        BY <1>1, FoundIs
      <3>3. PICK g : g = Push(h, h.ip)
        BY Zenon
      <3>4. RecordedTo(g, s, f) /\ g.len > 0
        BY <1>1, <3>1, <3>2, <3>3, RecordNext
      <3>5. g.len <= h.len + 1
        <4>1. IsPush(g, h, h.ip)
          BY <3>3, PushIs, HeapFields
        <4> QED
          BY <4>1, HeapFields, SizesAssumption DEF IsPush
      <3>6. AddFrame(h).len = g.len /\ AddFrame(h).addresses = g.addresses
        BY <2>2, <3>3, AddFrameIs, Zenon
      <3>7. g \in Heap
        BY <3>3, PushIs, HeapFields DEF IsPush
      <3> QED
        BY <3>1, <3>4, <3>5, <3>6, <3>7, RecordSame, HeapFields, SMTT(30)
    <2> QED
      BY <2>1, <2>2
  <1>4. RecordedTo(b, s, f)
    BY <1>3, RecordSame
  <1>5. Passed(b, f + 1) = f /\ done + 1 <= f + 1
    BY <1>1 DEF Passed, IsAt
  <1> QED
    BY <1>2, <1>3, <1>4, <1>5 DEF IsAt

-----------------------------------------------------------------------------
(* The steps of a program. *)

\* What a program in progress is made of.
LEMMA ProgramFields ==
    ASSUME NEW p \in Programs
    PROVE  /\ p.at \in Points /\ p.thread \in Threads /\ p.stack \in DOMAIN Stacks /\ p.walking \in BOOLEAN
           /\ p.i \in 0..(MaxStackDepthPerProgram - 1) /\ p.find \in Finds /\ p.exe \in Nat
           /\ p.offset \in Nat /\ p.generation \in Nat /\ p.chunk \in ChunkInfo /\ p.rows \in Nat \X Nat
           /\ p.covered \in BOOLEAN /\ p.stale \in BOOLEAN /\ p.counter \in Counters \cup {"none"}
           /\ p.events \in Requests
  BY DEF Programs

\* A CPU's entry is now h, and what its program is at p; the other CPUs are as they were.
HeapMoves(c, h) == DOMAIN heap' = Cpus /\ heap'[c] = h /\ \A d \in Cpus \ {c} : heap'[d] = heap[d]
RunMoves(c, p) == DOMAIN run' = Cpus /\ run'[c] = p /\ \A d \in Cpus \ {c} : run'[d] = run[d]
Moves(c) == \E h, p : HeapMoves(c, h) /\ RunMoves(c, p) /\ CpuInv(h, p)

\* A step of the program on c that leaves the maps as they should be preserves the invariant:
\* the other CPUs' entries are not touched.
LEMMA MovesKeep ==
    ASSUME StackInv, NEW c \in Cpus, Moves(c), MapsInv'
    PROVE  StackInv'
  <1>1. PICK h, p : HeapMoves(c, h) /\ RunMoves(c, p) /\ CpuInv(h, p)
    BY Zenon DEF Moves
  <1>2. DOMAIN heap' = Cpus /\ DOMAIN run' = Cpus
    BY <1>1, Zenon DEF HeapMoves, RunMoves
  <1>3. ASSUME NEW d \in Cpus PROVE CpuInv(heap'[d], run'[d])
    <2>1. CASE d = c
      BY <1>1, <2>1, Zenon DEF HeapMoves, RunMoves
    <2>2. CASE d # c
      BY <1>1, <2>2, Zenon DEF HeapMoves, RunMoves, StackInv
    <2> QED
      BY <2>1, <2>2, Zenon
  <1>4. (\A d \in Cpus : CpuInv(heap[d], run[d]))'
    BY <1>3, Zenon
  <1> QED
    BY <1>2, <1>4, Zenon DEF StackInv

\* A step that leaves the heap map alone leaves c its entry.
LEMMA HeapStays ==
    ASSUME StackInv, NEW c \in Cpus, UNCHANGED heap
    PROVE  HeapMoves(c, heap[c]) /\ heap[c] \in Heap
  BY Zenon DEF HeapMoves, StackInv, CpuInv

\* A step that stores h in the entry of c.
LEMMA HeapSet ==
    ASSUME StackInv, NEW c \in Cpus, NEW h, heap' = [heap EXCEPT ![c] = h]
    PROVE  HeapMoves(c, h)
  BY DEF HeapMoves, StackInv

\* The program on c: its fields, and its stack.
LEMMA OnCpu ==
    ASSUME StackInv, NEW c \in Cpus
    PROVE  /\ heap[c] \in Heap /\ run[c] \in Programs /\ IsLookup(run[c]) /\ WalkInv(heap[c], run[c])
           /\ run[c].stack \in DOMAIN Stacks /\ run[c].thread \in Threads
           /\ Stack(c) = Stacks[run[c].stack] /\ IsSituation(Stack(c)) /\ JitFramesAreRight(Stack(c))
           /\ Done(heap[c], run[c]) \in Nat
  <1>1. heap[c] \in Heap /\ run[c] \in Programs /\ IsLookup(run[c]) /\ WalkInv(heap[c], run[c])
    BY Zenon DEF StackInv, CpuInv
  <1>2. run[c].stack \in DOMAIN Stacks /\ run[c].thread \in Threads
    BY <1>1, ProgramFields
  <1>3. Stack(c) = Stacks[run[c].stack] /\ IsSituation(Stack(c)) /\ JitFramesAreRight(Stack(c))
    BY <1>2, StacksAssumption DEF Stack
  <1>4. Done(heap[c], run[c]) \in Nat
    <2>1. heap[c].tail_calls \in Nat /\ run[c].i \in Nat /\ MaxStackDepthPerProgram \in Nat
      BY <1>1, HeapFields, ProgramFields, SizesAssumption
    <2> QED
      BY <2>1 DEF Done
  <1> QED
    BY <1>1, <1>2, <1>3, <1>4

\* A program that returns.
LEMMA EndMoves ==
    ASSUME StackInv, NEW c \in Cpus, NEW h \in Heap, HeapMoves(c, h),
           NEW counter \in Counters \cup {"none"}, NEW events \in Requests, End(c, counter, events),
           ~run[c].stale /\ counter = "success_dwarf" => IsInnermost(h, Stack(c)),
           ~run[c].stale /\ counter = "error_truncated" => Len(Stack(c).frames) > MaxStackDepth + 1
    PROVE  Moves(c)
  <1> DEFINE p == run'[c]
  <1>1. RunMoves(c, p) /\ run[c] \in Programs /\ DOMAIN run = Cpus
    BY OnCpu DEF RunMoves, End, StackInv
  <1>2. p = [run[c] EXCEPT !.at = "idle", !.walking = FALSE, !.i = 0,
                           !.find = "SUCCESS", !.exe = 0, !.offset = 0, !.generation = 0,
                           !.chunk = NoChunk, !.rows = <<0, 0>>,
                           !.counter = counter, !.events = events]
    BY <1>1 DEF End
  <1> HIDE DEF p
  <1>3. /\ "idle" \in Points /\ 0 \in 0..(MaxStackDepthPerProgram - 1) /\ "SUCCESS" \in Finds
        /\ NoChunk \in ChunkInfo /\ <<0, 0>> \in Nat \X Nat
    BY SizesAssumption DEF Points, Finds, NoChunk, ChunkInfo
  <1>4. /\ p \in Programs /\ p.at = "idle" /\ p.stack = run[c].stack /\ p.stale = run[c].stale
        /\ p.counter = counter
    BY <1>1, <1>2, <1>3, ZenonT(60) DEF Programs
  <1>5. IsLookup(p)
    BY <1>4 DEF IsLookup
  <1>6. WalkInv(h, p)
    BY <1>4 DEF WalkInv, Lookups, Stack
  <1> QED
    BY <1>1, <1>4, <1>5, <1>6, Zenon DEF Moves, CpuInv

\* The counters of a program that records nothing and truncates nothing.
Failures == (Counters \cup {"none"}) \ {"success_dwarf", "error_truncated"}

\* The program ends with a counter that claims nothing about the stack.
LEMMA FailMoves ==
    ASSUME StackInv, NEW c \in Cpus, NEW h \in Heap, HeapMoves(c, h),
           NEW counter \in Failures, NEW events \in Requests, End(c, counter, events)
    PROVE  Moves(c)
  <1>1. counter \in Counters \cup {"none"} /\ counter # "success_dwarf" /\ counter # "error_truncated"
    BY Zenon DEF Failures
  <1> QED
    BY <1>1, EndMoves, Zenon

\* The same, when the entry of the heap map was written just before.
LEMMA StopMoves ==
    ASSUME StackInv, NEW c \in Cpus, NEW h \in Heap, NEW counter \in Failures, NEW events \in Requests,
           Stop(c, h, counter, events)
    PROVE  Moves(c)
  <1>1. HeapMoves(c, h) /\ End(c, counter, events)
    BY HeapSet, Zenon DEF Stop
  <1> QED
    BY <1>1, FailMoves, Zenon

\* A program that goes on to its next iteration, with the iterations done so far.
LEMMA IterateMoves ==
    ASSUME StackInv, NEW c \in Cpus, NEW h \in Heap, HeapMoves(c, h),
           NEW n \in 0..(MaxStackDepthPerProgram - 1), run' = [run EXCEPT ![c].at = "mapping", ![c].i = n],
           ~run[c].stale => \E f \in 1..Len(Stack(c).frames) :
              IsAt(h, Stack(c), f, h.tail_calls * MaxStackDepthPerProgram + n)
    PROVE  Moves(c)
  <1> DEFINE p == run'[c]
  <1>1. RunMoves(c, p) /\ run[c] \in Programs /\ DOMAIN run = Cpus
    BY OnCpu DEF RunMoves, StackInv
  <1>2. p = [run[c] EXCEPT !.at = "mapping", !.i = n]
    BY <1>1
  <1> HIDE DEF p
  <1>3. "mapping" \in Points
    BY DEF Points, Lookups
  <1>4. p \in Programs /\ p.at = "mapping" /\ p.i = n /\ p.stack = run[c].stack /\ p.stale = run[c].stale
    BY <1>1, <1>2, <1>3, Zenon DEF Programs
  <1>5. IsLookup(p)
    BY <1>4 DEF IsLookup
  <1>6. \A f : HasFound(h, p, Stack(c), f)
    BY <1>4 DEF HasFound
  <1>7. WalkInv(h, p)
    BY <1>4, <1>6 DEF WalkInv, Stack, Done
  <1> QED
    BY <1>1, <1>4, <1>5, <1>7, Zenon DEF Moves, CpuInv

\* Numbers of iterations that are too many: no program ends just where the array is full.
LEMMA TooMany ==
    ASSUME NEW t \in 0..MaxTailCalls, NEW done \in Nat,
           done = t * MaxStackDepthPerProgram + MaxStackDepthPerProgram,
           done >= MaxStackDepth \/ t >= MaxTailCalls
    PROVE  done > MaxStackDepth + 1
  <1>1. /\ t \in Nat /\ MaxTailCalls \in Nat /\ MaxStackDepth \in Nat
        /\ MaxStackDepthPerProgram \in Nat /\ MaxStackDepthPerProgram > 0
        /\ MaxTailCalls * MaxStackDepthPerProgram >= MaxStackDepth
    BY SizesAssumption
  <1>2. t + 1 \in 1..(MaxTailCalls + 1) /\ (t + 1) * MaxStackDepthPerProgram = done
    BY <1>1
  <1>3. done # MaxStackDepth /\ done # MaxStackDepth + 1
    BY <1>2, ProgramsAssumption
  <1>4. t >= MaxTailCalls => t = MaxTailCalls
    BY <1>1
  <1>5. t >= MaxTailCalls => done >= MaxStackDepth
    BY <1>1, <1>4
  <1> QED
    BY <1>1, <1>3, <1>5

\* The end of an iteration.
LEMMA ContinueMoves ==
    ASSUME StackInv, NEW c \in Cpus, NEW h \in Heap, Continue(c, h), h.tail_calls = heap[c].tail_calls,
           ~run[c].stale => \E f : IsAt(h, Stack(c), f, Done(heap[c], run[c]) + 1)
    PROVE  Moves(c)
  <1> DEFINE M == MaxStackDepthPerProgram
             t == h.tail_calls
             n == run[c].i
  <1>1. /\ t \in 0..MaxTailCalls /\ n \in 0..(M - 1) /\ M \in Nat \ {0} /\ MaxTailCalls \in Nat
        /\ Done(heap[c], run[c]) = t * M + n
    BY HeapFields, OnCpu, ProgramFields, SizesAssumption DEF Done
  <1>2. t * M \in Nat
    BY <1>1
  <1>3. ~run[c].stale => \E f \in 1..Len(Stack(c).frames) : IsAt(h, Stack(c), f, t * M + (n + 1))
    <2>1. t * M + n + 1 = t * M + (n + 1)
      BY <1>1, <1>2
    <2> QED
      BY <1>1, <2>1, Zenon DEF IsAt, RegistersAt
  <1>4. CASE n + 1 < M /\ heap' = [heap EXCEPT ![c] = h] /\ run' = [run EXCEPT ![c].at = "mapping", ![c].i = n + 1]
    <2>1. HeapMoves(c, h)
      BY <1>4, HeapSet, Zenon
    <2>2. n + 1 \in 0..(M - 1)
      BY <1>1, <1>4
    <2> QED
      BY <1>3, <1>4, <2>1, <2>2, IterateMoves, Zenon
  <1>5. CASE /\ n + 1 = M /\ h.len < MaxStackDepth /\ t < MaxTailCalls
             /\ heap' = [heap EXCEPT ![c] = [h EXCEPT !.tail_calls = t + 1]]
             /\ run' = [run EXCEPT ![c].at = "mapping", ![c].i = 0]
    <2>1. PICK g : g = [h EXCEPT !.tail_calls = t + 1]
      BY Zenon
    <2>2. t + 1 \in 0..MaxTailCalls
      BY <1>1, <1>5
    <2>3. /\ g \in Heap /\ g.tail_calls = t + 1 /\ g.ip = h.ip /\ g.sp = h.sp /\ g.bp = h.bp
          /\ g.unwinding_jit = h.unwinding_jit /\ g.len = h.len /\ g.addresses = h.addresses
      BY <2>1, <2>2 DEF Heap
    <2>4. HeapMoves(c, g) /\ 0 \in 0..(M - 1)
      <3>1. HeapMoves(c, g)
        BY <1>5, <2>1, HeapSet, Zenon
      <3> QED
        BY <1>1, <3>1
    <2>5. g.tail_calls * M + 0 = t * M + (n + 1)
      BY <1>1, <1>5, <2>3
    <2>6. ~run[c].stale => \E f \in 1..Len(Stack(c).frames) : IsAt(g, Stack(c), f, g.tail_calls * M + 0)
      <3>1. \A f : /\ RegistersAt(h, Stack(c), f) => RegistersAt(g, Stack(c), f)
                  /\ Passed(g, f) = Passed(h, f)
        BY <2>3, Zenon DEF RegistersAt, Passed
      <3>2. \A f : RecordedTo(h, Stack(c), Passed(h, f)) => RecordedTo(g, Stack(c), Passed(h, f))
        BY <2>3, RecordSame, Zenon
      <3>3. \A f : IsAt(h, Stack(c), f, t * M + (n + 1)) => IsAt(g, Stack(c), f, t * M + (n + 1))
        BY <2>3, <3>1, <3>2, Zenon DEF IsAt
      <3> QED
        BY <1>3, <2>5, <3>3, Zenon
    <2> QED
      BY <1>5, <2>3, <2>4, <2>6, IterateMoves, Zenon
  <1>6. CASE /\ n + 1 = M /\ (h.len >= MaxStackDepth \/ t >= MaxTailCalls)
             /\ heap' = [heap EXCEPT ![c] = h] /\ End(c, "error_truncated", {})
    <2>1. HeapMoves(c, h)
      BY <1>6, HeapSet, Zenon
    <2>2. ~run[c].stale => Len(Stack(c).frames) > MaxStackDepth + 1
      <3> SUFFICES ASSUME ~run[c].stale PROVE Len(Stack(c).frames) > MaxStackDepth + 1
        OBVIOUS
      <3>1. PICK f \in 1..Len(Stack(c).frames) : IsAt(h, Stack(c), f, t * M + (n + 1))
        BY <1>3
      <3>2. PICK done : done = t * M + M
        BY Zenon
      <3>3. done \in Nat /\ h.len <= done /\ done <= f /\ h.len \in Nat
        <4>1. t * M + (n + 1) = done
          BY <1>6, <3>2, Zenon
        <4>2. done \in Nat
          <5>1. \A x, y \in Nat : x + y \in Nat
            OBVIOUS
          <5> QED
            BY <1>1, <1>2, <3>2, <5>1, Zenon
        <4> QED
          BY <3>1, <4>1, <4>2, HeapFields DEF IsAt
      <3>4. done > MaxStackDepth + 1
        <4>1. done >= MaxStackDepth \/ t >= MaxTailCalls
          BY <1>6, <3>3, SizesAssumption
        <4> QED
          BY <1>1, <3>2, <3>3, <4>1, TooMany, Zenon
      <3>5. Len(Stack(c).frames) \in Nat
        BY OnCpu DEF IsSituation
      <3> QED
        BY <3>1, <3>3, <3>4, <3>5, SizesAssumption
    <2>3. "error_truncated" \in Counters \cup {"none"} /\ {} \in Requests
      BY Zenon DEF Counters, Requests
    <2> QED
      BY <1>6, <2>1, <2>2, <2>3, EndMoves
  <1> QED
    BY <1>4, <1>5, <1>6, Zenon DEF Continue

\* What programs ask of the agent.
LEMMA AsksAreRequests ==
    ASSUME StackInv, NEW c \in Cpus
    PROVE  /\ {} \in Requests /\ Ask(c, "unwind") \in Requests /\ Ask(c, "refresh") \in Requests
           /\ {<<"mappings", Tgid[run[c].thread]>>} \in Requests
  <1>1. run[c].thread \in Threads
    BY OnCpu
  <1> QED
    BY <1>1 DEF Requests, Ask

\* A lookup leaves the heap alone and the walk where it is.
LEMMA LookMoves ==
    ASSUME StackInv, NEW c \in Cpus, UNCHANGED heap, NEW p \in Programs, RunMoves(c, p),
           run[c].at \in Lookups, p.at \in Lookups, p.stack = run[c].stack, p.i = run[c].i,
           run[c].stale => p.stale, IsLookup(p),
           ~p.stale => \A f \in 1..Len(Stack(c).frames) :
              (IsAt(heap[c], Stack(c), f, Done(heap[c], run[c])) /\ HasFound(heap[c], run[c], Stack(c), f))
              => HasFound(heap[c], p, Stack(c), f)
    PROVE  Moves(c)
  <1>1. HeapMoves(c, heap[c]) /\ heap[c] \in Heap
    BY HeapStays
  <1>2. WalkInv(heap[c], run[c]) /\ Stack(c) = Stacks[run[c].stack]
    BY OnCpu
  <1>3. Done(heap[c], p) = Done(heap[c], run[c]) /\ p.at # "idle"
    BY DEF Done, Lookups
  <1>4. WalkInv(heap[c], p)
    BY <1>2, <1>3 DEF WalkInv
  <1> QED
    BY <1>1, <1>4, Zenon DEF Moves, CpuInv

\* The program goes on to look the same frame up, or to the end of the loop's body.
LEMMA GotoMoves ==
    ASSUME StackInv, NEW c \in Cpus, UNCHANGED heap, NEW at \in {"mapping", "bottom"},
           NEW walking \in BOOLEAN, run[c].at \in Lookups,
           NEW p, p = [run[c] EXCEPT !.at = at, !.walking = walking], RunMoves(c, p)
    PROVE  Moves(c)
  <1>1. run[c] \in Programs /\ at \in Points /\ at \in Lookups
    BY OnCpu DEF Points, Lookups
  <1>2. /\ p \in Programs /\ p.at = at /\ p.stack = run[c].stack /\ p.i = run[c].i
        /\ p.stale = run[c].stale
    BY <1>1, Zenon DEF Programs
  <1>3. IsLookup(p) /\ \A f : HasFound(heap[c], p, Stack(c), f)
    BY <1>2 DEF IsLookup, HasFound
  <1> QED
    BY <1>1, <1>2, <1>3, LookMoves, Zenon

\* The kernel's frame-pointer walk: it ends the program and leaves the heap map alone.
LEMMA AddStackFpMoves ==
    ASSUME StackInv, NEW c \in Cpus, AddStackFp(c)
    PROVE  Moves(c)
  <1>1. HeapMoves(c, heap[c]) /\ heap[c] \in Heap
    BY HeapStays, Zenon DEF AddStackFp
  <1>2. "none" \in Failures
    BY DEF Failures, Counters
  <1>3. End(c, "none", {}) \/ End(c, "none", {<<"mappings", Tgid[run[c].thread]>>})
    BY Zenon DEF AddStackFp, AddStack
  <1> QED
    BY <1>1, <1>2, <1>3, AsksAreRequests, FailMoves, Zenon

\* profile_cpu: has_unwind_information decides.
LEMMA ProfileCpuMoves ==
    ASSUME StackInv, NEW c \in Cpus, ProfileCpu(c)
    PROVE  Moves(c)
  <1>1. HeapMoves(c, heap[c]) /\ heap[c] \in Heap
    BY HeapStays, Zenon DEF ProfileCpu
  <1>2. CASE End(c, "none", Ask(c, "unwind"))
    <2>1. "none" \in Failures
      BY DEF Failures, Counters
    <2> QED
      BY <1>1, <1>2, <2>1, AsksAreRequests, FailMoves, Zenon
  <1>3. CASE Goto(c, "mapping")
    <2>1. run[c] \in Programs /\ DOMAIN run = Cpus /\ run[c].at = "profile" /\ "profile" \in Lookups
      BY OnCpu DEF ProfileCpu, Lookups, StackInv
    <2>2. PICK p : p = [run[c] EXCEPT !.at = "mapping", !.walking = run[c].walking]
      BY Zenon
    <2>3. p = [run[c] EXCEPT !.at = "mapping"]
      BY <2>1, <2>2, Zenon DEF Programs
    <2>4. RunMoves(c, p)
      BY <1>3, <2>1, <2>3 DEF Goto, RunMoves
    <2>5. UNCHANGED heap /\ run[c].walking \in BOOLEAN
      BY <2>1, ProgramFields DEF ProfileCpu
    <2> QED
      BY <2>1, <2>2, <2>4, <2>5, GotoMoves, Zenon
  <1> QED
    BY <1>2, <1>3, Zenon DEF ProfileCpu

\* profile_cpu: what find_unwind_table answers for the first frame decides.
LEMMA ProfileDecidesMoves ==
    ASSUME StackInv, NEW c \in Cpus, ProfileDecides(c)
    PROVE  Moves(c)
  <1>1. HeapMoves(c, heap[c]) /\ heap[c] \in Heap
    BY HeapStays, Zenon DEF ProfileDecides
  <1>2. {"none", "error_pc_not_covered", "error_jit"} \subseteq Failures
    BY DEF Failures, Counters
  <1>3. \/ run' = [run EXCEPT ![c].at = "mapping", ![c].walking = TRUE]
        \/ \E counter \in Failures : End(c, counter, {}) \/ End(c, counter, Ask(c, "refresh"))
    BY <1>2 DEF ProfileDecides
  <1>4. CASE \E counter \in Failures : End(c, counter, {}) \/ End(c, counter, Ask(c, "refresh"))
    BY <1>1, <1>4, AsksAreRequests, FailMoves, Zenon
  <1>5. CASE run' = [run EXCEPT ![c].at = "mapping", ![c].walking = TRUE]
    <2>1. run[c] \in Programs /\ DOMAIN run = Cpus /\ run[c].at = "use" /\ "use" \in Lookups
      BY OnCpu DEF ProfileDecides, Lookups, StackInv
    <2>2. PICK p : p = [run[c] EXCEPT !.at = "mapping", !.walking = TRUE]
      BY Zenon
    <2>3. RunMoves(c, p)
      BY <1>5, <2>1, <2>2 DEF RunMoves
    <2>4. UNCHANGED heap
      BY DEF ProfileDecides
    <2> QED
      BY <2>1, <2>2, <2>3, <2>4, GotoMoves, Zenon
  <1> QED
    BY <1>3, <1>4, <1>5

\* The process information of a thread.
LEMMA InfoIs ==
    ASSUME StackInv, NEW t \in DOMAIN process_info
    PROVE  \E n \in DOMAIN Layouts[generation] :
              /\ Info(t) = Layouts[generation][n] /\ process_info[t][1] = generation
              /\ generation \in Generations /\ generation \in Nat
  BY LayoutsAssumption, TablesAssumption DEF StackInv, MapsInv, Info

\* A mapping of process_info that holds an address names an executable and a load address.
LEMMA EntryIs ==
    ASSUME NEW g \in Generations, NEW n \in DOMAIN Layouts[g], NEW ip,
           NEW k \in MappingsAt(Layouts[g][n], ip)
    PROVE  Entry(Layouts[g][n], k).executable \in Nat /\ Entry(Layouts[g][n], k).load_address \in Nat
  <1>1. PICK info : info = Layouts[g][n]
    BY Zenon
  <1>2. /\ info.len \in Nat /\ Len(info.mappings) \in Nat
        /\ \A j \in 1..Len(info.mappings) :
              info.mappings[j].executable \in Nat /\ info.mappings[j].load_address \in Nat
    BY <1>1, LayoutsAssumption
  <1>3. k \in 1..Searched(info) /\ Searched(info) \in Nat
    BY <1>1, <1>2, SizesAssumption DEF MappingsAt, First, Searched
  <1>4. Entry(info, k).executable \in Nat /\ Entry(info, k).load_address \in Nat
    BY <1>2, <1>3 DEF Entry
  <1> QED
    BY <1>1, <1>4

\* The program counter is one that the frame is looked up with.
LEMMA IpIsLookedUp ==
    ASSUME NEW s, NEW h \in Heap, NEW f, RegistersAt(h, s, f)
    PROVE  h.ip \in LookedUp(s, f)
  BY HeapFields DEF RegistersAt, LookedUp

\* What a mapping says of the frame it has the program counter of.
LEMMA MappingIsRight ==
    ASSUME StackInv, NEW c \in Cpus, NEW f \in 1..Len(Stack(c).frames), NEW done,
           IsAt(heap[c], Stack(c), f, done),
           NEW g \in Generations, NEW n \in DOMAIN Layouts[g], NEW k \in MappingsAt(Layouts[g][n], heap[c].ip)
    PROVE  /\ Entry(Layouts[g][n], k).type = 1 => Stack(c).frames[f].kind = "jit"
           /\ Entry(Layouts[g][n], k).type = 0 => Stack(c).frames[f].kind # "jit"
  <1>1. heap[c].ip \in LookedUp(Stack(c), f)
    BY OnCpu, IpIsLookedUp DEF IsAt
  <1>2. run[c].stack \in DOMAIN Stacks /\ Stack(c) = Stacks[run[c].stack]
    BY OnCpu
  <1>3. \A x \in DOMAIN Stacks : \A j \in 1..Len(Stacks[x].frames) : \A ip \in LookedUp(Stacks[x], j) :
          \A m \in MappingsAt(Layouts[g][n], ip) :
             /\ Entry(Layouts[g][n], m).type = 1 => Stacks[x].frames[j].kind = "jit"
             /\ Entry(Layouts[g][n], m).type = 0 => Stacks[x].frames[j].kind # "jit"
    BY UnwindInfoAssumption, ZenonT(60)
  <1>4. PICK x \in DOMAIN Stacks : x = run[c].stack /\ Stack(c) = Stacks[x]
    BY <1>2
  <1>5. f \in 1..Len(Stacks[x].frames) /\ heap[c].ip \in LookedUp(Stacks[x], f)
    BY <1>1, <1>4
  <1>6. /\ Entry(Layouts[g][n], k).type = 1 => Stacks[x].frames[f].kind = "jit"
        /\ Entry(Layouts[g][n], k).type = 0 => Stacks[x].frames[f].kind # "jit"
    BY <1>3, <1>5, Zenon
  <1> QED
    BY <1>4, <1>6

\* The mapping loop found nothing.
LEMMA NoMappingMoves ==
    ASSUME StackInv, NEW c \in Cpus, UNCHANGED heap, run[c].at = "mapping",
           NEW find \in Finds \ {"SUCCESS", "JITTED"},
           run' = [run EXCEPT ![c].at = "use", ![c].find = find, ![c].chunk = NoChunk]
    PROVE  Moves(c)
  <1> DEFINE p == run'[c]
  <1>1. RunMoves(c, p) /\ run[c] \in Programs /\ DOMAIN run = Cpus
    BY OnCpu DEF RunMoves, StackInv
  <1>2. p = [run[c] EXCEPT !.at = "use", !.find = find, !.chunk = NoChunk]
    BY <1>1
  <1> HIDE DEF p
  <1>3. "use" \in Points /\ "use" \in Lookups /\ "mapping" \in Lookups /\ NoChunk \in ChunkInfo
    BY DEF Points, Lookups, NoChunk, ChunkInfo
  <1>4. /\ p \in Programs /\ p.at = "use" /\ p.stack = run[c].stack /\ p.i = run[c].i
        /\ p.stale = run[c].stale /\ p.find = find
    BY <1>1, <1>2, <1>3, ZenonT(60) DEF Programs
  <1>5. IsLookup(p) /\ \A f : HasFound(heap[c], p, Stack(c), f)
    BY <1>4 DEF IsLookup, HasFound
  <1> QED
    BY <1>1, <1>3, <1>4, <1>5, LookMoves

\* The mapping loop found a mapping.
GoesToChunk(c, t, hit) ==
    run' = [run EXCEPT ![c].at = IF hit.type = 0 THEN "chunk" ELSE "use",
                       ![c].offset = hit.load_address, ![c].generation = process_info[t][1],
                       ![c].exe = hit.executable, ![c].chunk = NoChunk,
                       ![c].find = IF hit.type = 0 THEN "CHUNK_NOT_FOUND"
                                   ELSE IF hit.type = 1 THEN "JITTED" ELSE "SPECIAL"]

\* find_unwind_table goes on to the chunks of the mapping it found.
LEMMA MappingMoves ==
    ASSUME StackInv, NEW c \in Cpus, UNCHANGED heap, run[c].at = "mapping",
           NEW t \in DOMAIN process_info, NEW k \in MappingsAt(Info(t), heap[c].ip), NEW hit, hit = Entry(Info(t), k),
           GoesToChunk(c, t, hit)
    PROVE  Moves(c)
  <1>1. PICK n \in DOMAIN Layouts[generation] :
              /\ Info(t) = Layouts[generation][n] /\ process_info[t][1] = generation
              /\ generation \in Generations /\ generation \in Nat
    BY InfoIs
  <1>2. hit.executable \in Nat /\ hit.load_address \in Nat
    BY <1>1, EntryIs
  <1> DEFINE p == run'[c]
  <1>3. RunMoves(c, p) /\ run[c] \in Programs /\ DOMAIN run = Cpus
    BY OnCpu DEF RunMoves, StackInv, GoesToChunk
  <1>4. PICK at, find :
           /\ at = IF hit.type = 0 THEN "chunk" ELSE "use"
           /\ find = IF hit.type = 0 THEN "CHUNK_NOT_FOUND" ELSE IF hit.type = 1 THEN "JITTED" ELSE "SPECIAL"
    BY Zenon
  <1>5. p = [run[c] EXCEPT !.at = at, !.offset = hit.load_address, !.generation = generation,
                           !.exe = hit.executable, !.chunk = NoChunk, !.find = find]
    BY <1>1, <1>3, <1>4, Zenon DEF GoesToChunk
  <1> HIDE DEF p
  <1>6. /\ at \in Points /\ at \in Lookups /\ "mapping" \in Lookups /\ NoChunk \in ChunkInfo
        /\ find \in Finds
    BY <1>4 DEF Points, Lookups, NoChunk, ChunkInfo, Finds
  <1>7. /\ p \in Programs /\ p.at = at /\ p.stack = run[c].stack /\ p.i = run[c].i
        /\ p.stale = run[c].stale /\ p.find = find /\ p.generation = generation
        /\ p.exe = hit.executable /\ p.offset = hit.load_address
    BY <1>1, <1>2, <1>3, <1>5, <1>6, ZenonT(60) DEF Programs
  <1>8. IsLookup(p)
    BY <1>4, <1>7 DEF IsLookup
  <1>9. ASSUME NEW f \in 1..Len(Stack(c).frames), IsAt(heap[c], Stack(c), f, Done(heap[c], run[c]))
        PROVE  HasFound(heap[c], p, Stack(c), f)
    <2>1. p.at = "chunk" => HasMapping(heap[c], p)
      BY <1>1, <1>4, <1>7, Zenon DEF HasMapping
    <2>2. p.at = "use" /\ p.find = "JITTED" => Stack(c).frames[f].kind = "jit"
      <3>1. hit.type = 1 => Stack(c).frames[f].kind = "jit"
        BY <1>1, <1>9, MappingIsRight, Zenon
      <3> QED
        BY <1>4, <1>7, <3>1
    <2> QED
      BY <1>4, <1>7, <2>1, <2>2 DEF HasFound
  <1> QED
    BY <1>3, <1>6, <1>7, <1>8, <1>9, LookMoves

\* find_unwind_table's loop over the mappings of process_info.
LEMMA FindMappingMoves ==
    ASSUME StackInv, NEW c \in Cpus, FindMapping(c)
    PROVE  Moves(c)
  <1> DEFINE t == run[c].thread
  <1>1. UNCHANGED heap /\ run[c].at = "mapping"
    BY Zenon DEF FindMapping
  <1>2. {"MAPPING_SHOULD_NEVER_HAPPEN", "MAPPING_EXHAUSTED_SEARCH", "MAPPING_NOT_FOUND"}
          \subseteq Finds \ {"SUCCESS", "JITTED"}
    BY DEF Finds
  <1>3. CASE run' = [run EXCEPT ![c].at = "use", ![c].find = "MAPPING_SHOULD_NEVER_HAPPEN", ![c].chunk = NoChunk]
    BY <1>1, <1>2, <1>3, NoMappingMoves, Zenon
  <1>4. CASE run' = [run EXCEPT ![c].at = "use", ![c].chunk = NoChunk, ![c].find =
                        IF Searched(Info(t)) < MaxMappingsPerProcess THEN "MAPPING_EXHAUSTED_SEARCH"
                                                                     ELSE "MAPPING_NOT_FOUND"]
    <2>1. PICK find : find = IF Searched(Info(t)) < MaxMappingsPerProcess THEN "MAPPING_EXHAUSTED_SEARCH"
                                                                           ELSE "MAPPING_NOT_FOUND"
      BY Zenon
    <2>2. run[c] \in Programs /\ DOMAIN run = Cpus /\ find \in Finds \ {"SUCCESS", "JITTED"}
      BY <1>2, <2>1, OnCpu DEF StackInv
    <2>3. run' = [run EXCEPT ![c].at = "use", ![c].find = find, ![c].chunk = NoChunk]
      BY <1>4, <2>1, <2>2, ZenonT(60) DEF Programs
    <2> QED
      BY <1>1, <2>2, <2>3, NoMappingMoves, Zenon
  <1>5. CASE t \in DOMAIN process_info /\ \E k \in MappingsAt(Info(t), heap[c].ip) : GoesToChunk(c, t, Entry(Info(t), k))
    BY <1>1, <1>5, MappingMoves, Zenon
  <1> QED
    BY <1>3, <1>4, <1>5, Zenon DEF FindMapping, GoesToChunk

\* The chunks of an executable.
LEMMA ChunkIs ==
    ASSUME NEW g \in Generations, NEW e \in Executables, NEW a, NEW k \in ChunksAt(g, e, a)
    PROVE  /\ Chunks[g][e][k] \in ChunksOf(g) /\ Chunks[g][e][k] \in ChunkInfo
           /\ Chunks[g][e][k].shard_index \in Shards
  <1>1. k \in DOMAIN Chunks[g][e]
    BY Zenon DEF ChunksAt, First
  <1>2. Chunks[g][e][k] \in ChunksOf(g)
    BY <1>1 DEF ChunksOf, Range
  <1> QED
    BY <1>2, TablesAssumption

\* find_unwind_table's loop over the chunks of unwind_info_chunks.
LEMMA FindChunkMoves ==
    ASSUME StackInv, NEW c \in Cpus, FindChunk(c)
    PROVE  Moves(c)
  <1> DEFINE p == run'[c]
             e == run[c].exe
  <1>1. UNCHANGED heap /\ run[c].at = "chunk"
    BY Zenon DEF FindChunk
  <1>2. RunMoves(c, p) /\ run[c] \in Programs /\ DOMAIN run = Cpus
    BY OnCpu DEF RunMoves, StackInv, FindChunk
  <1>3. "use" \in Points /\ "use" \in Lookups /\ "chunk" \in Lookups /\ {"CHUNK_NOT_FOUND", "SUCCESS"} \subseteq Finds
    BY DEF Points, Lookups, Finds
  <1>4. CASE run' = [run EXCEPT ![c].at = "use", ![c].find = "CHUNK_NOT_FOUND"]
    <2>1. p = [run[c] EXCEPT !.at = "use", !.find = "CHUNK_NOT_FOUND"]
      BY <1>2, <1>4
    <2> HIDE DEF p
    <2>2. /\ p \in Programs /\ p.at = "use" /\ p.stack = run[c].stack /\ p.i = run[c].i
          /\ p.stale = run[c].stale /\ p.find = "CHUNK_NOT_FOUND"
      BY <1>2, <1>3, <2>1, ZenonT(60) DEF Programs
    <2>3. IsLookup(p) /\ \A f : HasFound(heap[c], p, Stack(c), f)
      BY <2>2 DEF IsLookup, HasFound
    <2> QED
      BY <1>1, <1>2, <1>3, <2>2, <2>3, LookMoves
  <1>5. ASSUME e \in unwind_info_chunks, NEW k \in ChunksAt(generation, e, heap[c].ip - run[c].offset),
               run' = [run EXCEPT ![c].at = "use", ![c].find = "SUCCESS",
                          ![c].stale = run[c].stale \/ run[c].generation # generation,
                          ![c].generation = generation,
                          ![c].chunk = Chunks[generation][e][k]]
        PROVE  Moves(c)
    <2>1. generation \in Generations /\ generation \in Nat /\ e \in Executables
      BY <1>5, TablesAssumption DEF StackInv, MapsInv
    <2>2. PICK x, stale : x = Chunks[generation][e][k] /\ stale = (run[c].stale \/ run[c].generation # generation)
      BY Zenon
    <2>3. x \in ChunkInfo /\ x.shard_index \in Shards /\ stale \in BOOLEAN
      BY <1>5, <2>1, <2>2, ChunkIs
    <2>4. p = [run[c] EXCEPT !.at = "use", !.find = "SUCCESS", !.stale = stale, !.generation = generation,
                             !.chunk = x]
      BY <1>2, <1>5, <2>2
    <2> HIDE DEF p
    <2>5. /\ p \in Programs /\ p.at = "use" /\ p.stack = run[c].stack /\ p.i = run[c].i
          /\ p.stale = stale /\ p.find = "SUCCESS" /\ p.generation = generation /\ p.chunk = x
          /\ p.exe = run[c].exe /\ p.offset = run[c].offset
      BY <1>2, <1>3, <2>1, <2>3, <2>4, ZenonT(60) DEF Programs
    <2>6. IsLookup(p)
      BY <2>3, <2>5 DEF IsLookup
    <2>7. ASSUME ~p.stale, NEW f, HasFound(heap[c], run[c], Stack(c), f)
          PROVE  HasFound(heap[c], p, Stack(c), f)
      <3>1. HasMapping(heap[c], run[c]) /\ run[c].generation = generation
        BY <1>1, <2>2, <2>5, <2>7, Zenon DEF HasFound
      <3>2. HasMapping(heap[c], p)
        BY <2>5, <3>1, SMTT(30) DEF HasMapping
      <3>3. HasChunk(heap[c], p)
        BY <1>5, <2>1, <2>2, <2>5 DEF HasChunk
      <3> QED
        BY <2>5, <3>2, <3>3 DEF HasFound
    <2>8. run[c].stale => p.stale
      BY <2>2, <2>5, Zenon
    <2> QED
      BY <1>1, <1>2, <1>3, <2>5, <2>6, <2>7, <2>8, LookMoves
  <1> QED
    <2>1. \/ run' = [run EXCEPT ![c].at = "use", ![c].find = "CHUNK_NOT_FOUND"]
          \/ /\ e \in unwind_info_chunks
             /\ \E k \in ChunksAt(generation, e, heap[c].ip - run[c].offset) :
                   run' = [run EXCEPT ![c].at = "use", ![c].find = "SUCCESS",
                             ![c].stale = run[c].stale \/ run[c].generation # generation,
                             ![c].generation = generation,
                             ![c].chunk = Chunks[generation][e][k]]
      BY Zenon DEF FindChunk
    <2> HIDE DEF p
    <2> QED
      BY <1>4, <1>5, <2>1, Zenon

\* What can be read is an address.
LEMMA MemoryIs ==
    ASSUME StackInv, NEW c \in Cpus, NEW a \in DOMAIN Stack(c).memory
    PROVE  Stack(c).memory[a] \in Address
  BY OnCpu, Zenon DEF IsSituation

\* A frame of JITed code: the frame pointer leads to its caller.
LEMMA JitFrameMoves ==
    ASSUME StackInv, NEW c \in Cpus, JitFrame(c), run[c].at = "use", run[c].find = "JITTED"
    PROVE  Moves(c)
  <1> DEFINE h == heap[c]
             s == Stack(c)
             next_fp == Read(c, h.bp)
             ra == Read(c, Add(h.bp, 8))
  <1>1. h \in Heap /\ run[c] \in Programs /\ IsSituation(s) /\ JitFramesAreRight(s) /\ Done(h, run[c]) \in Nat
    BY OnCpu
  <1>2. PICK b : b = [h EXCEPT !.unwinding_jit = TRUE]
    BY Zenon
  <1>3. /\ b \in Heap /\ b.unwinding_jit = TRUE /\ b.ip = h.ip /\ b.sp = h.sp /\ b.bp = h.bp
        /\ b.tail_calls = h.tail_calls /\ b.len = h.len /\ b.addresses = h.addresses
    BY <1>1, <1>2, Zenon DEF Heap
  <1>4. ~run[c].stale => \E f : IsAt(h, s, f, Done(h, run[c])) /\ s.frames[f].kind = "jit"
    <2>1. run[c].at \in Lookups
      BY DEF Lookups
    <2> QED
      BY <2>1, OnCpu DEF WalkInv, HasFound
  <1>5. "none" \in Failures /\ {} \in Requests
    BY AsksAreRequests, Zenon DEF Failures, Counters
  <1>6. CASE Stop(c, h, "none", {})
    BY <1>1, <1>5, <1>6, StopMoves, Zenon
  <1>7. CASE Stop(c, b, "none", {})
    BY <1>3, <1>5, <1>7, StopMoves, Zenon
  <1>8. CASE b.len = 0 /\ Continue(c, Push(b, b.ip))
    <2>1. IsPush(Push(b, b.ip), b, b.ip)
      BY <1>3, HeapFields, PushIs
    <2>2. Push(b, b.ip) \in Heap /\ Push(b, b.ip).tail_calls = heap[c].tail_calls
      BY <1>3, <2>1 DEF IsPush
    <2>3. ~run[c].stale => \E f : IsAt(Push(b, b.ip), s, f, Done(h, run[c]) + 1)
      BY <1>1, <1>2, <1>3, <1>4, <1>8, JitFirst, ZenonT(60)
    <2> QED
      BY <1>8, <2>2, <2>3, ContinueMoves
  <1>9. CASE /\ b.len # 0 /\ Readable(c, b.bp) /\ Readable(c, Add(b.bp, 8)) /\ Read(c, b.bp) # 0
             /\ Continue(c, JitCaller(b, Read(c, b.bp), Read(c, Add(b.bp, 8))))
    <2>1. /\ h.bp \in DOMAIN s.memory /\ Add(h.bp, 8) \in DOMAIN s.memory /\ next_fp # 0
          /\ next_fp = s.memory[h.bp] /\ ra = s.memory[Add(h.bp, 8)]
      BY <1>3, <1>9 DEF Readable, Read
    <2>2. next_fp \in Address /\ ra \in Address
      BY <2>1, MemoryIs
    <2>3. PICK x, y, g : x = Add(h.bp, 16) /\ y = Add(ra, -1)
                         /\ g = [b EXCEPT !.sp = x, !.bp = next_fp, !.ip = y]
      BY Zenon
    <2>4. x \in Address /\ y \in Address
      <3>1. Address \subseteq Int /\ h.bp \in Address
        BY <1>1, HeapFields, SizesAssumption DEF Address
      <3>2. h.bp \in Int /\ ra \in Int /\ 16 \in Int /\ -1 \in Int
        <4>1. h.bp \in Int /\ ra \in Int
          BY <2>2, <3>1, Zenon
        <4>2. 16 \in Int /\ -1 \in Int
          OBVIOUS
        <4> QED
          BY <4>1, <4>2, Zenon
      <3> QED
        BY <2>3, <3>2, AddIsAddress, Zenon
    <2>5. /\ g \in Heap /\ g.unwinding_jit = TRUE /\ g.ip = y /\ g.sp = x /\ g.bp = next_fp
          /\ g.tail_calls = h.tail_calls /\ g.len = h.len /\ g.addresses = h.addresses
      BY <1>3, <2>2, <2>3, <2>4, Zenon DEF Heap
    <2>6. JitCaller(b, Read(c, b.bp), Read(c, Add(b.bp, 8))) = Push(g, ra)
      BY <1>3, <2>3 DEF JitCaller
    <2>7. IsPush(Push(g, ra), g, ra)
      BY <2>2, <2>5, PushIs
    <2>8. Push(g, ra) \in Heap /\ Push(g, ra).tail_calls = heap[c].tail_calls
      BY <2>5, <2>7 DEF IsPush
    <2>9. ~run[c].stale => \E f : IsAt(Push(g, ra), s, f, Done(h, run[c]) + 1)
      <3> SUFFICES ASSUME ~run[c].stale PROVE \E f : IsAt(Push(g, ra), s, f, Done(h, run[c]) + 1)
        OBVIOUS
      <3>1. PICK f : IsAt(h, s, f, Done(h, run[c])) /\ s.frames[f].kind = "jit"
        BY <1>4
      <3>2. h.len > 0
        BY <1>1, <1>3, <1>9, HeapFields, SizesAssumption
      <3>3. IsAt(Push(g, s.memory[Add(h.bp, 8)]), s, f + 1, Done(h, run[c]) + 1)
        BY <1>1, <2>1, <2>3, <2>5, <3>1, <3>2, JitNext, ZenonT(60)
      <3> QED
        BY <2>1, <3>3, Zenon
    <2> QED
      BY <1>9, <2>6, <2>8, <2>9, ContinueMoves
  <1> QED
    BY <1>2, <1>6, <1>7, <1>8, <1>9, Zenon DEF JitFrame

\* The rules of a row give addresses, and depend on the registers alone.
IsRow(row) == row.cfa_offset \in Int /\ row.rbp_offset \in Int

\* The previous stack pointer is an address: it wraps.
LEMMA PreviousSpIs ==
    ASSUME NEW h, h.ip \in Address, h.sp \in Address, h.bp \in Address, NEW row, IsRow(row)
    PROVE  PreviousSp(h, row) \in Address
  <1>1. Address \subseteq Int /\ 0 \in Address
    BY SizesAssumption DEF Address
  <1>2. h.sp \in Int /\ h.bp \in Int /\ row.cfa_offset \in Int
    BY <1>1, Zenon DEF IsRow
  <1>3. \A a, n \in Int : Add(a, n) \in Address
    BY AddIsAddress
  <1>4. /\ Add(h.bp, row.cfa_offset) \in Address /\ Add(h.sp, row.cfa_offset) \in Address
        /\ \A n \in Int : Add(h.sp, n) \in Address
    BY <1>2, <1>3, Zenon
  <1>5. 16 \in Int /\ 8 \in Int
    OBVIOUS
  <1>6. Add(h.sp, 16) \in Address /\ Add(h.sp, 8) \in Address
    BY <1>4, <1>5, Zenon
  <1> QED
    BY <1>1, <1>4, <1>6 DEF PreviousSp

\* The caller's registers depend on the registers alone, not on the list of addresses.
LEMMA PreviousSpSame ==
    ASSUME NEW h, NEW g, g.ip = h.ip, g.sp = h.sp, g.bp = h.bp, NEW row, NEW memory
    PROVE  PreviousSp(g, row) = PreviousSp(h, row) /\ PreviousBp(memory, g, row) = PreviousBp(memory, h, row)
  <1>1. PreviousSp(g, row) = PreviousSp(h, row)
    BY Zenon DEF PreviousSp
  <1> QED
    BY <1>1, Zenon DEF PreviousBp

\* The counters of TableFrame.
LEMMA TableFailures ==
    {"error_unsupported_frame_pointer_action", "error_unsupported_expression", "error_jit",
     "error_unsupported_cfa_register", "error_catchall", "none"} \subseteq Failures
  BY DEF Failures, Counters

\* A frame by a row that is right for it, unless it is stale.
LEMMA TableFrameMoves ==
    ASSUME StackInv, NEW c \in Cpus, NEW row, IsRow(row), TableFrame(c, row), ~EndsStack(row),
           ~run[c].stale => \E f : /\ IsAt(heap[c], Stack(c), f, Done(heap[c], run[c]))
                                   /\ Stack(c).frames[f].kind # "jit"
                                   /\ IsRightRow(Stack(c), f, heap[c].ip, row)
    PROVE  Moves(c)
  <1> DEFINE h == heap[c]
             s == Stack(c)
             memory == Stack(c).memory
  <1>1. h \in Heap /\ run[c] \in Programs /\ IsSituation(s) /\ JitFramesAreRight(s) /\ Done(h, run[c]) \in Nat
    BY OnCpu
  <1>2. PICK g : g = AddFrame(h)
    BY Zenon
  <1>3. /\ g \in Heap /\ g.ip = h.ip /\ g.sp = h.sp /\ g.bp = h.bp /\ g.tail_calls = h.tail_calls
        /\ g.unwinding_jit = FALSE
    BY <1>1, <1>2, AddFrameIs, Zenon
  <1>4. PICK sp, ip : sp = PreviousSp(g, row) /\ ip = PreviousIp(memory, sp)
    BY Zenon
  <1>5. sp \in Address
    BY <1>3, <1>4, HeapFields, PreviousSpIs
  <1>6. ip \in Address
    <2>1. 0 \in Address
      BY SizesAssumption DEF Address
    <2> QED
      BY <1>4, <2>1, MemoryIs DEF PreviousIp
  <1>7. PreviousBp(memory, g, row) \subseteq Address
    <2>1. g.bp \in Address
      BY <1>3, HeapFields
    <2> QED
      BY <2>1, MemoryIs, Zenon DEF PreviousBp
  <1>8. \/ \E counter \in Failures : Stop(c, g, counter, {})
        \/ /\ Supported(row) /\ sp # 0 /\ ip # 0
           /\ \E bp \in PreviousBp(memory, g, row) : Continue(c, [g EXCEPT !.ip = ip, !.sp = sp, !.bp = bp])
    BY <1>2, <1>4, TableFailures, Zenon DEF TableFrame
  <1>9. CASE \E counter \in Failures : Stop(c, g, counter, {})
    BY <1>3, <1>9, AsksAreRequests, StopMoves, Zenon
  <1>10. ASSUME Supported(row), sp # 0, ip # 0, NEW bp \in PreviousBp(memory, g, row),
                Continue(c, [g EXCEPT !.ip = ip, !.sp = sp, !.bp = bp])
         PROVE  Moves(c)
    <2>1. PICK b : b = [g EXCEPT !.ip = ip, !.sp = sp, !.bp = bp]
      BY Zenon
    <2>2. bp \in Address
      BY <1>7
    <2>3. /\ b \in Heap /\ b.ip = ip /\ b.sp = sp /\ b.bp = bp /\ b.tail_calls = h.tail_calls
          /\ b.unwinding_jit = FALSE /\ b.len = g.len /\ b.addresses = g.addresses
      BY <1>3, <1>5, <1>6, <2>1, <2>2, Zenon DEF Heap
    <2>4. ~run[c].stale => \E f : IsAt(b, s, f, Done(h, run[c]) + 1)
      <3> SUFFICES ASSUME ~run[c].stale PROVE \E f : IsAt(b, s, f, Done(h, run[c]) + 1)
        OBVIOUS
      <3>1. PICK f : IsAt(h, s, f, Done(h, run[c])) /\ s.frames[f].kind # "jit" /\ IsRightRow(s, f, h.ip, row)
        OBVIOUS
      <3>2. PICK here : here = [ip |-> h.ip, sp |-> s.frames[f].sp, bp |-> s.frames[f].bp]
        BY Zenon
      <3>3. h.sp = s.frames[f].sp /\ h.bp = s.frames[f].bp
        BY <3>1 DEF IsAt, RegistersAt
      <3>4. here.ip = g.ip /\ here.sp = g.sp /\ here.bp = g.bp
        BY <1>3, <3>2, <3>3
      <3>5. PreviousSp(here, row) = sp /\ PreviousBp(memory, here, row) = PreviousBp(memory, g, row)
        <4>1. PreviousSp(here, row) = PreviousSp(g, row) /\ PreviousBp(memory, here, row) = PreviousBp(memory, g, row)
          BY <3>4, PreviousSpSame, SMTT(60)
        <4> QED
          BY <1>4, <4>1, Zenon
      <3>6. /\ f < Len(s.frames) /\ s.frames[f + 1].sp = sp /\ s.frames[f + 1].address = ip
            /\ s.frames[f + 1].bp = bp
        BY <1>4, <1>10, <3>1, <3>2, <3>5, Zenon DEF IsRightRow
      <3> QED
        BY <1>1, <1>2, <2>3, <3>1, <3>6, TableNext, Zenon
    <2> QED
      BY <1>10, <2>1, <2>3, <2>4, ContinueMoves, Zenon
  <1> QED
    BY <1>8, <1>9, <1>10, Zenon

\* The search answers with a row of the chunk, and only looks at rows of the chunk.
LEMMA AnswersAreRows ==
    ASSUME NEW table, NEW written, NEW chunk, NEW a, NEW k \in Answers(table, written, chunk, a)
    PROVE  k \in (chunk.low_index + 1)..chunk.high_index
  BY Zenon DEF Answers

SameRows(table, written, w, chunk) ==
    \A k \in (chunk.low_index + 1)..chunk.high_index : RowOf(table, written, k) = RowOf(table, w, k)
SameAnswers(table, written, w, chunk, a) ==
    Answers(table, written, chunk, a) = Answers(table, w, chunk, a)

\* The search answers the same from rows that are the same within the chunk.
LEMMA AnswersSame ==
    ASSUME NEW table, NEW written, NEW w, NEW chunk, NEW a, SameRows(table, written, w, chunk)
    PROVE  SameAnswers(table, written, w, chunk, a)
  <1> DEFINE K == (chunk.low_index + 1)..chunk.high_index
             Below(v) == {k \in K : RowOf(table, v, k).pc <= a}
             Ordered(v) == \A j, k \in K : j <= k => RowOf(table, v, j).pc <= RowOf(table, v, k).pc
  <1>1. \A v : Answers(table, v, chunk, a)
                 = IF Ordered(v) THEN {k \in Below(v) : \A j \in Below(v) : j <= k} ELSE K
    BY Zenon DEF Answers
  <1>2. Below(written) = Below(w)
    BY Zenon DEF SameRows
  <1>3. Ordered(written) <=> Ordered(w)
    BY Zenon DEF SameRows
  <1> HIDE DEF Below, Ordered, K
  <1> QED
    BY <1>1, <1>2, <1>3 DEF SameAnswers

\* Rows of a chunk are numbered from one.
LEMMA Numbered ==
    ASSUME NEW low \in Nat, NEW high \in Nat, NEW k \in (low + 1)..high
    PROVE  k \in Nat /\ k > 0
  OBVIOUS

\* A row before one that a table has is in the table.
LEMMA Within ==
    ASSUME NEW k \in Nat, k > 0, NEW m \in Nat, NEW n \in Nat, k <= m, m <= n
    PROVE  k \in 1..n
  OBVIOUS

\* A row that a search of a shard finds: what it holds, and that it is right when the rows, the
\* chunk and the mapping are of one generation.
LEMMA RowIs ==
    ASSUME StackInv, NEW c \in Cpus, run[c].at = "row",
           NEW table, table = Tables[run[c].rows[1]][run[c].chunk.shard_index],
           NEW k \in Answers(table, run[c].rows[2], run[c].chunk, heap[c].ip - run[c].offset)
    PROVE  IsRow(RowOf(table, run[c].rows[2], k))
  <1> DEFINE w == run[c].rows
             shard == run[c].chunk.shard_index
  <1>1. shard \in Shards /\ Written(w, shard) /\ run[c].chunk \in ChunkInfo
    BY OnCpu, ProgramFields DEF IsLookup
  <1>2. w[1] \in Generations /\ w[2] \in Nat
    BY <1>1 DEF Written
  <1>3. w[2] <= Len(table) /\ Len(table) \in Nat
    <2>1. PICK x \in ChunksOf(w[1]) : x.shard_index = shard /\ w[2] = x.high_index
      BY <1>1, Zenon DEF Written
    <2>2. Len(Tables[w[1]][shard]) \in Nat
      BY <1>1, <1>2, TablesAssumption
    <2>3. x.high_index <= Len(Tables[w[1]][x.shard_index])
      BY <1>2, <2>1, TablesAssumption, Zenon
    <2> QED
      BY <2>1, <2>2, <2>3
  <1>4. k \in Nat /\ k > 0
    <2>1. k \in (run[c].chunk.low_index + 1)..run[c].chunk.high_index
      BY AnswersAreRows
    <2>2. run[c].chunk.low_index \in Nat /\ run[c].chunk.high_index \in Nat
      BY <1>1 DEF ChunkInfo
    <2> QED
      BY <2>1, <2>2, Numbered, Zenon
  <1>5. CASE k <= w[2]
    <2>1. k \in 1..Len(table)
      BY <1>2, <1>3, <1>4, <1>5, Within, Zenon
    <2>2. table[k].cfa_offset \in Int /\ table[k].rbp_offset \in Int
      BY <1>1, <1>2, <2>1, TablesAssumption, Zenon
    <2> QED
      BY <1>5, <2>2, Zenon DEF IsRow, RowOf
  <1>6. CASE ~(k <= w[2])
    BY <1>6 DEF IsRow, RowOf
  <1> QED
    BY <1>5, <1>6

\* A row of a chunk is after what comes before the chunk.
LEMMA InChunk ==
    ASSUME NEW lo \in Nat, NEW hi \in Nat, NEW w \in Nat, NEW k \in (lo + 1)..hi
    PROVE  (w <= lo => ~(k <= w)) /\ (hi <= w => k <= w)
  OBVIOUS

\* The row the search answers describes the frame the walk is at, when no map was cleared meanwhile.
LEMMA RowIsRight ==
    ASSUME StackInv, NEW c \in Cpus, run[c].at = "row", ~run[c].stale,
           NEW table, table = Tables[run[c].rows[1]][run[c].chunk.shard_index],
           NEW k \in Answers(table, run[c].rows[2], run[c].chunk, heap[c].ip - run[c].offset)
    PROVE  \E f : /\ IsAt(heap[c], Stack(c), f, Done(heap[c], run[c]))
                  /\ Stack(c).frames[f].kind # "jit"
                  /\ IsRightRow(Stack(c), f, heap[c].ip, RowOf(table, run[c].rows[2], k))
  <1> DEFINE p == run[c]
             w == run[c].rows
             g == run[c].generation
             chunk == run[c].chunk
             a == heap[c].ip - run[c].offset
  <1>1. "row" \in Lookups
    BY DEF Lookups
  <1>2. PICK f \in 1..Len(Stack(c).frames) :
           IsAt(heap[c], Stack(c), f, Done(heap[c], p)) /\ HasFound(heap[c], p, Stack(c), f)
    BY <1>1, OnCpu, Zenon DEF WalkInv
  <1>3. HasMapping(heap[c], p) /\ HasChunk(heap[c], p) /\ w[1] = g
    BY <1>2, Zenon DEF HasFound
  <1>4. g \in Generations /\ p.exe \in Executables
    BY <1>3, Zenon DEF HasMapping, HasChunk
  <1>13. PICK n \in DOMAIN Layouts[g] : \E m \in MappingsAt(Layouts[g][n], heap[c].ip) :
           /\ Entry(Layouts[g][n], m).type = 0 /\ p.exe = Entry(Layouts[g][n], m).executable
           /\ p.offset = Entry(Layouts[g][n], m).load_address
    BY <1>3, Zenon DEF HasMapping
  <1>5. PICK m \in MappingsAt(Layouts[g][n], heap[c].ip) :
           /\ Entry(Layouts[g][n], m).type = 0 /\ p.exe = Entry(Layouts[g][n], m).executable
           /\ p.offset = Entry(Layouts[g][n], m).load_address
    BY <1>13, Zenon
  <1>6. PICK j \in ChunksAt(g, p.exe, a) : chunk = Chunks[g][p.exe][j]
    BY <1>3, Zenon DEF HasChunk
  <1>7. /\ chunk \in ChunksOf(g) /\ chunk \in ChunkInfo /\ chunk.shard_index \in Shards
    BY <1>4, <1>6, ChunkIs, Zenon
  <1>8. Stack(c).frames[f].kind # "jit"
    BY <1>2, <1>4, <1>5, MappingIsRight, Zenon
  <1>9. table = Tables[g][chunk.shard_index]
    BY <1>3
  <1>10. ASSUME NEW r \in Answers(table, Len(table), chunk, a)
         PROVE  IsRightRow(Stack(c), f, heap[c].ip, table[r])
    <2>1. heap[c].ip \in LookedUp(Stack(c), f)
      BY <1>2, OnCpu, IpIsLookedUp, Zenon DEF IsAt
    <2>2. PICK x \in DOMAIN Stacks : Stack(c) = Stacks[x]
      BY OnCpu, Zenon
    <2>3. \A l \in 1..Len(Stacks[x].frames) : \A ip \in LookedUp(Stacks[x], l) :
          \A y \in MappingsAt(Layouts[g][n], ip) :
            (Entry(Layouts[g][n], y).type = 0 /\ Entry(Layouts[g][n], y).executable \in Executables)
            => \A z \in ChunksAt(g, Entry(Layouts[g][n], y).executable, ip - Entry(Layouts[g][n], y).load_address) :
                  LET d == Chunks[g][Entry(Layouts[g][n], y).executable][z]
                      t == Tables[g][d.shard_index]
                  IN \A q \in Answers(t, Len(t), d, ip - Entry(Layouts[g][n], y).load_address) :
                        IsRightRow(Stacks[x], l, ip, t[q])
      BY <1>4, UnwindInfoAssumption, ZenonT(60)
    <2>4. f \in 1..Len(Stacks[x].frames) /\ heap[c].ip \in LookedUp(Stacks[x], f)
      BY <2>1, <2>2
    <2>5. \A z \in ChunksAt(g, p.exe, a) :
             LET d == Chunks[g][p.exe][z]
                 t == Tables[g][d.shard_index]
             IN \A q \in Answers(t, Len(t), d, a) : IsRightRow(Stacks[x], f, heap[c].ip, t[q])
      BY <1>4, <1>5, <2>3, <2>4, ZenonT(60)
    <2>6. \A q \in Answers(table, Len(table), chunk, a) : IsRightRow(Stacks[x], f, heap[c].ip, table[q])
      BY <1>6, <1>9, <2>5, Zenon
    <2> QED
      BY <2>2, <2>6, Zenon
  <1> DEFINE row == RowOf(table, w[2], k)
  <1>11. IsRightRow(Stack(c), f, heap[c].ip, row)
    <2>1. chunk.low_index \in Nat /\ chunk.high_index \in Nat /\ k \in (chunk.low_index + 1)..chunk.high_index
      BY <1>7, AnswersAreRows DEF ChunkInfo
    <2>2. PICK x \in ChunksOf(g) : x.shard_index = chunk.shard_index /\ w[2] = x.high_index
      BY <1>3, OnCpu, Zenon DEF IsLookup, Written
    <2>3. /\ w[2] \in Nat /\ Len(table) \in Nat /\ w[2] <= Len(table) /\ chunk.high_index <= Len(table)
          /\ w[2] <= chunk.low_index \/ chunk.high_index <= w[2]
      <3>1. x \in ChunkInfo /\ x.high_index \in Nat
        BY <1>4, <2>2, TablesAssumption, Zenon DEF ChunkInfo
      <3>2. x.high_index <= Len(Tables[g][x.shard_index]) /\ Len(Tables[g][chunk.shard_index]) \in Nat
        BY <1>4, <1>7, <2>2, TablesAssumption, Zenon
      <3>3. chunk.high_index <= Len(Tables[g][chunk.shard_index])
        BY <1>4, <1>7, TablesAssumption, Zenon
      <3>4. x.high_index <= chunk.low_index \/ chunk.high_index <= x.high_index
        BY <1>4, <1>7, <2>2, TablesAssumption, Zenon
      <3> QED
        BY <1>9, <2>2, <3>1, <3>2, <3>3, <3>4
    <2>4. PICK lo \in Nat, hi \in Nat, v \in Nat, u \in Nat :
             lo = chunk.low_index /\ hi = chunk.high_index /\ v = w[2] /\ u = Len(table)
      BY <2>1, <2>3, Zenon
    <2>5. k \in (lo + 1)..hi /\ v <= u /\ hi <= u /\ (v <= lo \/ hi <= v)
      BY <2>1, <2>3, <2>4, Zenon
    <2>6. CASE v <= lo
      <3>1. ~(k <= v)
        BY <2>5, <2>6, InChunk
      <3>2. ~Supported(row)
        BY <2>4, <3>1, Zenon DEF Supported, RowOf
      <3> QED
        BY <3>2, Zenon DEF IsRightRow
    <2>7. CASE hi <= v
      <3>1. \A l \in (lo + 1)..hi : l <= v /\ l <= u
        BY <2>5, <2>7, InChunk
      <3>2. \A l \in (lo + 1)..hi : RowOf(table, v, l) = RowOf(table, u, l)
        BY <3>1, Zenon DEF RowOf
      <3>3. Answers(table, v, chunk, a) = Answers(table, u, chunk, a)
        <4>1. PICK o, b : o = chunk /\ b = a
          BY Zenon
        <4>2. SameRows(table, v, u, o)
          BY <2>4, <3>2, <4>1, Zenon DEF SameRows
        <4>3. SameAnswers(table, v, u, o, b)
          BY <4>2, AnswersSame, Zenon
        <4> QED
          BY <4>1, <4>3, Zenon DEF SameAnswers
      <3>4. row = table[k]
        BY <2>4, <2>5, <3>1, Zenon DEF RowOf
      <3>5. k \in Answers(table, Len(table), chunk, a)
        BY <2>4, <3>3, Zenon
      <3> QED
        BY <1>10, <3>4, <3>5, Zenon
    <2> QED
      BY <2>5, <2>6, <2>7
  <1> QED
    BY <1>2, <1>8, <1>11, Zenon

\* find_offset_for_pc's answer: the walk fails, reaches the bottom or goes to the caller.
LEMMA WalkRowMoves ==
    ASSUME StackInv, NEW c \in Cpus, WalkRow(c)
    PROVE  Moves(c)
  <1>1. PICK table : table = Tables[run[c].rows[1]][run[c].chunk.shard_index]
    BY Zenon
  <1> DEFINE K == Answers(table, run[c].rows[2], run[c].chunk, heap[c].ip - run[c].offset)
             row(k) == RowOf(table, run[c].rows[2], k)
  <1>2. /\ run[c].at = "row"
        /\ \/ Stop(c, heap[c], "none", {})
           \/ \E k \in K : \/ Goto(c, "bottom") /\ UNCHANGED heap
                           \/ ~EndsStack(row(k)) /\ TableFrame(c, row(k))
    BY <1>1, Zenon DEF WalkRow
  <1>3. CASE Stop(c, heap[c], "none", {})
    BY <1>3, OnCpu, AsksAreRequests, TableFailures, StopMoves, Zenon
  <1>4. CASE Goto(c, "bottom") /\ UNCHANGED heap
    <2>1. run[c] \in Programs /\ DOMAIN run = Cpus /\ run[c].at \in Lookups
      BY <1>2, OnCpu DEF Lookups, StackInv
    <2>2. PICK p : p = [run[c] EXCEPT !.at = "bottom", !.walking = run[c].walking]
      BY Zenon
    <2>3. p = [run[c] EXCEPT !.at = "bottom"]
      BY <2>1, <2>2, Zenon DEF Programs
    <2>4. RunMoves(c, p)
      BY <1>4, <2>1, <2>3 DEF Goto, RunMoves
    <2>5. run[c].walking \in BOOLEAN
      BY <2>1, ProgramFields
    <2> QED
      BY <1>4, <2>1, <2>2, <2>4, <2>5, GotoMoves, Zenon
  <1>5. ASSUME NEW k \in K, ~EndsStack(row(k)), TableFrame(c, row(k))
        PROVE  Moves(c)
    <2>1. IsRow(row(k))
      BY <1>1, <1>2, RowIs, Zenon
    <2>2. ~run[c].stale => \E f : /\ IsAt(heap[c], Stack(c), f, Done(heap[c], run[c]))
                                  /\ Stack(c).frames[f].kind # "jit"
                                  /\ IsRightRow(Stack(c), f, heap[c].ip, row(k))
      BY <1>1, <1>2, RowIsRight, Zenon
    <2> HIDE DEF row
    <2> QED
      BY <1>5, <2>1, <2>2, TableFrameMoves
  <1> QED
    BY <1>2, <1>3, <1>4, <1>5, Zenon

\* The body of the loop of walk_user_stacktrace_impl, for one frame.
LEMMA WalkFrameMoves ==
    ASSUME StackInv, NEW c \in Cpus, WalkFrame(c)
    PROVE  Moves(c)
  <1> DEFINE shard == run[c].chunk.shard_index
             w == unwind_tables[shard]
  <1>1. run[c].at = "use" /\ run[c] \in Programs /\ DOMAIN run = Cpus /\ heap[c] \in Heap
    BY OnCpu DEF WalkFrame, StackInv
  <1>2. "none" \in Failures /\ {} \in Requests /\ Ask(c, "refresh") \in Requests
    BY TableFailures, AsksAreRequests, Zenon
  <1>3. CASE Stop(c, heap[c], "none", {}) \/ Stop(c, heap[c], "none", Ask(c, "refresh"))
    BY <1>1, <1>2, <1>3, StopMoves, Zenon
  <1>4. CASE Goto(c, "bottom") /\ UNCHANGED heap
    <2>1. run[c].at \in Lookups /\ run[c].walking \in BOOLEAN
      BY <1>1, ProgramFields DEF Lookups
    <2>2. PICK p : p = [run[c] EXCEPT !.at = "bottom", !.walking = run[c].walking]
      BY Zenon
    <2>3. p = [run[c] EXCEPT !.at = "bottom"]
      BY <1>1, <2>2, Zenon DEF Programs
    <2>4. RunMoves(c, p)
      BY <1>1, <1>4, <2>3 DEF Goto, RunMoves
    <2> QED
      BY <1>4, <2>1, <2>2, <2>4, GotoMoves, Zenon
  <1>5. CASE /\ run[c].find = "SUCCESS" /\ shard \in DOMAIN unwind_tables /\ UNCHANGED heap
             /\ run' = [run EXCEPT ![c].at = "row", ![c].rows = w,
                                   ![c].stale = run[c].stale \/ w[1] # run[c].generation]
    <2> DEFINE p == run'[c]
    <2>1. PICK stale : stale = (run[c].stale \/ w[1] # run[c].generation)
      BY Zenon
    <2>2. Written(w, shard) /\ shard \in Shards
      BY <1>5, Zenon DEF StackInv, MapsInv
    <2>3. w \in Nat \X Nat
      BY <2>2, TablesAssumption, Zenon DEF Written
    <2>4. p = [run[c] EXCEPT !.at = "row", !.rows = w, !.stale = stale]
      BY <1>1, <1>5, <2>1
    <2>5. RunMoves(c, p)
      BY <1>1, <1>5 DEF RunMoves
    <2> HIDE DEF p
    <2>6. "row" \in Points /\ "row" \in Lookups /\ "use" \in Lookups /\ stale \in BOOLEAN
      BY <2>1 DEF Points, Lookups
    <2>7. /\ p \in Programs /\ p.at = "row" /\ p.stack = run[c].stack /\ p.i = run[c].i
          /\ p.stale = stale /\ p.rows = w /\ p.generation = run[c].generation /\ p.chunk = run[c].chunk
          /\ p.exe = run[c].exe /\ p.offset = run[c].offset
      BY <1>1, <2>3, <2>4, <2>6, Zenon DEF Programs
    <2>8. IsLookup(p)
      BY <2>2, <2>7 DEF IsLookup
    <2>9. ASSUME ~p.stale, NEW f, HasFound(heap[c], run[c], Stack(c), f)
          PROVE  HasFound(heap[c], p, Stack(c), f)
      <3>1. HasMapping(heap[c], run[c]) /\ HasChunk(heap[c], run[c]) /\ w[1] = run[c].generation
        BY <1>1, <1>5, <2>1, <2>7, <2>9, Zenon DEF HasFound
      <3>2. HasMapping(heap[c], p) /\ HasChunk(heap[c], p)
        BY <2>7, <3>1, Zenon DEF HasMapping, HasChunk
      <3> QED
        BY <2>7, <3>1, <3>2 DEF HasFound
    <2>10. run[c].stale => p.stale
      BY <2>1, <2>7, Zenon
    <2> QED
      BY <1>1, <1>5, <2>5, <2>6, <2>7, <2>8, <2>9, <2>10, LookMoves
  <1>6. CASE run[c].find = "JITTED" /\ JitFrame(c)
    BY <1>1, <1>6, JitFrameMoves
  <1> QED
    <2>1. \/ run[c].find = "JITTED" /\ JitFrame(c)
          \/ Stop(c, heap[c], "none", {}) \/ Stop(c, heap[c], "none", Ask(c, "refresh"))
          \/ Goto(c, "bottom") /\ UNCHANGED heap
          \/ /\ run[c].find = "SUCCESS" /\ shard \in DOMAIN unwind_tables /\ UNCHANGED heap
             /\ run' = [run EXCEPT ![c].at = "row", ![c].rows = w,
                                   ![c].stale = run[c].stale \/ w[1] # run[c].generation]
      BY Zenon DEF WalkFrame
    <2> QED
      BY <1>3, <1>4, <1>5, <1>6, <2>1, Zenon

\* After the loop: the bottom of the stack, the tail call or the truncated stack.
LEMMA BottomMoves ==
    ASSUME StackInv, NEW c \in Cpus, Bottom(c)
    PROVE  Moves(c)
  <1>1. HeapMoves(c, heap[c]) /\ heap[c] \in Heap /\ run[c].at = "bottom"
    BY HeapStays, Zenon DEF Bottom
  <1>2. \/ \E counter \in Failures, events \in Requests : End(c, counter, events)
        \/ End(c, "success_dwarf", {}) \/ End(c, "success_dwarf", {<<"mappings", Tgid[run[c].thread]>>})
    <2>1. {"none", "error_pc_not_covered", "error_jit"} \subseteq Failures
      BY DEF Failures, Counters
    <2> QED
      BY <2>1, AsksAreRequests, Zenon DEF Bottom, AddStack
  <1>3. "success_dwarf" \in Counters \cup {"none"} /\ "success_dwarf" # "error_truncated" /\ "bottom" \in Lookups
    BY DEF Counters, Lookups
  <1>4. ~run[c].stale => IsInnermost(heap[c], Stack(c))
    BY <1>1, <1>3, OnCpu, Zenon DEF WalkInv, IsAt, RecordedTo, IsInnermost
  <1>5. CASE \E counter \in Failures, events \in Requests : End(c, counter, events)
    BY <1>1, <1>5, FailMoves, Zenon
  <1>6. ASSUME NEW events \in Requests, End(c, "success_dwarf", events) PROVE Moves(c)
    BY <1>1, <1>3, <1>4, <1>6, EndMoves
  <1> QED
    BY <1>2, <1>5, <1>6, AsksAreRequests, Zenon

\* The timer fires: profile_cpu starts on a stack of the task it interrupts.
LEMMA SampleMoves ==
    ASSUME StackInv, NEW c \in Cpus, NEW t \in Threads, NEW k \in DOMAIN Stacks, Sample(c, t, k)
    PROVE  Moves(c)
  <1> DEFINE s == Stacks[k]
             h == heap[c]
  <1>1. IsSituation(s) /\ h \in Heap /\ DOMAIN run = Cpus
    BY StacksAssumption, OnCpu DEF StackInv
  <1>2. PICK known \in IF s.in_kernel THEN RegistersReadable ELSE {TRUE} :
          LET regs == IF known THEN s.regs ELSE [ip |-> h.ip, sp |-> h.sp, bp |-> h.bp]
          IN /\ heap' = [heap EXCEPT ![c] = InitialState(h, regs)]
             /\ run' = [run EXCEPT ![c] =
                   [at |-> IF HasFp(s.memory, regs.bp) THEN "add_stack_fp" ELSE "profile",
                    thread |-> t, stack |-> k, walking |-> FALSE, i |-> 0,
                    find |-> "SUCCESS", exe |-> 0, offset |-> 0, generation |-> 0,
                    chunk |-> NoChunk, rows |-> <<0, 0>>, covered |-> Covered(t, s), stale |-> ~known,
                    counter |-> "none", events |-> {}]]
    BY Zenon DEF Sample
  <1>3. PICK regs : regs = IF known THEN s.regs ELSE [ip |-> h.ip, sp |-> h.sp, bp |-> h.bp]
    BY Zenon
  <1>4. PICK at, covered, stale, p :
           /\ at = IF HasFp(s.memory, regs.bp) THEN "add_stack_fp" ELSE "profile"
           /\ covered = Covered(t, s) /\ stale = ~known
           /\ p = [at |-> at, thread |-> t, stack |-> k, walking |-> FALSE, i |-> 0,
                   find |-> "SUCCESS", exe |-> 0, offset |-> 0, generation |-> 0,
                   chunk |-> NoChunk, rows |-> <<0, 0>>, covered |-> covered, stale |-> stale,
                   counter |-> "none", events |-> {}]
    BY Zenon
  <1>5. heap' = [heap EXCEPT ![c] = InitialState(h, regs)] /\ run' = [run EXCEPT ![c] = p]
    BY <1>2, <1>3, <1>4, Zenon
  <1>6. PICK g : g = InitialState(h, regs)
    BY Zenon
  <1>7. HeapMoves(c, g) /\ RunMoves(c, p)
    BY <1>1, <1>5, <1>6, HeapSet, Zenon DEF RunMoves
  <1>8. regs.ip \in Address /\ regs.sp \in Address /\ regs.bp \in Address
    <2>1. 1 \in 1..Len(s.frames)
      BY <1>1 DEF IsSituation
    <2>2. s.regs.ip \in Address /\ s.regs.sp \in Address /\ s.regs.bp \in Address
      BY <1>1, <2>1 DEF IsSituation
    <2>3. h.ip \in Address /\ h.sp \in Address /\ h.bp \in Address
      BY <1>1, HeapFields
    <2> QED
      BY <1>3, <2>2, <2>3
  <1>9. 0 \in 0..MaxTailCalls /\ 0 \in 0..MaxStackDepth /\ 0 \in 0..(MaxStackDepthPerProgram - 1)
    BY SizesAssumption
  <1>10. /\ g \in Heap /\ g.ip = regs.ip /\ g.sp = regs.sp /\ g.bp = regs.bp /\ g.tail_calls = 0
         /\ g.unwinding_jit = FALSE /\ g.len = 0
    BY <1>1, <1>6, <1>8, <1>9, Zenon DEF InitialState, Heap
  <1>11. /\ at \in {"add_stack_fp", "profile"} /\ at \in Points /\ "SUCCESS" \in Finds /\ NoChunk \in ChunkInfo
         /\ "none" \in Counters \cup {"none"} /\ {} \in Requests
    BY <1>4 DEF Points, Lookups, Finds, NoChunk, ChunkInfo, Requests
  <1>12. covered \in BOOLEAN /\ stale \in BOOLEAN
    BY <1>4 DEF Covered
  <1>13. p \in Programs /\ p.at = at /\ p.stack = k /\ p.i = 0 /\ p.stale = stale
    BY <1>4, <1>9, <1>11, <1>12 DEF Programs
  <1>14. IsLookup(p) /\ \A f : HasFound(g, p, s, f)
    BY <1>11, <1>13 DEF IsLookup, HasFound
  <1>15. Done(g, p) = 0
    BY <1>10, <1>13, SizesAssumption DEF Done
  <1>16. ~p.stale => 1 \in 1..Len(s.frames) /\ IsAt(g, s, 1, 0)
    <2> SUFFICES ASSUME ~p.stale PROVE 1 \in 1..Len(s.frames) /\ IsAt(g, s, 1, 0)
      OBVIOUS
    <2>1. 1 \in 1..Len(s.frames)
      BY <1>1 DEF IsSituation
    <2>2. regs = s.regs
      BY <1>3, <1>4, <1>13, Zenon
    <2>3. RegistersAt(g, s, 1)
      <3>1. s.regs.ip = s.frames[1].address /\ s.regs.sp = s.frames[1].sp /\ s.regs.bp = s.frames[1].bp
        BY <1>1 DEF IsSituation
      <3>2. g.ip = s.frames[1].address /\ g.sp = s.frames[1].sp /\ g.bp = s.frames[1].bp
        BY <1>10, <2>2, <3>1, Zenon
      <3>3. ~(1 > 1)
        OBVIOUS
      <3> QED
        BY <1>10, <2>1, <3>2, <3>3, Zenon DEF RegistersAt
    <2>4. RecordedTo(g, s, 0)
      <3>1. 0 \in Nat /\ IsSituation(s)
        BY <1>1
      <3> QED
        BY <1>10, <3>1, RecordNone, Zenon
    <2> QED
      BY <1>10, <2>1, <2>3, <2>4 DEF IsAt, Passed
  <1>17. WalkInv(g, p)
    BY <1>11, <1>13, <1>14, <1>15, <1>16 DEF WalkInv, Lookups
  <1> QED
    BY <1>7, <1>10, <1>13, <1>14, <1>17, Zenon DEF Moves, CpuInv

\* An agent's step changes no program, except for what it is covered by.
LEMMA KeepCoveredKeeps ==
    ASSUME StackInv, UNCHANGED heap, KeepCovered, MapsInv'
    PROVE  StackInv'
  <1>1. DOMAIN heap' = Cpus /\ DOMAIN run' = Cpus
    BY DEF StackInv, KeepCovered
  <1>2. ASSUME NEW c \in Cpus PROVE CpuInv(heap'[c], run'[c])
    <2>1. PICK b \in BOOLEAN : run'[c] = [run[c] EXCEPT !.covered = b]
      BY <1>2, Zenon DEF KeepCovered
    <2>2. PICK p : p = run'[c]
      BY Zenon
    <2>3. heap'[c] = heap[c] /\ CpuInv(heap[c], run[c])
      BY <1>2, Zenon DEF StackInv
    <2>4. /\ p \in Programs /\ p.at = run[c].at /\ p.stack = run[c].stack /\ p.i = run[c].i
          /\ p.stale = run[c].stale /\ p.find = run[c].find /\ p.exe = run[c].exe /\ p.offset = run[c].offset
          /\ p.generation = run[c].generation /\ p.chunk = run[c].chunk /\ p.rows = run[c].rows
          /\ p.counter = run[c].counter
      BY <2>1, <2>2, <2>3 DEF Programs, CpuInv
    <2>5. IsLookup(p)
      BY <2>3, <2>4 DEF IsLookup, CpuInv
    <2>6. Done(heap[c], p) = Done(heap[c], run[c])
      BY <2>4 DEF Done
    <2>7. \A s, f : HasFound(heap[c], run[c], s, f) => HasFound(heap[c], p, s, f)
      BY <2>4, ZenonT(60) DEF HasFound, HasMapping, HasChunk
    <2>8. WalkInv(heap[c], p)
      BY <2>3, <2>4, <2>6, <2>7 DEF WalkInv, CpuInv
    <2> QED
      BY <2>2, <2>3, <2>4, <2>5, <2>8 DEF CpuInv
  <1>3. (\A c \in Cpus : CpuInv(heap[c], run[c]))'
    BY <1>2, Zenon
  <1> QED
    BY <1>1, <1>3, Zenon DEF StackInv

\* A program reads the maps of the agent and writes none of them.
LEMMA MapsStay ==
    ASSUME MapsInv, UNCHANGED <<maps, generation, clearing, loaded>>
    PROVE  MapsInv'
  BY DEF MapsInv, maps, Written

\* Every step of a program preserves the invariant.
LEMMA ProgramKeeps ==
    ASSUME StackInv, NEW c \in Cpus, Program(c)
    PROVE  StackInv'
  <1>1. Moves(c)
    BY AddStackFpMoves, ProfileCpuMoves, ProfileDecidesMoves, FindMappingMoves, FindChunkMoves,
       WalkFrameMoves, WalkRowMoves, BottomMoves, Zenon DEF Program
  <1>2. UNCHANGED <<maps, generation, clearing, loaded>>
    BY Zenon DEF Program, AddStackFp, ProfileCpu, ProfileDecides, FindMapping, FindChunk, WalkFrame, WalkRow,
           Bottom, environment
  <1>3. MapsInv'
    BY <1>2, MapsStay, Zenon DEF StackInv
  <1> QED
    BY <1>1, <1>3, MovesKeep

\* So does the start of a program.
LEMMA SampleKeeps ==
    ASSUME StackInv, NEW c \in Cpus, NEW t \in Threads, NEW k \in DOMAIN Stacks, Sample(c, t, k)
    PROVE  StackInv'
  <1>1. UNCHANGED <<maps, generation, clearing, loaded>>
    BY Zenon DEF Sample
  <1>2. MapsInv'
    BY <1>1, MapsStay, Zenon DEF StackInv
  <1> QED
    BY <1>2, SampleMoves, MovesKeep

\* The agent writes the chunks of an executable.
LEMMA PublishChunksKeeps ==
    ASSUME StackInv, NEW e \in Executables, PublishChunks(e)
    PROVE  StackInv'
  <1>1. MapsInv'
    BY DEF StackInv, MapsInv, PublishChunks, environment, Written
  <1>2. UNCHANGED heap /\ KeepCovered
    BY Zenon DEF PublishChunks
  <1> QED
    BY <1>1, <1>2, KeepCoveredKeeps

\* The agent writes the rows of a shard.
LEMMA PersistShardKeeps ==
    ASSUME StackInv, NEW shard \in Shards, PersistShard(shard)
    PROVE  StackInv'
  <1>1. UNCHANGED heap /\ KeepCovered /\ UNCHANGED <<process_info, unwind_info_chunks, generation, clearing, loaded>>
    BY Zenon DEF PersistShard, environment
  <1>2. PICK n \in {chunk.high_index : chunk \in ChunksIn(shard, Executables)} :
           unwind_tables' = Put(unwind_tables, shard, <<generation, n>>)
    BY Zenon DEF PersistShard
  <1>3. generation \in Generations
    BY DEF StackInv, MapsInv
  <1>4. PICK x \in ChunksOf(generation) : x.shard_index = shard /\ n = x.high_index
    BY Zenon DEF ChunksIn, ChunksOf
  <1>5. n \in Nat
    BY <1>3, <1>4, TablesAssumption DEF ChunkInfo
  <1>6. Written(<<generation, n>>, shard)
    BY <1>3, <1>4, <1>5 DEF Written
  <1>7. ASSUME NEW other \in DOMAIN unwind_tables'
        PROVE  other \in Shards /\ Written(unwind_tables'[other], other)
    <2>1. CASE other = shard
      BY <1>2, <1>6, <1>7, <2>1 DEF Put
    <2>2. CASE other # shard
      <3>1. other \in DOMAIN unwind_tables /\ unwind_tables'[other] = unwind_tables[other]
        BY <1>2, <1>7, <2>2 DEF Put
      <3> QED
        BY <3>1 DEF StackInv, MapsInv
    <2> QED
      BY <2>1, <2>2
  <1>8. MapsInv'
    BY <1>1, <1>7, Zenon DEF StackInv, MapsInv, Written
  <1> QED
    BY <1>1, <1>8, KeepCoveredKeeps

\* The agent writes the mappings of a process.
LEMMA WriteProcessInfoKeeps ==
    ASSUME StackInv, NEW t \in Threads, WriteProcessInfo(t)
    PROVE  StackInv'
  <1>1. /\ UNCHANGED heap /\ KeepCovered /\ ~clearing
        /\ UNCHANGED <<unwind_tables, unwind_info_chunks, generation, clearing, loaded>>
    BY Zenon DEF WriteProcessInfo, environment
  <1>2. PICK n \in 1..loaded : process_info' = Put(process_info, t, <<generation, n>>)
    BY Zenon DEF WriteProcessInfo
  <1>3. n \in DOMAIN Layouts[1]
    BY DEF StackInv, MapsInv
  <1>4. ASSUME NEW other \in DOMAIN process_info'
        PROVE  /\ other \in Threads
               /\ process_info'[other][1] = generation /\ process_info'[other][2] \in DOMAIN Layouts[1]
    <2>1. CASE other = t
      BY <1>2, <1>3, <1>4, <2>1 DEF Put
    <2>2. CASE other # t
      <3>1. other \in DOMAIN process_info /\ process_info'[other] = process_info[other]
        BY <1>2, <1>4, <2>2 DEF Put
      <3> QED
        BY <3>1 DEF StackInv, MapsInv
    <2> QED
      BY <2>1, <2>2
  <1>5. MapsInv'
    BY <1>1, <1>4, Zenon DEF StackInv, MapsInv, Written
  <1> QED
    BY <1>1, <1>5, KeepCoveredKeeps

\* The agent clears process_info, then the chunks, and starts the next generation.
LEMMA CleanKeeps ==
    ASSUME StackInv, CleanProcessInfo \/ CleanShardInfo
    PROVE  StackInv'
  <1>1. DOMAIN <<>> = {}
    OBVIOUS
  <1>2. CASE CleanProcessInfo
    <2>1. MapsInv'
      BY <1>1, <1>2, ZenonT(60) DEF StackInv, MapsInv, CleanProcessInfo, Written
    <2> QED
      BY <1>2, <2>1, KeepCoveredKeeps DEF CleanProcessInfo
  <1>3. CASE CleanShardInfo
    <2>1. MapsInv'
      BY <1>3, ZenonT(60) DEF StackInv, MapsInv, CleanShardInfo, Written
    <2> QED
      BY <1>3, <2>1, KeepCoveredKeeps DEF CleanShardInfo
  <1> QED
    BY <1>2, <1>3

\* A process maps more code.
LEMMA LoadCodeKeeps ==
    ASSUME StackInv, LoadCode
    PROVE  StackInv'
  <1>1. UNCHANGED <<heap, run, maps, generation, clearing>>
    BY Zenon DEF LoadCode
  <1>2. loaded' \in Nat /\ 1..loaded' \subseteq DOMAIN Layouts[1]
    BY DEF StackInv, MapsInv, LoadCode
  <1>3. MapsInv'
    BY <1>1, <1>2, Zenon DEF StackInv, MapsInv, maps, Written
  <1>4. (\A c \in Cpus : CpuInv(heap[c], run[c]))'
    BY <1>1 DEF StackInv
  <1> QED
    BY <1>1, <1>3, <1>4, Zenon DEF StackInv

\* Before the first sample the heap map may hold anything a former run of the program left.
LEMMA InitStackInv ==
    ASSUME Init
    PROVE  StackInv
  <1>1. PICK tail_calls \in {0, MaxTailCalls}, jit \in BOOLEAN, len \in {0, MaxStackDepth} :
          heap = [c \in Cpus |-> [ip |-> 0, sp |-> 0, bp |-> 0, tail_calls |-> tail_calls,
                                  unwinding_jit |-> jit, len |-> len,
                                  addresses |-> [k \in 1..MaxStackDepth |-> 0]]]
    BY Zenon DEF Init
  <1>2. 0 \in Address /\ tail_calls \in 0..MaxTailCalls /\ len \in 0..MaxStackDepth
        /\ 0 \in 0..(MaxStackDepthPerProgram - 1)
    BY SizesAssumption DEF Address
  <1>3. PICK t, x : t = (CHOOSE y \in Threads : TRUE) /\ x = (CHOOSE y \in DOMAIN Stacks : TRUE)
    BY Zenon
  <1>4. t \in Threads /\ x \in DOMAIN Stacks
    BY <1>3, StacksAssumption
  <1>5. run = [c \in Cpus |->
                [at |-> "idle", thread |-> t, stack |-> x, walking |-> FALSE, i |-> 0,
                 find |-> "SUCCESS", exe |-> 0, offset |-> 0, generation |-> 0,
                 chunk |-> NoChunk, rows |-> <<0, 0>>, covered |-> FALSE, stale |-> FALSE,
                 counter |-> "none", events |-> {}]]
    BY <1>3 DEF Init
  <1>6. ASSUME NEW c \in Cpus PROVE CpuInv(heap[c], run[c])
    <2>1. heap[c] \in Heap
      BY <1>1, <1>2 DEF Heap
    <2>2. run[c] \in Programs /\ run[c].at = "idle" /\ run[c].counter = "none"
      <3>1. "idle" \in Points /\ "SUCCESS" \in Finds /\ NoChunk \in ChunkInfo /\ {} \in Requests
        BY DEF Points, Finds, NoChunk, ChunkInfo, Requests
      <3> QED
        BY <1>2, <1>4, <1>5, <3>1 DEF Programs
    <2>3. IsLookup(run[c]) /\ WalkInv(heap[c], run[c])
      BY <2>2 DEF IsLookup, WalkInv, Lookups
    <2> QED
      BY <2>1, <2>2, <2>3 DEF CpuInv
  <1>7. MapsInv
    <2>1. DOMAIN <<>> = {}
      OBVIOUS
    <2>3. loaded = 1
      BY Zenon DEF Init
    <2>2. 1..loaded \subseteq DOMAIN Layouts[1] /\ loaded \in Nat
      BY <2>3, LayoutsAssumption
    <2> QED
      BY <2>1, <2>2, TablesAssumption, Zenon DEF Init, MapsInv
  <1>8. DOMAIN heap = Cpus /\ DOMAIN run = Cpus
    BY <1>1, <1>5
  <1> QED
    BY <1>6, <1>7, <1>8, Zenon DEF StackInv

\* Every step preserves the invariant: one case for each action.
LEMMA StackInvKeeps ==
    ASSUME StackInv, [Next]_vars
    PROVE  StackInv'
  <1>1. CASE UNCHANGED vars
    <2>1. UNCHANGED <<heap, run, maps, generation, clearing, loaded>>
      BY <1>1, Zenon DEF vars, environment
    <2>2. MapsInv'
      BY <2>1, MapsStay, Zenon DEF StackInv
    <2>3. (\A c \in Cpus : CpuInv(heap[c], run[c]))'
      BY <2>1 DEF StackInv
    <2> QED
      BY <2>1, <2>2, <2>3, Zenon DEF StackInv
  <1>2. CASE Next
    BY <1>2, ProgramKeeps, SampleKeeps, PublishChunksKeeps, PersistShardKeeps, WriteProcessInfoKeeps,
       CleanKeeps, LoadCodeKeeps, Zenon DEF Next, Agent
  <1> QED
    BY <1>1, <1>2

\* The invariant holds throughout.
LEMMA StackInvariant == Spec => []StackInv
  BY InitStackInv, StackInvKeeps, PTL DEF Spec

\* The properties follow from the invariant.
LEMMA StackInvImplies ==
    ASSUME StackInv
    PROVE  TypeOK /\ RecordedIsStack /\ TruncatedOnlyWhenDeep
  <1>1. TypeOK
    <2>1. ASSUME NEW c \in Cpus
          PROVE  /\ heap[c].addresses \in [1..MaxStackDepth -> 0..(Word - 1)]
                 /\ heap[c].len \in 0..MaxStackDepth /\ heap[c].tail_calls \in 0..MaxTailCalls
                 /\ heap[c].ip \in 0..(Word - 1) /\ heap[c].sp \in 0..(Word - 1)
                 /\ heap[c].bp \in 0..(Word - 1) /\ heap[c].unwinding_jit \in BOOLEAN
                 /\ run[c].find \in Finds /\ run[c].counter \in Counters \cup {"none"}
                 /\ run[c].i \in 0..(MaxStackDepthPerProgram - 1)
      <3>1. heap[c] \in Heap /\ run[c] \in Programs
        BY <2>1, OnCpu, Zenon
      <3>2. /\ heap[c].ip \in Address /\ heap[c].sp \in Address /\ heap[c].bp \in Address
            /\ heap[c].tail_calls \in 0..MaxTailCalls /\ heap[c].unwinding_jit \in BOOLEAN
            /\ heap[c].len \in 0..MaxStackDepth /\ heap[c].addresses \in [1..MaxStackDepth -> Address]
        BY <3>1, HeapFields, Zenon
      <3>3. /\ run[c].find \in Finds /\ run[c].counter \in Counters \cup {"none"}
            /\ run[c].i \in 0..(MaxStackDepthPerProgram - 1)
        BY <3>1, ProgramFields, Zenon
      <3> QED
        BY <3>2, <3>3, Zenon DEF Address
    <2> QED
      BY <2>1, Zenon DEF TypeOK, StackInv, MapsInv
  <1>2. RecordedIsStack
    BY OnCpu DEF RecordedIsStack, Recorded, Idle, WalkInv
  <1>3. TruncatedOnlyWhenDeep
    BY OnCpu DEF TruncatedOnlyWhenDeep, Idle, WalkInv
  <1> QED
    BY <1>1, <1>2, <1>3

\* Type correctness: no program writes past the array of addresses, counts more frames or tail calls
\* than its limits, or leaves the heap map with a value that is no register (walk_user_stacktrace_impl).
THEOREM StackTypeCorrect == Spec => []TypeOK
  BY StackInvariant, StackInvImplies, PTL

\* When a walk ends with success_dwarf, having met no rows, chunks or mappings of two generations, the
\* addresses it has recorded (add_frame in walk_user_stacktrace_impl) are those of the innermost frames that are to be
\* found, in order, for all stacks, mappings, chunks and rows that meet the assumptions and any number of CPUs: no
\* frame is skipped, repeated or made up, whatever the agent writes between two lookups.
THEOREM WalksRecordStacks == Spec => []RecordedIsStack
  BY StackInvariant, StackInvImplies, PTL

\* A walk that met no two generations counts error_truncated only for a stack with more frames than
\* fit: the tail calls of walk_user_stacktrace_impl suffice for every other.
THEOREM WalksTruncateDeepStacks == Spec => []TruncatedOnlyWhenDeep
  BY StackInvariant, StackInvImplies, PTL
=============================================================================
