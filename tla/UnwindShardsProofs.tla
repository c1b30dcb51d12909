------------------------- MODULE UnwindShardsProofs -------------------------
(* Proofs about UnwindShards, for every value of its constants. *)
EXTENDS UnwindShards, TLAPS

\* A call that deals with a table has an executable, and has not split more rows
\* than its table has.
CallInv ==
    /\ stage # "idle" => pid \in Pids
    /\ stage \in {"mappings", "table", "full"} => mappings \in MappingLists
    /\ stage \in {"table", "full"} => exe \in BuildIDs /\ done <= TableLen[exe]

\* The indexes, strengthened: the in-flight shard has room whenever no reset is
\* awaited, except between filling it and allocating the next one.
IndexInv ==
    /\ Len(inFlight) = highIndex
    /\ lowIndex = highIndex
    /\ highIndex <= MaxUnwindTableSize
    /\ ~waitingUnwind /\ stage # "full" => highIndex < MaxUnwindTableSize

Inv1 == TypeOK /\ CallInv /\ IndexInv

USE DEF shardVars, idVars, bpfVars, resetVars, processResetVars, callVars, tableVars, callerVars

\* The rows that are appended to a shard come after those it has.
LEMMA JoinedRows ==
    ASSUME NEW S, NEW q \in Seq(S), NEW r \in Seq(S)
    PROVE  /\ q \o r \in Seq(S) /\ Len(q \o r) = Len(q) + Len(r)
           /\ \A i \in 1..(Len(q) + Len(r)) : (q \o r)[i] = IF i <= Len(q) THEN q[i] ELSE r[i - Len(q)]
  <1>1. q \o r \in Seq(S) /\ Len(q \o r) = Len(q) + Len(r)
    OBVIOUS
  <1>2. ASSUME NEW i \in 1..(Len(q) + Len(r)), i <= Len(q) PROVE (q \o r)[i] = q[i]
    BY <1>2
  <1>3. ASSUME NEW i \in 1..(Len(q) + Len(r)), ~(i <= Len(q)) PROVE (q \o r)[i] = r[i - Len(q)]
    BY <1>3
  <1> QED
    BY <1>1, <1>2, <1>3

\* The length and the places of a list of rows or chunks.
LEMMA LengthOf == ASSUME NEW S, NEW q \in Seq(S) PROVE Len(q) \in Nat /\ DOMAIN q = 1..Len(q)
  OBVIOUS

\* A list that a reset leaves empty.
LEMMA EmptyList == ASSUME NEW S PROVE <<>> \in Seq(S)
  OBVIOUS

\* The slice of the chunks that fit.
LEMMA FirstOnes ==
    ASSUME NEW S, NEW q \in Seq(S), NEW n \in 1..Len(q)
    PROVE  /\ SubSeq(q, 1, n) \in Seq(S) /\ Len(SubSeq(q, 1, n)) = n
           /\ \A i \in 1..n : SubSeq(q, 1, n)[i] = q[i]
  OBVIOUS

\* Updating a map keeps its keys and values within their types.
LEMMA PutType ==
    ASSUME NEW f, NEW K, NEW V, NEW k \in K, NEW v \in V,
           DOMAIN f \subseteq K, \A x \in DOMAIN f : f[x] \in V
    PROVE  /\ DOMAIN Put(f, k, v) \subseteq K
           /\ DOMAIN Put(f, k, v) = DOMAIN f \cup {k}
           /\ \A x \in DOMAIN Put(f, k, v) : Put(f, k, v)[x] \in V
           /\ Put(f, k, v)[k] = v
           /\ \A x \in DOMAIN f : x # k => Put(f, k, v)[x] = f[x]
    BY DEF Put

\* The invariant holds in the state NewMaps leaves behind.
LEMMA InitInv1 == Init => Inv1
  <1> SUFFICES ASSUME Init PROVE Inv1
    OBVIOUS
  <1> USE DEF Init
  <1>1. TypeShards
    BY DEF TypeShards
  <1>2. TypeIDs
    BY DEF TypeIDs
  <1>3. TypeProcesses
    BY DEF TypeProcesses
  <1>4. TypeRounds
    BY SizesAssumption DEF TypeRounds
  <1>5. TypeFlags
    BY ZenonT(60) DEF TypeFlags
  <1>6. TypeCalls
    BY DEF TypeCalls
  <1>7. CallInv
    BY DEF CallInv
  <1>8. IndexInv
    BY SizesAssumption DEF IndexInv
  <1> QED
    BY <1>1, <1>2, <1>3, <1>4, <1>5, <1>6, <1>7, <1>8 DEF Inv1, TypeOK

(* The actions that leave a group of variables alone, once for all the proofs. *)

\* What each action leaves alone, whatever its other effects.
LEMMA Frames ==
    [Next]_vars =>
      /\ \/ UNCHANGED <<shardVars, unwindTables, unwindShards>>
         \/ AppendChunk \/ NewShard \/ PublishChunks \/ PersistUnwindTable
      /\ \/ UNCHANGED idVars
         \/ MappingNew \/ NewShard \/ PublishChunks \/ PersistUnwindTable
      /\ \/ UNCHANGED <<processInfo, processCache, processResetVars>>
         \/ FinalizeProfileLoop \/ NewShard \/ WriteProcessInfo \/ PersistUnwindTable
      /\ \/ UNCHANGED resetVars
         \/ FinalizeProfileLoop \/ NewShard \/ PersistUnwindTable
  BY ZenonT(60) DEF Next, vars, MapsChange, BatchAdd, RefreshRead, FinalizeProfileLoop, RefreshAdd,
         MappingWithoutTable, MappingUnreadable, MappingSeen, MappingNew, TableWaits,
         AppendChunk, PublishChunks, WriteProcessInfo

(* What the iteration that appends a chunk of t rows does. *)

NewRows(t) == [k \in 1..t |-> [exe |-> exe, pc |-> done + k]]

\* An iteration of the splitting loop appends t rows, the last of which ends a function.
LEMMA AppendChunkEffect ==
    ASSUME Inv1, AppendChunk
    PROVE  \E t \in Nat \ {0} :
             /\ exe \in BuildIDs
             /\ highIndex + t <= MaxUnwindTableSize
             /\ done + t <= TableLen[exe]
             /\ NewRows(t) \in Seq(Row) /\ Len(NewRows(t)) = t
             /\ inFlight' = inFlight \o NewRows(t)
             /\ highIndex' = highIndex + t /\ lowIndex' = highIndex + t
             /\ done' = done + t
             /\ chunks' = Append(chunks,
                  [exe |-> exe, lowPc |-> done + 1, highPc |-> done + t,
                   shard |-> shardIndex, low |-> lowIndex, high |-> highIndex + t])
             /\ stage' = IF highIndex + t = MaxUnwindTableSize THEN "full" ELSE "table"
  <1> USE DEF Inv1, TypeOK
  <1>1. PICK t \in 1..MaxThreshold :
          /\ inFlight' = inFlight \o NewRows(t)
          /\ highIndex' = highIndex + t /\ lowIndex' = highIndex + t
          /\ done' = done + t
          /\ chunks' = Append(chunks,
                [exe |-> exe, lowPc |-> done + 1, highPc |-> done + t,
                 shard |-> shardIndex, low |-> lowIndex, high |-> highIndex + t])
          /\ stage' = IF highIndex + t = MaxUnwindTableSize THEN "full" ELSE "table"
    BY ZenonT(60) DEF AppendChunk, NewRows
  <1>2. stage = "table"
    BY DEF AppendChunk
  <1>3. exe \in BuildIDs /\ done \in Nat /\ highIndex \in Nat /\ TableLen[exe] \in Nat
    BY <1>2, TablesAssumption DEF CallInv, TypeCalls, TypeShards
  <1>4. t \in Nat \ {0} /\ highIndex + t <= MaxUnwindTableSize /\ done + t <= TableLen[exe]
    BY <1>3, SizesAssumption DEF MaxThreshold
  <1>5. NewRows(t) \in Seq(Row) /\ Len(NewRows(t)) = t
    BY <1>3, <1>4 DEF Row, NewRows
  <1> QED
    BY <1>1, <1>3, <1>4, <1>5, ZenonT(60)

\* Steps keep the indexes and the shards well typed.
LEMMA NextTypeShards == Inv1 /\ [Next]_vars => TypeShards'
  <1> SUFFICES ASSUME Inv1, [Next]_vars PROVE TypeShards'
    OBVIOUS
  <1> USE DEF Inv1, TypeOK, TypeShards
  <1>1. CASE UNCHANGED <<shardVars, unwindTables, unwindShards>>
    BY <1>1
  <1>2. CASE AppendChunk
    <2>1. PICK t \in Nat \ {0} :
            /\ NewRows(t) \in Seq(Row)
            /\ inFlight' = inFlight \o NewRows(t)
            /\ highIndex' = highIndex + t /\ lowIndex' = highIndex + t
      BY <1>2, AppendChunkEffect, ZenonT(60)
    <2>2. inFlight' \in Seq(Row)
      BY <2>1, JoinedRows
    <2>3. UNCHANGED <<shardIndex, unwindTables, unwindShards>>
      BY <1>2 DEF AppendChunk
    <2> QED
      BY <2>1, <2>2, <2>3
  <1>3. ASSUME PersistShard
        PROVE  /\ DOMAIN unwindTables' \subseteq Nat
               /\ \A s \in DOMAIN unwindTables' : unwindTables'[s] \in Seq(Row)
    BY <1>3, PutType, ZenonT(60) DEF PersistShard
  <1>4. CASE NewShard
    <2>1. CASE /\ PersistShard
               /\ inFlight' = <<>> /\ lowIndex' = 0 /\ highIndex' = 0
               /\ shardIndex' = shardIndex + 1
      BY <2>1, <1>3 DEF PersistShard
    <2>2. CASE PersistReset /\ shardIndex' = 1
      BY <2>2 DEF PersistReset
    <2>3. CASE PersistTooSoon
      BY <2>3 DEF PersistTooSoon
    <2> QED
      BY <1>4, <2>1, <2>2, <2>3 DEF NewShard, AllocateNewShard
  <1>5. CASE PublishChunks
    <2>1. /\ chunks \in Seq(Chunk)
          /\ Len(chunks) > MaxUnwindTableChunks =>
                SubSeq(chunks, 1, MaxUnwindTableChunks) \in Seq(Chunk)
      BY SizesAssumption DEF TypeCalls
    <2> QED
      BY <1>5, <2>1, ZenonT(60) DEF PublishChunks, Put, TypeIDs
  <1>6. CASE PersistUnwindTable
    <2>1. CASE PersistShard /\ UNCHANGED shardVars
      BY <2>1, <1>3 DEF PersistShard
    <2>2. CASE PersistReset /\ shardIndex' = 0
      BY <2>2 DEF PersistReset
    <2>3. CASE PersistTooSoon
      BY <2>3 DEF PersistTooSoon
    <2> QED
      BY <1>6, <2>1, <2>2, <2>3 DEF PersistUnwindTable
  <1> QED
    BY <1>1, <1>2, <1>4, <1>5, <1>6, Frames

\* Steps keep the executable IDs well typed.
LEMMA NextTypeIDs == Inv1 /\ [Next]_vars => TypeIDs'
  <1> SUFFICES ASSUME Inv1, [Next]_vars PROVE TypeIDs'
    OBVIOUS
  <1> USE DEF Inv1, TypeOK, TypeIDs
  <1>1. CASE UNCHANGED idVars
    BY <1>1
  <1>2. CASE MappingNew
    <2>1. PICK b \in BuildIDs : /\ buildIDMapping' = Put(buildIDMapping, b, executableID)
                                /\ untabled' \in {untabled, untabled \cup {b}}
      BY <1>2 DEF MappingNew
    <2>2. executableID' = executableID
      BY <1>2 DEF MappingNew
    <2> QED
      BY <2>1, <2>2, PutType, ZenonT(60)
  <1>3. ASSUME PersistShard \/ PersistReset \/ PersistTooSoon PROVE TypeIDs'
    BY <1>3 DEF PersistShard, PersistReset, PersistTooSoon
  <1>4. CASE NewShard
    BY <1>3, <1>4 DEF NewShard, AllocateNewShard
  <1>5. CASE PublishChunks
    BY <1>5 DEF PublishChunks
  <1>6. CASE PersistUnwindTable
    BY <1>3, <1>6 DEF PersistUnwindTable
  <1> QED
    BY <1>1, <1>2, <1>4, <1>5, <1>6, Frames

\* Steps keep process_info and the process cache well typed.
LEMMA NextTypeProcesses == Inv1 /\ [Next]_vars => TypeProcesses'
  <1> SUFFICES ASSUME Inv1, [Next]_vars PROVE TypeProcesses'
    OBVIOUS
  <1> USE DEF Inv1, TypeOK, TypeProcesses
  <1>1. CASE UNCHANGED <<processInfo, processCache>>
    BY <1>1
  <1>2. CASE WriteProcessInfo
    <2>1. pid \in Pids /\ buf \in Seq(Written) /\ mappings \in MappingLists
      BY <1>2 DEF WriteProcessInfo, TypeCalls, CallInv
    <2>2. CASE /\ processInfo' = Put(processInfo, pid, buf)
               /\ processCache' = Put(processCache, pid, mappings)
      BY <2>1, <2>2, PutType, ZenonT(60)
    <2>3. CASE processInfo' = <<>> /\ processCache' = <<>>
      BY <2>3
    <2> QED
      BY <1>1, <1>2, <2>2, <2>3 DEF WriteProcessInfo
  <1>3. ASSUME PersistShard \/ PersistReset \/ PersistTooSoon PROVE TypeProcesses'
    BY <1>3 DEF PersistShard, PersistReset, PersistTooSoon
  <1>4. CASE NewShard
    BY <1>3, <1>4 DEF NewShard, AllocateNewShard
  <1>5. CASE PersistUnwindTable
    BY <1>3, <1>5 DEF PersistUnwindTable
  <1>6. CASE FinalizeProfileLoop
    BY <1>6 DEF FinalizeProfileLoop
  <1> QED
    BY <1>1, <1>2, <1>4, <1>5, <1>6, Frames

\* Steps keep the round counters below MinRounds.
LEMMA NextTypeRounds == Inv1 /\ [Next]_vars => TypeRounds'
  <1> SUFFICES ASSUME Inv1, [Next]_vars PROVE TypeRounds'
    OBVIOUS
  <1> USE SizesAssumption DEF Inv1, TypeOK, TypeRounds
  <1>1. \A n \in 0..MinRounds : NextRound(n) \in 0..MinRounds /\ ZeroedRounds(n) \subseteq 0..MinRounds
    BY DEF NextRound, ZeroedRounds
  <1>2. CASE FinalizeProfileLoop
    BY <1>1, <1>2 DEF FinalizeProfileLoop
  <1>3. ASSUME PersistShard \/ PersistReset \/ PersistTooSoon
        PROVE  unwindRounds' \in 0..MinRounds /\ sinceReset' \in 0..MinRounds
    <2>1. CASE PersistShard \/ PersistTooSoon
      BY <2>1 DEF PersistShard, PersistTooSoon
    <2>2. CASE PersistReset
      <3>1. unwindRounds' \in ZeroedRounds(unwindRounds) \cup {unwindRounds} /\ sinceReset' = 0
        BY <2>2 DEF PersistReset
      <3> QED
        BY <1>1, <3>1
    <2> QED
      BY <1>3, <2>1, <2>2
  <1>4. CASE NewShard
    BY <1>3, <1>4 DEF NewShard, AllocateNewShard
  <1>5. CASE PersistUnwindTable
    BY <1>3, <1>5 DEF PersistUnwindTable
  <1>6. CASE WriteProcessInfo
    <2>1. processRounds' \in 0..MinRounds
      BY <1>1, <1>6 DEF WriteProcessInfo
    <2> QED
      BY <2>1, <1>6 DEF WriteProcessInfo
  <1>7. CASE UNCHANGED <<processResetVars, resetVars>>
    BY <1>7
  <1> QED
    BY <1>2, <1>4, <1>5, <1>6, <1>7, Frames

\* Steps keep the flags Boolean.
LEMMA NextTypeFlags == Inv1 /\ [Next]_vars => TypeFlags'
  <1> SUFFICES ASSUME Inv1, [Next]_vars PROVE TypeFlags'
    OBVIOUS
  <1> USE DEF Inv1, TypeOK, TypeFlags
  <1>1. waitingUnwind' \in BOOLEAN /\ tainted' \in BOOLEAN
    <2>1. ASSUME PersistShard \/ PersistReset \/ PersistTooSoon
          PROVE  waitingUnwind' \in BOOLEAN
      BY <2>1, ZenonT(60) DEF PersistShard, PersistReset, PersistTooSoon
    <2> QED
      BY <2>1, Frames, ZenonT(60) DEF FinalizeProfileLoop, NewShard, AllocateNewShard, PersistUnwindTable,
            PersistShard, PersistTooSoon
  <1>2. waitingProcess' \in BOOLEAN
    BY Frames, ZenonT(60) DEF FinalizeProfileLoop, NewShard, WriteProcessInfo, PersistUnwindTable
  <1>3. batchOpen' \in BOOLEAN
    BY ZenonT(60) DEF Next, vars, MapsChange, BatchAdd, RefreshRead, FinalizeProfileLoop, RefreshAdd,
         MappingWithoutTable, MappingUnreadable, MappingSeen, MappingNew, TableWaits,
         AppendChunk, NewShard, PublishChunks, WriteProcessInfo, PersistUnwindTable
  <1> QED
    BY <1>1, <1>2, <1>3

\* Steps keep the state of a call of addUnwindTableForProcess well typed.
LEMMA NextTypeCalls == Inv1 /\ [Next]_vars => TypeCalls'
  <1> SUFFICES ASSUME Inv1, [Next]_vars PROVE TypeCalls'
    OBVIOUS
  <1> USE DEF Inv1, TypeOK, TypeCalls
  <1>1. ASSUME NEW p \in Pids, MapsChange(p) \/ RefreshRead(p) PROVE TypeCalls'
    <2>1. CASE MapsChange(p)
      BY <2>1 DEF MapsChange
    <2>2. CASE RefreshRead(p)
      <3>1. maps[p] \in MappingLists /\ refreshing' = <<p, maps[p]>>
        BY <2>2 DEF RefreshRead
      <3> QED
        BY <2>2, <3>1 DEF RefreshRead
    <2> QED
      BY <1>1, <2>1, <2>2
  <1>2. ASSUME NEW c \in {"batch", "refresh"}, NEW p \in Pids, NEW l \in MappingLists, Start(c, p, l)
        PROVE  /\ stage' = "mappings" /\ caller' \in {"batch", "refresh"}
               /\ pid' \in Pids /\ mappings' \in MappingLists
               /\ todo' \in Seq(Objects) /\ buf' \in Seq(Written)
    BY <1>2, MappingListsAssumption DEF Start
  <1>3. ASSUME NEW p \in Pids, BatchAdd(p) PROVE TypeCalls'
    BY <1>2, <1>3 DEF BatchAdd, GiveUp
  <1>4. CASE RefreshAdd
    BY <1>2, <1>4 DEF RefreshAdd, GiveUp
  <1>5. ASSUME Return, UNCHANGED <<maps, refreshing>> PROVE TypeCalls'
    BY <1>5 DEF Return
  <1>6. CASE FinalizeProfileLoop \/ PersistUnwindTable
    BY <1>6 DEF FinalizeProfileLoop, PersistUnwindTable
  <1>7. ASSUME NEW id \in Nat, todo # <<>>, WriteMapping(id)
        PROVE  /\ UNCHANGED <<caller, pid, mappings>>
               /\ todo' \in Seq(Objects) /\ buf' \in Seq(Written)
    BY <1>7 DEF WriteMapping, Written
  <1>8. CASE MappingWithoutTable
    <2>1. UNCHANGED <<stage, tableVars, callerVars>> /\ todo # <<>>
      BY <1>8 DEF MappingWithoutTable
    <2>2. CASE todo' = Tail(todo) /\ UNCHANGED <<caller, pid, mappings, buf>>
      BY <2>1, <2>2
    <2>3. CASE WriteMapping(0)
      BY <1>7, <2>1, <2>3
    <2> QED
      BY <1>8, <2>2, <2>3 DEF MappingWithoutTable
  <1>9. CASE MappingSeen
    BY <1>7, <1>9 DEF MappingSeen, TypeIDs
  <1>10. CASE MappingNew
    <2>1. /\ stage' \in {stage, "table"}
          /\ exe' \in BuildIDs \cup {exe} /\ done' \in {0, done} /\ chunks' \in {<<>>, chunks}
          /\ UNCHANGED callerVars
          /\ todo # <<>> /\ WriteMapping(executableID)
      BY <1>10 DEF MappingNew
    <2>2. executableID \in Nat
      BY DEF TypeIDs
    <2>3. /\ UNCHANGED <<caller, pid, mappings>>
          /\ todo' \in Seq(Objects) /\ buf' \in Seq(Written)
      BY <1>7, <2>1, <2>2
    <2>4. exe' \in BuildIDs \cup {None} /\ done' \in Nat
      BY <2>1
    <2>5. chunks' \in Seq(Chunk)
      BY <2>1, EmptyList, ZenonT(60)
    <2> QED
      BY <2>1, <2>3, <2>4, <2>5
  <1>11. CASE MappingUnreadable \/ TableWaits \/ WriteProcessInfo
    BY <1>5, <1>11 DEF MappingUnreadable, TableWaits, WriteProcessInfo
  <1>12. CASE AppendChunk
    <2>1. UNCHANGED <<callVars, exe, callerVars>>
      BY <1>12 DEF AppendChunk
    <2>2. PICK t \in Nat \ {0} :
            /\ exe \in BuildIDs
            /\ done' = done + t
            /\ chunks' = Append(chunks,
                  [exe |-> exe, lowPc |-> done + 1, highPc |-> done + t,
                   shard |-> shardIndex, low |-> lowIndex, high |-> highIndex + t])
            /\ stage' \in {"full", "table"}
      BY <1>12, AppendChunkEffect, ZenonT(60)
    <2>3. [exe |-> exe, lowPc |-> done + 1, highPc |-> done + t,
           shard |-> shardIndex, low |-> lowIndex, high |-> highIndex + t] \in Chunk
      BY <2>2 DEF TypeShards, Chunk
    <2> QED
      BY <2>1, <2>2, <2>3
  <1>13. CASE NewShard
    BY <1>5, <1>13 DEF NewShard
  <1>14. CASE PublishChunks
    <2>1. CASE /\ stage' = "mappings" /\ exe' = None /\ done' = 0 /\ chunks' = <<>>
               /\ UNCHANGED <<callVars, callerVars>>
      BY <2>1
    <2> QED
      BY <1>5, <1>14, <2>1, ZenonT(60) DEF PublishChunks
  <1>15. CASE UNCHANGED vars
    BY <1>15 DEF vars
  <1> QED
    BY <1>1, <1>3, <1>4, <1>6, <1>8, <1>9, <1>10, <1>11, <1>12, <1>13, <1>14, <1>15, ZenonT(60) DEF Next

\* Steps keep what the call under way knows: which process, mappings and table.
LEMMA NextCallInv == Inv1 /\ [Next]_vars => CallInv'
  <1> SUFFICES ASSUME Inv1, [Next]_vars PROVE CallInv'
    OBVIOUS
  <1> USE DEF Inv1, CallInv
  <1>1. ASSUME NEW p \in Pids, MapsChange(p) \/ RefreshRead(p) PROVE CallInv'
    BY <1>1, ZenonT(60) DEF MapsChange, RefreshRead
  <1>2. ASSUME NEW p \in Pids, BatchAdd(p) PROVE CallInv'
    BY <1>2 DEF BatchAdd, GiveUp, Start, TypeOK, TypeCalls
  <1>3. CASE RefreshAdd
    BY <1>3 DEF RefreshAdd, GiveUp, Start, TypeOK, TypeCalls
  <1>4. CASE Return
    BY <1>4 DEF Return
  <1>5. CASE FinalizeProfileLoop \/ PersistUnwindTable
    BY <1>5 DEF FinalizeProfileLoop, PersistUnwindTable
  <1>6. CASE MappingWithoutTable \/ MappingSeen
    BY <1>6, ZenonT(60) DEF MappingWithoutTable, MappingSeen, WriteMapping
  <1>7. CASE MappingNew
    BY <1>7, TablesAssumption DEF MappingNew, WriteMapping
  <1>8. CASE MappingUnreadable \/ TableWaits \/ WriteProcessInfo
    BY <1>4, <1>8 DEF MappingUnreadable, TableWaits, WriteProcessInfo
  <1>9. CASE AppendChunk
    <2>1. UNCHANGED <<callVars, exe>> /\ stage = "table"
      BY <1>9 DEF AppendChunk
    <2>2. stage' \in {"full", "table"} /\ done' <= TableLen[exe]
      BY <1>9, AppendChunkEffect, ZenonT(60)
    <2> QED
      BY <2>1, <2>2, ZenonT(60)
  <1>10. CASE NewShard
    BY <1>4, <1>10 DEF NewShard
  <1>11. CASE PublishChunks
    BY <1>4, <1>11 DEF PublishChunks
  <1>12. CASE UNCHANGED vars
    BY <1>12 DEF vars
  <1> QED
    BY <1>1, <1>2, <1>3, <1>5, <1>6, <1>7, <1>8, <1>9, <1>10, <1>11, <1>12 DEF Next

\* Steps keep the agreement of the in-flight rows and the indexes into them.
LEMMA NextIndexInv == Inv1 /\ [Next]_vars => IndexInv'
  <1> SUFFICES ASSUME Inv1, [Next]_vars PROVE IndexInv'
    OBVIOUS
  <1> USE SizesAssumption DEF Inv1, IndexInv
  <1>1. CASE UNCHANGED <<shardVars, waitingUnwind>> /\ (stage = "full" => stage' = "full")
    BY <1>1
  <1>2. CASE AppendChunk
    <2>1. PICK t \in Nat \ {0} :
            /\ highIndex + t <= MaxUnwindTableSize
            /\ NewRows(t) \in Seq(Row) /\ Len(NewRows(t)) = t
            /\ inFlight' = inFlight \o NewRows(t)
            /\ highIndex' = highIndex + t /\ lowIndex' = highIndex + t
            /\ stage' = IF highIndex + t = MaxUnwindTableSize THEN "full" ELSE "table"
      BY <1>2, AppendChunkEffect, ZenonT(60)
    <2>2. Len(inFlight') = highIndex + t
      BY <2>1, JoinedRows, ZenonT(60) DEF TypeOK, TypeShards
    <2> QED
      BY <2>1, <2>2 DEF TypeOK, TypeShards
  <1>3. CASE NewShard
    BY <1>3 DEF NewShard, AllocateNewShard, PersistShard, PersistReset, PersistTooSoon
  <1>4. CASE PersistUnwindTable
    BY <1>4 DEF PersistUnwindTable, PersistShard, PersistReset, PersistTooSoon
  <1>5. CASE PublishChunks
    BY <1>5 DEF PublishChunks
  <1> QED
    BY <1>1, <1>2, <1>3, <1>4, <1>5, ZenonT(60) DEF Next, vars, MapsChange, BatchAdd, RefreshRead, FinalizeProfileLoop, RefreshAdd,
         MappingWithoutTable, MappingUnreadable, MappingSeen, MappingNew, TableWaits,
         WriteProcessInfo

\* The first inductive invariant.
LEMMA InductiveInv1 == Spec => []Inv1
  <1>1. Inv1 /\ [Next]_vars => Inv1'
    BY NextTypeShards, NextTypeIDs, NextTypeProcesses, NextTypeRounds, NextTypeFlags,
       NextTypeCalls, NextCallInv, NextIndexInv DEF Inv1, TypeOK
  <1> QED
    BY <1>1, InitInv1, PTL DEF Spec

\* The state of bpfMaps and of the three BPF maps has its type.
THEOREM TypeCorrect == Spec => []TypeOK
  <1>1. Inv1 => TypeOK
    BY DEF Inv1
  <1> QED
    BY <1>1, InductiveInv1, PTL

\* None of the panics of assertInvariants and persistUnwindTable is ever reached,
\* whatever the tables, the sizes of the maps and the failures.
THEOREM InFlightIndexesHold == Spec => []InFlightIndexes
  <1>1. Inv1 => InFlightIndexes
    BY DEF Inv1, IndexInv, InFlightIndexes
  <1> QED
    BY <1>1, InductiveInv1, PTL

-----------------------------------------------------------------------------
(* Chunks lead to their rows.  The invariant covers the chunks of the table that *)
(* is being split as well as the published ones, and says that none of them is   *)
(* in a shard after the in-flight one: the rows that unwind_tables still holds   *)
(* there from before the last reset are never referred to.                       *)

Good(c) == c.shard <= shardIndex /\ Locates(c)

NoChunksInv == stage \in {"idle", "mappings"} => chunks = <<>>

RowInv ==
    ~tainted => /\ \A i \in DOMAIN chunks : Good(chunks[i])
                /\ \A e \in DOMAIN unwindShards : \A i \in DOMAIN unwindShards[e] :
                      Good(unwindShards[e][i])

Inv2 == Inv1 /\ NoChunksInv /\ RowInv

\* The BPF maps and the caches are empty after a reset.
LEMMA EmptyDomain == DOMAIN <<>> = {}
  OBVIOUS

\* Chunks under construction exist only while a table is being split.
LEMMA NextNoChunks == Inv2 /\ [Next]_vars => NoChunksInv'
  <1> SUFFICES ASSUME Inv2, [Next]_vars PROVE NoChunksInv'
    OBVIOUS
  <1> USE DEF Inv2, NoChunksInv
  <1>1. CASE Return
    BY <1>1 DEF Return
  <1>2. CASE UNCHANGED <<stage, chunks>>
    BY <1>2
  <1>3. ASSUME NEW p \in Pids, BatchAdd(p) PROVE NoChunksInv'
    BY <1>3 DEF BatchAdd, Start, GiveUp
  <1>4. CASE RefreshAdd
    BY <1>4 DEF RefreshAdd, Start, GiveUp
  <1>5. CASE MappingNew
    BY <1>5 DEF MappingNew
  <1>6. CASE AppendChunk
    BY <1>6, AppendChunkEffect, ZenonT(60)
  <1>7. CASE NewShard
    BY <1>1, <1>7 DEF NewShard
  <1>8. CASE PublishChunks
    BY <1>1, <1>8 DEF PublishChunks
  <1> QED
    BY <1>1, <1>2, <1>3, <1>4, <1>5, <1>6, <1>7, <1>8, ZenonT(60)
    DEF Next, vars, MapsChange, RefreshRead, FinalizeProfileLoop, MappingWithoutTable,
        MappingUnreadable, MappingSeen, TableWaits, WriteProcessInfo, PersistUnwindTable

\* Two facts about sequences that the steps below use as they stand.
LEMMA ConcatTail ==
    ASSUME NEW S, NEW q \in Seq(S), NEW r \in Seq(S), NEW i \in 1..Len(r)
    PROVE  (q \o r)[Len(q) + i] = r[i] /\ Len(q) + i <= Len(q \o r)
  BY JoinedRows, LengthOf

\* An element of Append(q, x) is x or an element of q.
LEMMA AppendCases ==
    ASSUME NEW S, NEW q \in Seq(S), NEW x, NEW i \in DOMAIN Append(q, x)
    PROVE  \/ Append(q, x)[i] = x
           \/ i \in DOMAIN q /\ q[i] \in S /\ Append(q, x)[i] = q[i]
  OBVIOUS

\* What the order of the integers gives the steps below.
LEMMA LeqTransitive ==
    ASSUME NEW a \in Int, NEW b \in Int, NEW d \in Int, a <= b, b <= d
    PROVE  a <= d
  OBVIOUS

\* A chunk that leads to its rows still does when nothing but later rows change.
LEMMA GoodStable ==
    ASSUME Inv1, NEW c \in Chunk, Good(c), shardIndex' \in Nat, shardIndex <= shardIndex',
           NEW rows, rows \in Seq(Row), RowsOf(c.shard) \in Seq(Row), RowsOf(c.shard)' = rows,
           Len(RowsOf(c.shard)) <= Len(rows),
           \A i \in 1..Len(RowsOf(c.shard)) : rows[i] = RowsOf(c.shard)[i]
    PROVE  Good(c)'
  <1>1. c.shard \in Nat /\ c.low \in Nat /\ c.high \in Nat
    BY ZenonT(60) DEF Chunk
  <1>2. (c.shard <= shardIndex)'
    <2>1. shardIndex \in Nat /\ c.shard <= shardIndex
      BY ZenonT(60) DEF Good, Inv1, TypeOK, TypeShards
    <2>2. c.shard \in Int /\ shardIndex \in Int /\ shardIndex' \in Int
      BY <1>1, <2>1
    <2> QED
      BY <2>1, <2>2, LeqTransitive, ZenonT(60)
  <1>3. Locates(c)'
    <2> SUFFICES ASSUME NEW i \in 1..(c.high - c.low)
                 PROVE  /\ c.low + i <= Len(rows)
                        /\ rows[c.low + i] = [exe |-> c.exe, pc |-> c.lowPc + i - 1]
      BY ZenonT(60) DEF Locates
    <2>1. /\ c.low + i <= Len(RowsOf(c.shard))
          /\ RowsOf(c.shard)[c.low + i] = [exe |-> c.exe, pc |-> c.lowPc + i - 1]
      BY DEF Good, Locates
    <2>2. c.low + i \in 1..Len(RowsOf(c.shard))
      BY <2>1, <1>1, LengthOf
    <2>3. c.low + i \in Int /\ Len(RowsOf(c.shard)) \in Int /\ Len(rows) \in Int
      BY <2>2, LengthOf
    <2> QED
      BY <2>1, <2>2, <2>3, LeqTransitive, ZenonT(60)
  <1> QED
    BY <1>2, <1>3 DEF Good

\* The rows of a shard, in flight or persisted, are a sequence of rows.
LEMMA RowsType == ASSUME Inv1, NEW s \in Nat PROVE RowsOf(s) \in Seq(Row)
  BY EmptyList DEF Inv1, TypeOK, TypeShards, RowsOf

\* Every chunk keeps its rows, no chunk is added: the invariant is preserved.
LEMMA RowInvKept ==
    ASSUME Inv2, tainted' = tainted, unwindShards' = unwindShards,
           chunks' \in {chunks, <<>>}, \A c \in Chunk : Good(c) => Good(c)'
    PROVE  RowInv'
  <1> SUFFICES ASSUME ~tainted
               PROVE  /\ \A i \in DOMAIN chunks' : Good(chunks[i])'
                      /\ \A e \in DOMAIN unwindShards' : \A i \in DOMAIN unwindShards'[e] :
                            Good(unwindShards[e][i])'
    BY ZenonT(60) DEF RowInv
  <1>1. ASSUME NEW i \in DOMAIN chunks' PROVE Good(chunks[i])'
    <2>1. chunks' = chunks /\ chunks[i] \in Chunk /\ Good(chunks[i])
      <3>1. chunks' = chunks
        BY <1>1
      <3>2. chunks \in Seq(Chunk)
        BY ZenonT(60) DEF Inv2, Inv1, TypeOK, TypeCalls
      <3>3. chunks[i] \in Chunk
        BY <1>1, <3>1, <3>2
      <3> QED
        BY <1>1, <3>1, <3>3, ZenonT(60) DEF Inv2, RowInv
    <2> QED
      BY <2>1, ZenonT(60) DEF Good, Locates, RowsOf
  <1>2. ASSUME NEW e \in DOMAIN unwindShards', NEW i \in DOMAIN unwindShards'[e]
        PROVE  Good(unwindShards[e][i])'
    <2>1. unwindShards[e][i] \in Chunk /\ Good(unwindShards[e][i])
      <3>1. unwindShards[e] \in Seq(Chunk)
        BY <1>2, ZenonT(60) DEF Inv2, Inv1, TypeOK, TypeShards
      <3>2. unwindShards[e][i] \in Chunk
        BY <1>2, <3>1
      <3> QED
        BY <1>2, <3>2, ZenonT(60) DEF Inv2, RowInv
    <2> QED
      BY <2>1, ZenonT(60) DEF Good, Locates, RowsOf
  <1> QED
    BY <1>1, <1>2

\* Writing the in-flight shard to unwind_tables, with or without moving on to the
\* next shard, keeps every chunk's rows.
LEMMA PersistKeeps ==
    ASSUME Inv1, PersistShard,
           \/ UNCHANGED shardVars
           \/ inFlight' = <<>> /\ shardIndex' = shardIndex + 1,
           NEW c \in Chunk, Good(c)
    PROVE  Good(c)'
  <1>1. c.shard \in Nat /\ c.shard <= shardIndex /\ shardIndex \in Nat
    BY DEF Chunk, Good, Inv1, TypeOK, TypeShards
  <1>2. RowsOf(c.shard) \in Seq(Row)
    BY <1>1, RowsType
  <1>3. CASE c.shard = shardIndex /\ inFlight = <<>>
    <2>1. ASSUME NEW i \in 1..(c.high - c.low) PROVE FALSE
      <3>1. c.low + i <= 0
        BY <1>3, <2>1, ZenonT(60) DEF Good, Locates, RowsOf
      <3> QED
        BY <3>1 DEF Chunk
    <2>2. Locates(c)'
      BY <2>1 DEF Locates
    <2> QED
      BY <1>1, <2>2 DEF Good
  <1>4. CASE c.shard # shardIndex \/ inFlight # <<>>
    <2>1. RowsOf(c.shard)' = RowsOf(c.shard)
      <3>1. CASE UNCHANGED shardVars
        BY <1>1, <3>1 DEF RowsOf, PersistShard, Put
      <3>2. CASE inFlight' = <<>> /\ shardIndex' = shardIndex + 1
        <4>1. c.shard # shardIndex'
          BY <1>1, <3>2
        <4> QED
          BY <1>4, <4>1 DEF RowsOf, PersistShard, Put
      <3> QED
        BY <3>1, <3>2
    <2> QED
      BY <1>1, <1>2, <2>1, GoodStable
  <1> QED
    BY <1>3, <1>4

\* Appending rows to the in-flight shard keeps every chunk's rows.
LEMMA AppendKeeps ==
    ASSUME Inv1, AppendChunk, NEW c \in Chunk, Good(c)
    PROVE  Good(c)'
  <1>1. PICK t \in Nat \ {0} : NewRows(t) \in Seq(Row) /\ inFlight' = inFlight \o NewRows(t)
    BY AppendChunkEffect, ZenonT(60)
  <1>2. UNCHANGED <<shardIndex, unwindTables>>
    BY DEF AppendChunk
  <1>3. c.shard \in Nat /\ shardIndex \in Nat /\ inFlight \in Seq(Row)
    BY DEF Chunk, Inv1, TypeOK, TypeShards
  <1>4. RowsOf(c.shard) \in Seq(Row)
    BY <1>3, RowsType
  <1>5. CASE c.shard = shardIndex
    <2>1. RowsOf(c.shard) = inFlight /\ RowsOf(c.shard)' = inFlight \o NewRows(t)
      BY <1>1, <1>2, <1>5 DEF RowsOf
    <2>2. /\ inFlight \o NewRows(t) \in Seq(Row)
          /\ Len(inFlight) <= Len(inFlight \o NewRows(t))
          /\ \A i \in 1..Len(inFlight) : (inFlight \o NewRows(t))[i] = inFlight[i]
      BY <1>1, <1>3, JoinedRows, LengthOf
    <2>3. PICK rows \in Seq(Row) :
            /\ RowsOf(c.shard)' = rows
            /\ Len(RowsOf(c.shard)) <= Len(rows)
            /\ \A i \in 1..Len(RowsOf(c.shard)) : rows[i] = RowsOf(c.shard)[i]
      BY <2>1, <2>2, ZenonT(60)
    <2>4. shardIndex' \in Nat /\ shardIndex <= shardIndex'
      BY <1>2, <1>3
    <2> QED
      BY <1>4, <2>3, <2>4, GoodStable
  <1>6. CASE c.shard # shardIndex
    <2>1. RowsOf(c.shard)' = RowsOf(c.shard)
      BY <1>2, <1>6 DEF RowsOf
    <2> QED
      BY <1>2, <1>3, <1>4, <2>1, GoodStable
  <1> QED
    BY <1>5, <1>6

\* The in-flight shard has as many rows as its indexes say.
LEMMA InFlightFacts ==
    ASSUME Inv1
    PROVE  /\ inFlight \in Seq(Row) /\ Len(inFlight) = lowIndex /\ lowIndex = highIndex
           /\ lowIndex \in Nat /\ shardIndex \in Nat /\ done \in Nat
  <1>1. TypeShards /\ TypeCalls /\ IndexInv
    BY ZenonT(60) DEF Inv1, TypeOK
  <1>2. inFlight \in Seq(Row) /\ lowIndex \in Nat /\ shardIndex \in Nat
    BY <1>1, ZenonT(60) DEF TypeShards
  <1>3. done \in Nat
    BY <1>1, ZenonT(60) DEF TypeCalls
  <1>4. Len(inFlight) = lowIndex /\ lowIndex = highIndex
    BY <1>1, ZenonT(60) DEF IndexInv
  <1> QED
    BY <1>2, <1>3, <1>4

\* The rows an iteration appends, by their place in the shard.
LEMMA AppendedRows ==
    ASSUME inFlight \in Seq(Row), NEW t \in Nat, NewRows(t) \in Seq(Row), Len(NewRows(t)) = t,
           Len(inFlight) = lowIndex
    PROVE  \A i \in 1..t :
              /\ lowIndex + i <= Len(inFlight \o NewRows(t))
              /\ (inFlight \o NewRows(t))[lowIndex + i] = [exe |-> exe, pc |-> done + i]
  <1> SUFFICES ASSUME NEW i \in 1..t
               PROVE  /\ lowIndex + i <= Len(inFlight \o NewRows(t))
                      /\ (inFlight \o NewRows(t))[lowIndex + i] = [exe |-> exe, pc |-> done + i]
    BY ZenonT(60)
  <1>1. NewRows(t)[i] = [exe |-> exe, pc |-> done + i]
    BY DEF NewRows
  <1>2. /\ (inFlight \o NewRows(t))[Len(inFlight) + i] = NewRows(t)[i]
        /\ Len(inFlight) + i <= Len(inFlight \o NewRows(t))
    BY ConcatTail, ZenonT(60)
  <1> QED
    BY <1>1, <1>2, ZenonT(60)

\* The chunk that an iteration adds leads to the rows the iteration appends.
LEMMA AppendedGood ==
    ASSUME Inv1, NEW t \in Nat \ {0}, exe \in BuildIDs,
           NewRows(t) \in Seq(Row), Len(NewRows(t)) = t,
           inFlight' = inFlight \o NewRows(t), shardIndex' = shardIndex,
           NEW c, c = [exe |-> exe, lowPc |-> done + 1, highPc |-> done + t,
                       shard |-> shardIndex, low |-> lowIndex, high |-> highIndex + t]
    PROVE  Good(c)'
  <1>1. /\ inFlight \in Seq(Row) /\ Len(inFlight) = lowIndex /\ lowIndex = highIndex
        /\ lowIndex \in Nat /\ shardIndex \in Nat /\ done \in Nat
    BY InFlightFacts, ZenonT(60)
  <1>2. RowsOf(c.shard)' = inFlight \o NewRows(t)
    <2>1. c.shard = shardIndex'
      BY ZenonT(60)
    <2> QED
      BY <2>1, ZenonT(60) DEF RowsOf
  <1>3. \A i \in 1..t :
             /\ lowIndex + i <= Len(inFlight \o NewRows(t))
             /\ (inFlight \o NewRows(t))[lowIndex + i] = [exe |-> exe, pc |-> done + i]
    BY <1>1, AppendedRows, ZenonT(60)
  <1>4. Locates(c)'
    <2> SUFFICES ASSUME NEW i \in 1..(c.high - c.low)
                 PROVE  /\ c.low + i <= Len(inFlight \o NewRows(t))
                        /\ (inFlight \o NewRows(t))[c.low + i] =
                               [exe |-> c.exe, pc |-> c.lowPc + i - 1]
      BY <1>2, ZenonT(60) DEF Locates
    <2>1. i \in 1..t /\ c.low = lowIndex /\ c.exe = exe /\ c.lowPc + i - 1 = done + i
      BY <1>1
    <2> QED
      BY <1>3, <2>1, ZenonT(60)
  <1> QED
    BY <1>1, <1>4 DEF Good

\* Steps keep every chunk, published or under construction, leading to its rows.
LEMMA NextRowInv == Inv2 /\ [Next]_vars => RowInv'
  <1> SUFFICES ASSUME Inv2, [Next]_vars PROVE RowInv'
    OBVIOUS
  <1>0. Inv1
    BY DEF Inv2
  <1>1. ASSUME UNCHANGED <<shardVars, unwindTables, unwindShards, tainted>>,
               chunks' \in {chunks, <<>>}
        PROVE  RowInv'
    <2>1. \A c \in Chunk : Good(c) => Good(c)'
      BY <1>1, ZenonT(60) DEF Good, Locates, RowsOf
    <2> QED
      BY <1>1, <2>1, RowInvKept
  <1>2. CASE AppendChunk
    <2>1. PICK t \in Nat \ {0} :
            /\ exe \in BuildIDs
            /\ NewRows(t) \in Seq(Row) /\ Len(NewRows(t)) = t
            /\ inFlight' = inFlight \o NewRows(t)
            /\ chunks' = Append(chunks,
                 [exe |-> exe, lowPc |-> done + 1, highPc |-> done + t,
                  shard |-> shardIndex, low |-> lowIndex, high |-> highIndex + t])
      BY <1>0, <1>2, AppendChunkEffect, ZenonT(60)
    <2>2. PICK c : c = [exe |-> exe, lowPc |-> done + 1, highPc |-> done + t,
                        shard |-> shardIndex, low |-> lowIndex, high |-> highIndex + t]
      BY ZenonT(60)
    <2>3. UNCHANGED <<shardIndex, unwindShards, tainted>>
      BY <1>2 DEF AppendChunk
    <2>4. Good(c)'
      BY <1>0, <2>1, <2>2, <2>3, AppendedGood, ZenonT(60)
    <2>5. \A d \in Chunk : Good(d) => Good(d)'
      BY <1>0, <1>2, AppendKeeps, ZenonT(60)
    <2>6. chunks \in Seq(Chunk) /\ chunks' = Append(chunks, c)
      BY <1>0, <2>1, <2>2 DEF Inv1, TypeOK, TypeCalls
    <2> SUFFICES ASSUME ~tainted
                 PROVE  /\ \A i \in DOMAIN chunks' : Good(chunks[i])'
                        /\ \A e \in DOMAIN unwindShards' : \A i \in DOMAIN unwindShards'[e] :
                              Good(unwindShards[e][i])'
      BY <2>3 DEF RowInv
    <2>7. ASSUME NEW i \in DOMAIN chunks' PROVE Good(chunks[i])'
      <3>1. chunks'[i] = c \/ (chunks'[i] \in Chunk /\ chunks'[i] = chunks[i] /\ i \in DOMAIN chunks)
        <4>1. \/ Append(chunks, c)[i] = c
              \/ i \in DOMAIN chunks /\ chunks[i] \in Chunk /\ Append(chunks, c)[i] = chunks[i]
          <5>1. i \in DOMAIN Append(chunks, c)
            BY <2>6, <2>7, ZenonT(60)
          <5> QED
            BY <2>6, <5>1, AppendCases, ZenonT(60)
        <4> QED
          BY <2>6, <4>1, ZenonT(60)
      <3>2. CASE chunks'[i] = c
        BY <2>4, <3>2, ZenonT(60) DEF Good, Locates, RowsOf
      <3>3. CASE chunks'[i] \in Chunk /\ chunks'[i] = chunks[i] /\ i \in DOMAIN chunks
        <4>1. Good(chunks[i])
          BY <3>3 DEF Inv2, RowInv
        <4> QED
          BY <2>5, <3>3, <4>1, ZenonT(60) DEF Good, Locates, RowsOf
      <3> QED
        BY <3>1, <3>2, <3>3
    <2>8. ASSUME NEW e \in DOMAIN unwindShards', NEW i \in DOMAIN unwindShards'[e]
          PROVE  Good(unwindShards[e][i])'
      <3>1. e \in DOMAIN unwindShards /\ i \in DOMAIN unwindShards[e]
        BY <2>3, ZenonT(60)
      <3>2. unwindShards[e] \in Seq(Chunk)
        BY <1>0, <3>1 DEF Inv1, TypeOK, TypeShards
      <3>3. unwindShards[e][i] \in Chunk
        BY <3>1, <3>2
      <3>4. Good(unwindShards[e][i])
        BY <3>1, ZenonT(60) DEF Inv2, RowInv
      <3>5. PICK d \in Chunk : d = unwindShards[e][i]
        BY <3>3
      <3>6. Good(d)'
        BY <2>5, <3>4, <3>5
      <3>7. d = unwindShards'[e][i]
        BY <2>3, <3>5
      <3> QED
        BY <3>6, <3>7, ZenonT(60) DEF Good, Locates, RowsOf
    <2> QED
      BY <2>7, <2>8, ZenonT(60)
  <1>3. CASE NewShard
    <2>1. CASE PersistShard /\ inFlight' = <<>> /\ shardIndex' = shardIndex + 1
               /\ UNCHANGED tableVars
      <3>1. \A c \in Chunk : Good(c) => Good(c)'
        BY <1>0, <2>1, PersistKeeps
      <3> QED
        BY <2>1, <3>1, RowInvKept DEF PersistShard
    <2>2. CASE PersistReset /\ tainted' = TRUE
      BY <2>2 DEF RowInv
    <2>3. CASE PersistTooSoon /\ Return
      BY <1>1, <2>3, ZenonT(60) DEF PersistTooSoon, Return
    <2> QED
      BY <1>3, <2>1, <2>2, <2>3, ZenonT(60) DEF NewShard, AllocateNewShard
  <1>4. CASE PublishChunks
    <2>1. UNCHANGED <<shardVars, unwindTables, tainted>>
      BY <1>4 DEF PublishChunks
    <2>2. CASE Return /\ UNCHANGED unwindShards
      BY <1>1, <2>1, <2>2 DEF Return
    <2>3. CASE /\ unwindShards' = Put(unwindShards, executableID,
                     IF Len(chunks) > MaxUnwindTableChunks
                     THEN SubSeq(chunks, 1, MaxUnwindTableChunks) ELSE chunks)
               /\ chunks' = <<>>
      <3>0. DOMAIN chunks' = {}
        BY <2>3
      <3> SUFFICES ASSUME ~tainted, NEW e \in DOMAIN unwindShards',
                          NEW i \in DOMAIN unwindShards'[e]
                   PROVE  Good(unwindShards[e][i])'
        BY <2>1, <3>0, ZenonT(60) DEF RowInv
      <3>1. CASE e = executableID
        <4>1. chunks \in Seq(Chunk) /\ MaxUnwindTableChunks \in Nat
          BY <1>0, SizesAssumption DEF Inv1, TypeOK, TypeCalls
        <4>2. i \in DOMAIN chunks /\ unwindShards'[e][i] = chunks[i]
          <5>1. unwindShards'[e] = IF Len(chunks) > MaxUnwindTableChunks
                                   THEN SubSeq(chunks, 1, MaxUnwindTableChunks) ELSE chunks
            BY <2>3, <3>1 DEF Put
          <5>2. CASE Len(chunks) > MaxUnwindTableChunks
            <6>1. Len(chunks) \in Nat /\ DOMAIN chunks = 1..Len(chunks)
              BY <4>1
            <6>2. /\ Len(SubSeq(chunks, 1, MaxUnwindTableChunks)) = MaxUnwindTableChunks
                  /\ SubSeq(chunks, 1, MaxUnwindTableChunks) \in Seq(Chunk)
                  /\ \A k \in 1..MaxUnwindTableChunks :
                        SubSeq(chunks, 1, MaxUnwindTableChunks)[k] = chunks[k]
              BY <4>1, <5>2, <6>1, FirstOnes
            <6>3. i \in 1..MaxUnwindTableChunks
              BY <4>1, <5>1, <5>2, <6>2
            <6> QED
              BY <4>1, <5>1, <5>2, <6>1, <6>2, <6>3
          <5>3. CASE ~(Len(chunks) > MaxUnwindTableChunks)
            BY <5>1, <5>3
          <5> QED
            BY <5>2, <5>3
        <4>3. Good(chunks[i])
          BY <4>2, ZenonT(60) DEF Inv2, RowInv
        <4> QED
          BY <2>1, <4>2, <4>3, ZenonT(60) DEF Good, Locates, RowsOf
      <3>2. CASE e # executableID
        <4>1. e \in DOMAIN unwindShards /\ unwindShards'[e] = unwindShards[e]
          BY <2>3, <3>2, ZenonT(60) DEF Put
        <4>2. Good(unwindShards[e][i])
          BY <4>1 DEF Inv2, RowInv
        <4> QED
          BY <2>1, <4>1, <4>2, ZenonT(60) DEF Good, Locates, RowsOf
      <3> QED
        BY <3>1, <3>2
    <2> QED
      BY <1>4, <2>2, <2>3 DEF PublishChunks
  <1>5. CASE PersistUnwindTable
    <2>0. UNCHANGED chunks /\ stage = "idle"
      BY <1>5 DEF PersistUnwindTable
    <2>1. CASE PersistShard /\ UNCHANGED shardVars
      <3>1. \A c \in Chunk : Good(c) => Good(c)'
        BY <1>0, <2>1, PersistKeeps
      <3> QED
        BY <2>0, <2>1, <3>1, RowInvKept DEF PersistShard
    <2>2. CASE PersistTooSoon
      BY <1>1, <2>0, <2>2 DEF PersistTooSoon
    <2>3. CASE PersistReset
      <3>1. chunks' = <<>> /\ unwindShards' = <<>>
        BY <2>0, <2>3, ZenonT(60) DEF PersistReset, Inv2, NoChunksInv
      <3> QED
        BY <3>1 DEF RowInv
    <2> QED
      BY <1>5, <2>1, <2>2, <2>3 DEF PersistUnwindTable
  <1>6. CASE /\ UNCHANGED <<shardVars, unwindTables, unwindShards>>
             /\ UNCHANGED resetVars \/ FinalizeProfileLoop
             /\ chunks' \in {chunks, <<>>}
    BY <1>1, <1>6 DEF FinalizeProfileLoop
  <1>7. \/ chunks' \in {chunks, <<>>}
        \/ AppendChunk \/ NewShard \/ PublishChunks
    BY ZenonT(60) DEF Next, vars, MapsChange, BatchAdd, RefreshRead, FinalizeProfileLoop, RefreshAdd,
           MappingWithoutTable, MappingUnreadable, MappingSeen, MappingNew, TableWaits,
           WriteProcessInfo, PersistUnwindTable, Return
  <1> QED
    BY <1>2, <1>3, <1>4, <1>5, <1>6, <1>7, Frames

\* Whatever the tables and the sizes, every chunk that unwind_info_chunks holds leads
\* to the rows it was made for (as long as no reset fell in the middle of a call).
THEOREM ChunksLocateRowsHold == Spec => []ChunksLocateRows
  <1>1. Init => Inv2
    <2>1. Init => chunks = <<>> /\ unwindShards = <<>>
      BY DEF Init
    <2> QED
      BY <2>1, InitInv1, EmptyDomain, ZenonT(60) DEF Inv2, NoChunksInv, RowInv
  <1>2. Inv2 /\ Inv1' /\ [Next]_vars => Inv2'
    BY NextNoChunks, NextRowInv DEF Inv2
  <1>3. Inv2 => ChunksLocateRows
    BY DEF Inv2, RowInv, ChunksLocateRows, Good
  <1> QED
    BY <1>1, <1>2, <1>3, InductiveInv1, PTL DEF Spec

-----------------------------------------------------------------------------
(* What is published covers whole tables, and the mappings of a process lead to it. *)

-----------------------------------------------------------------------------
(* Chunks cover their table.  The invariant is about the chunks of the table that is *)
(* being split: they cover its first done rows, so that what is published when the   *)
(* loop ends covers all of it.                                                       *)

Covers(cs, n) ==
    /\ cs = <<>> => n = 0
    /\ cs # <<>> => cs[1].lowPc = 1 /\ cs[Len(cs)].highPc = n
    /\ \A i \in 2..Len(cs) : cs[i].lowPc = cs[i - 1].highPc + 1

SplitInv ==
    stage \in {"table", "full"} =>
      /\ TableLen[exe] > 0
      /\ \A i \in DOMAIN chunks : chunks[i].exe = exe
      /\ Covers(chunks, done)

\* A chunk that starts where the others end extends what they cover.
LEMMA CoversAppend ==
    ASSUME NEW cs \in Seq(Chunk), NEW n \in Nat, Covers(cs, n), NEW c \in Chunk, c.lowPc = n + 1
    PROVE  Covers(Append(cs, c), c.highPc)
  <1>1. /\ Append(cs, c) \in Seq(Chunk) /\ Append(cs, c) # <<>>
        /\ Len(Append(cs, c)) = Len(cs) + 1 /\ Len(cs) \in Nat
        /\ Append(cs, c)[Len(cs) + 1] = c
        /\ \A i \in 1..Len(cs) : Append(cs, c)[i] = cs[i]
    OBVIOUS
  <1>2. Append(cs, c)[Len(Append(cs, c))].highPc = c.highPc
    BY <1>1
  <1>3. Append(cs, c)[1].lowPc = 1
    <2>1. CASE cs = <<>>
      BY <1>1, <2>1 DEF Covers
    <2>2. CASE cs # <<>>
      BY <1>1, <2>2 DEF Covers
    <2> QED
      BY <2>1, <2>2
  <1>4. ASSUME NEW i \in 2..Len(Append(cs, c))
        PROVE  Append(cs, c)[i].lowPc = Append(cs, c)[i - 1].highPc + 1
    <2>1. CASE i = Len(cs) + 1
      <3>1. cs # <<>> /\ i - 1 = Len(cs) /\ i - 1 \in 1..Len(cs)
        <4>1. i >= 2 /\ Len(cs) \in Nat
          BY <1>1, <1>4
        <4>2. i - 1 = Len(cs) /\ i - 1 \in 1..Len(cs)
          BY <2>1, <4>1
        <4>3. Len(cs) # 0
          BY <2>1, <4>1
        <4> QED
          BY <4>2, <4>3
      <3>2. Append(cs, c)[i] = c /\ Append(cs, c)[i - 1] = cs[Len(cs)]
        BY <1>1, <2>1, <3>1
      <3> QED
        BY <3>1, <3>2 DEF Covers
    <2>2. CASE i # Len(cs) + 1
      <3>1. i \in 2..Len(cs) /\ i \in 1..Len(cs) /\ i - 1 \in 1..Len(cs)
        BY <1>1, <1>4, <2>2
      <3>2. Append(cs, c)[i] = cs[i] /\ Append(cs, c)[i - 1] = cs[i - 1]
        BY <1>1, <3>1
      <3> QED
        BY <3>1, <3>2 DEF Covers
    <2> QED
      BY <2>1, <2>2
  <1> QED
    BY <1>1, <1>2, <1>3, <1>4 DEF Covers

\* Steps keep the chunks of the table that is being split contiguous.
LEMMA NextSplitInv == Inv1 /\ SplitInv /\ [Next]_vars => SplitInv'
  <1> SUFFICES ASSUME Inv1, SplitInv, [Next]_vars PROVE SplitInv'
    OBVIOUS
  <1>1. CASE UNCHANGED tableVars /\ (stage' \in {"table", "full"} => stage \in {"table", "full"})
    BY <1>1 DEF SplitInv, Covers
  <1>2. CASE stage' \in {"idle", "mappings"}
    BY <1>2 DEF SplitInv
  <1>3. CASE MappingNew
    <2>1. CASE UNCHANGED <<stage, tableVars>>
      BY <1>1, <2>1
    <2>2. CASE \E b \in BuildIDs : TableLen[b] > 0 /\ exe' = b /\ done' = 0 /\ chunks' = <<>>
      BY <2>2 DEF SplitInv, Covers
    <2> QED
      BY <1>3, <2>1, <2>2, ZenonT(60) DEF MappingNew
  <1>4. CASE AppendChunk
    <2>1. stage = "table" /\ exe' = exe
      BY <1>4 DEF AppendChunk
    <2>2. PICK t \in Nat \ {0} :
            /\ exe \in BuildIDs
            /\ done' = done + t
            /\ chunks' = Append(chunks,
                  [exe |-> exe, lowPc |-> done + 1, highPc |-> done + t,
                   shard |-> shardIndex, low |-> lowIndex, high |-> highIndex + t])
      BY <1>4, AppendChunkEffect, ZenonT(60)
    <2>3. PICK c : c = [exe |-> exe, lowPc |-> done + 1, highPc |-> done + t,
                        shard |-> shardIndex, low |-> lowIndex, high |-> highIndex + t]
      BY ZenonT(60)
    <2>4. done \in Nat /\ chunks \in Seq(Chunk) /\ chunks' = Append(chunks, c)
      BY <2>2, <2>3 DEF Inv1, TypeOK, TypeCalls
    <2>5. c \in Chunk /\ c.lowPc = done + 1 /\ c.highPc = done' /\ c.exe = exe
      BY <2>2, <2>3, <2>4 DEF Inv1, TypeOK, TypeShards, Chunk
    <2>6. TableLen[exe] > 0 /\ (\A i \in DOMAIN chunks : chunks[i].exe = exe) /\ Covers(chunks, done)
      BY <2>1 DEF SplitInv
    <2>7. Covers(Append(chunks, c), c.highPc)
      BY <2>4, <2>5, <2>6, CoversAppend
    <2>8. Covers(chunks, done)'
      BY <2>4, <2>5, <2>7 DEF Covers
    <2>9. \A i \in DOMAIN chunks' : chunks'[i].exe = exe'
      BY <2>1, <2>4, <2>5, <2>6
    <2> QED
      BY <2>1, <2>6, <2>8, <2>9 DEF SplitInv
  <1>5. CASE Return
    BY <1>2, <1>5 DEF Return
  <1>6. CASE NewShard
    BY <1>1, <1>5, <1>6, ZenonT(60) DEF NewShard
  <1>7. CASE PublishChunks
    BY <1>2, <1>5, <1>7, ZenonT(60) DEF PublishChunks
  <1>8. ASSUME NEW p \in Pids, BatchAdd(p) PROVE SplitInv'
    BY <1>1, <1>2, <1>8, ZenonT(60) DEF BatchAdd, Start, GiveUp
  <1>9. CASE RefreshAdd
    BY <1>1, <1>2, <1>9, ZenonT(60) DEF RefreshAdd, Start, GiveUp
  <1> QED
    BY <1>1, <1>3, <1>4, <1>5, <1>6, <1>7, <1>8, <1>9, ZenonT(60)
    DEF Next, vars, MapsChange, RefreshRead, FinalizeProfileLoop, MappingWithoutTable,
        MappingUnreadable, MappingSeen, TableWaits, WriteProcessInfo, PersistUnwindTable

\* When the loop is through, all rows of the table are in shards.
LEMMA AllSplit ==
    ASSUME Inv1, stage = "table", ~waitingUnwind, MaxThreshold = 0
    PROVE  done = TableLen[exe]
  <1>1. exe \in BuildIDs /\ done \in Nat /\ done <= TableLen[exe] /\ TableLen[exe] \in Nat
    BY TablesAssumption DEF Inv1, CallInv, TypeOK, TypeCalls
  <1>2. highIndex \in Nat /\ highIndex < MaxUnwindTableSize
    BY DEF Inv1, IndexInv, TypeOK, TypeShards
  <1> QED
    BY <1>1, <1>2, SizesAssumption DEF MaxThreshold

CoversOf(cs) ==
    /\ cs # <<>> /\ cs[1].lowPc = 1
    /\ \A i \in 2..Len(cs) : cs[i].lowPc = cs[i - 1].highPc + 1
    /\ Len(cs) < MaxUnwindTableChunks => cs[Len(cs)].highPc = TableLen[cs[Len(cs)].exe]

\* What is published covers the table, also if it had to be cut.
LEMMA PublishedCovers ==
    ASSUME NEW cs \in Seq(Chunk), NEW b \in BuildIDs, TableLen[b] > 0,
           \A i \in DOMAIN cs : cs[i].exe = b, Covers(cs, TableLen[b]),
           NEW entry, entry = IF Len(cs) > MaxUnwindTableChunks
                              THEN SubSeq(cs, 1, MaxUnwindTableChunks) ELSE cs
    PROVE  CoversOf(entry)
  <1>1. MaxUnwindTableChunks \in Nat \ {0} /\ Len(cs) \in Nat /\ TableLen[b] \in Nat
    BY SizesAssumption, TablesAssumption
  <1>2. cs # <<>> /\ 1 \in DOMAIN cs /\ Len(cs) \in DOMAIN cs
    BY <1>1 DEF Covers
  <1>3. CASE Len(cs) > MaxUnwindTableChunks
    <2>1. /\ Len(SubSeq(cs, 1, MaxUnwindTableChunks)) = MaxUnwindTableChunks
          /\ \A k \in 1..MaxUnwindTableChunks : SubSeq(cs, 1, MaxUnwindTableChunks)[k] = cs[k]
      BY <1>1, <1>3, FirstOnes
    <2>2. entry # <<>> /\ Len(entry) = MaxUnwindTableChunks
      BY <1>1, <1>3, <2>1
    <2>3. entry[1].lowPc = 1
      BY <1>1, <1>2, <1>3, <2>1 DEF Covers
    <2>4. ASSUME NEW i \in 2..Len(entry) PROVE entry[i].lowPc = entry[i - 1].highPc + 1
      <3>1. i \in 1..MaxUnwindTableChunks /\ i - 1 \in 1..MaxUnwindTableChunks /\ i \in 2..Len(cs)
        BY <1>1, <1>3, <2>2, <2>4
      <3>2. entry[i] = cs[i] /\ entry[i - 1] = cs[i - 1]
        BY <1>3, <2>1, <3>1, Zenon
      <3> QED
        BY <3>1, <3>2, Zenon DEF Covers
    <2>5. ~(Len(entry) < MaxUnwindTableChunks)
      BY <1>1, <2>2
    <2> QED
      BY <2>2, <2>3, <2>4, <2>5, ZenonT(60) DEF CoversOf
  <1>4. CASE ~(Len(cs) > MaxUnwindTableChunks)
    BY <1>2, <1>4 DEF Covers, CoversOf
  <1> QED
    BY <1>3, <1>4

\* Steps keep the published chunks covering their tables.
LEMMA NextCoverTable ==
    Inv1 /\ SplitInv /\ ChunksCoverTable /\ [Next]_vars => ChunksCoverTable'
  <1> SUFFICES ASSUME Inv1, SplitInv, ChunksCoverTable, [Next]_vars PROVE ChunksCoverTable'
    OBVIOUS
  <1>1. CASE unwindShards' \in {unwindShards, <<>>}
    BY <1>1 DEF ChunksCoverTable
  <1>2. CASE PublishChunks
    <2>1. CASE UNCHANGED unwindShards
      BY <1>1, <2>1
    <2>2. CASE unwindShards' = Put(unwindShards, executableID,
                 IF Len(chunks) > MaxUnwindTableChunks
                 THEN SubSeq(chunks, 1, MaxUnwindTableChunks) ELSE chunks)
      <3>1. PICK entry : entry = IF Len(chunks) > MaxUnwindTableChunks
                                 THEN SubSeq(chunks, 1, MaxUnwindTableChunks) ELSE chunks
        BY Zenon
      <3>2. stage = "table" /\ done = TableLen[exe]
        BY <1>2, AllSplit DEF PublishChunks
      <3>3. exe \in BuildIDs /\ chunks \in Seq(Chunk)
        BY <3>2 DEF Inv1, CallInv, TypeOK, TypeCalls
      <3>4. /\ TableLen[exe] > 0
            /\ \A i \in DOMAIN chunks : chunks[i].exe = exe
            /\ Covers(chunks, TableLen[exe])
        BY <3>2 DEF SplitInv
      <3>5. CoversOf(entry)
        BY <3>1, <3>3, <3>4, PublishedCovers, Zenon
      <3>6. \A e \in DOMAIN unwindShards' :
               unwindShards'[e] = entry \/ (e \in DOMAIN unwindShards /\ unwindShards'[e] = unwindShards[e])
        BY <2>2, <3>1 DEF Put
      <3>7. \A e \in DOMAIN unwindShards : CoversOf(unwindShards[e])
        BY DEF ChunksCoverTable, CoversOf
      <3>8. \A e \in DOMAIN unwindShards' : CoversOf(unwindShards'[e])
        BY <3>5, <3>6, <3>7, ZenonT(60)
      <3> QED
        BY <3>8 DEF ChunksCoverTable, CoversOf
    <2> QED
      BY <1>2, <2>1, <2>2, ZenonT(60) DEF PublishChunks
  <1>3. CASE AppendChunk
    BY <1>1, <1>3 DEF AppendChunk
  <1>4. ASSUME PersistShard \/ PersistReset \/ PersistTooSoon PROVE ChunksCoverTable'
    BY <1>1, <1>4 DEF PersistShard, PersistReset, PersistTooSoon
  <1>5. CASE NewShard
    BY <1>4, <1>5 DEF NewShard, AllocateNewShard
  <1>6. CASE PersistUnwindTable
    BY <1>4, <1>6 DEF PersistUnwindTable
  <1> QED
    BY <1>1, <1>2, <1>3, <1>5, <1>6, Frames

\* Whatever the tables, the sizes of the maps and the resets, the chunks published for an
\* executable cover its unwind table from its first row on, without a gap or an overlap.
THEOREM ChunksCoverTableHolds == Spec => []ChunksCoverTable
  <1>1. Init => SplitInv /\ ChunksCoverTable
    <2>1. ASSUME Init PROVE stage \notin {"table", "full"} /\ DOMAIN unwindShards = {}
      BY <2>1, EmptyDomain DEF Init
    <2> QED
      BY <2>1, ZenonT(60) DEF SplitInv, ChunksCoverTable
  <1>2. Inv1 /\ SplitInv /\ ChunksCoverTable /\ [Next]_vars => (SplitInv /\ ChunksCoverTable)'
    BY NextSplitInv, NextCoverTable
  <1> QED
    BY <1>1, <1>2, InductiveInv1, PTL DEF Spec

-----------------------------------------------------------------------------
(* Mappings lead to the chunks of their own executable.  A build ID may be registered *)
(* under the next executable ID and then get no chunks, because its call fails: the   *)
(* next build ID will have the same ID.  That does no harm because nothing is         *)
(* published any more from then on until the next reset.                              *)

\* The build ID has the next executable ID: its table is being split, or no table is
\* published before the next reset.
Pending(b) ==
    \/ stage \in {"table", "full"} /\ exe = b
    \/ waitingUnwind
    \/ Full(unwindShards, executableID, MaxExecutables)

\* The mapping was written with the ID under which its build ID is registered.
Registered(m, ids, without) ==
    m.obj \in BuildIDs \ without => m.obj \in DOMAIN ids /\ ids[m.obj] = m.id

OwnIDs ==
    \A b \in DOMAIN buildIDMapping \ untabled :
       /\ buildIDMapping[b] <= executableID
       /\ buildIDMapping[b] = executableID => Pending(b)
       /\ buildIDMapping[b] \in DOMAIN unwindShards =>
             \A j \in DOMAIN unwindShards[buildIDMapping[b]] :
                unwindShards[buildIDMapping[b]][j].exe = b

OwnBuf == \A i \in DOMAIN buf : Registered(buf[i], buildIDMapping, untabled)

OwnInfo == \A p \in DOMAIN processInfo : \A i \in DOMAIN processInfo[p] :
              Registered(processInfo[p][i], buildIDMapping, untabled)

OwnInv ==
    /\ \A e \in DOMAIN unwindShards : e < executableID
    /\ stage = "idle" => buf = <<>>
    /\ ~tainted => OwnIDs /\ OwnBuf /\ OwnInfo

Inv3 == Inv1 /\ SplitInv /\ OwnInv

\* Executable IDs with chunks are below the next one.
LEMMA NextIDsBelow ==
    Inv3 /\ [Next]_vars => \A e \in DOMAIN unwindShards' : e < executableID'
  <1> SUFFICES ASSUME Inv3, [Next]_vars PROVE \A e \in DOMAIN unwindShards' : e < executableID'
    OBVIOUS
  <1>0. executableID \in Nat /\ DOMAIN unwindShards \subseteq Nat
        /\ \A e \in DOMAIN unwindShards : e < executableID
    BY DEF Inv3, Inv1, TypeOK, TypeShards, TypeIDs, OwnInv
  <1>1. CASE UNCHANGED <<executableID, unwindShards>>
    BY <1>0, <1>1
  <1>2. ASSUME PersistShard \/ PersistReset \/ PersistTooSoon
        PROVE  UNCHANGED <<executableID, unwindShards>> \/ unwindShards' = <<>>
    BY <1>2 DEF PersistShard, PersistReset, PersistTooSoon
  <1>3. CASE NewShard
    BY <1>1, <1>2, <1>3 DEF NewShard, AllocateNewShard
  <1>4. CASE PersistUnwindTable
    BY <1>1, <1>2, <1>4 DEF PersistUnwindTable
  <1>5. CASE PublishChunks
    <2>1. CASE UNCHANGED <<executableID, unwindShards>>
      BY <1>1, <2>1
    <2>2. CASE DOMAIN unwindShards' = DOMAIN unwindShards \cup {executableID} /\ executableID' = executableID + 1
      BY <1>0, <2>2
    <2> QED
      BY <1>5, <2>1, <2>2 DEF PublishChunks, Put
  <1>6. CASE MappingNew
    BY <1>1, <1>6 DEF MappingNew
  <1>7. CASE AppendChunk
    BY <1>1, <1>7 DEF AppendChunk
  <1> QED
    BY <1>1, <1>3, <1>4, <1>5, <1>6, <1>7, Frames

\* Between calls no process_info entry is under construction.
LEMMA NextIdleBuf == Inv3 /\ [Next]_vars => (stage = "idle" => buf = <<>>)'
  <1> SUFFICES ASSUME Inv3, [Next]_vars PROVE (stage = "idle" => buf = <<>>)'
    OBVIOUS
  <1>0. stage = "idle" => buf = <<>>
    BY DEF Inv3, OwnInv
  <1>1. CASE Return
    BY <1>1 DEF Return
  <1>2. CASE stage' = stage /\ (stage = "idle" => buf' = buf)
    BY <1>0, <1>2
  <1>3. CASE stage' # "idle"
    BY <1>3
  <1>4. ASSUME NEW p \in Pids, BatchAdd(p) PROVE (stage = "idle" => buf = <<>>)'
    BY <1>2, <1>3, <1>4, ZenonT(60) DEF BatchAdd, Start, GiveUp
  <1>5. CASE RefreshAdd
    BY <1>2, <1>3, <1>5, ZenonT(60) DEF RefreshAdd, Start, GiveUp
  <1>6. CASE MappingNew
    BY <1>2, <1>3, <1>6, ZenonT(60) DEF MappingNew
  <1>7. CASE AppendChunk
    <2>1. stage' \in {"full", "table"}
      BY <1>7, AppendChunkEffect, ZenonT(60) DEF Inv3
    <2> QED
      BY <2>1
  <1>8. CASE NewShard
    BY <1>1, <1>3, <1>8, ZenonT(60) DEF NewShard
  <1>9. CASE PublishChunks
    BY <1>1, <1>3, <1>9, ZenonT(60) DEF PublishChunks
  <1>10. CASE MappingWithoutTable \/ MappingSeen
    BY <1>2, <1>10, ZenonT(60) DEF MappingWithoutTable, MappingSeen
  <1> QED
    BY <1>1, <1>2, <1>4, <1>5, <1>6, <1>7, <1>8, <1>9, <1>10, ZenonT(60)
    DEF Next, vars, MapsChange, RefreshRead, FinalizeProfileLoop,
        MappingUnreadable, TableWaits, WriteProcessInfo, PersistUnwindTable

\* Without a reset in the middle of a call: the flag stays down, or there is a reset.
LEMMA NextUntainted ==
    ASSUME [Next]_vars, ~tainted'
    PROVE  ~tainted \/ (PersistUnwindTable /\ PersistReset)
  BY Frames, ZenonT(60) DEF FinalizeProfileLoop, NewShard, AllocateNewShard, PersistUnwindTable,
       PersistShard, PersistTooSoon

\* A step that changes neither the IDs nor the chunks keeps OwnIDs if a build ID with the
\* next ID stays pending.
LEMMA OwnIDsKept ==
    ASSUME OwnIDs, UNCHANGED <<idVars, unwindShards>>,
           \/ waitingUnwind'
           \/ UNCHANGED waitingUnwind /\ stage \notin {"table", "full"}
           \/ UNCHANGED <<waitingUnwind, exe>> /\ stage' \in {"table", "full"}
           \/ UNCHANGED waitingUnwind /\ Full(unwindShards, executableID, MaxExecutables)
    PROVE  OwnIDs'
  <1>1. ASSUME NEW b, Pending(b) PROVE Pending(b)'
    BY <1>1 DEF Pending, Full
  <1> QED
    BY <1>1 DEF OwnIDs

\* An ID handed out is below the next one.
LEMMA OneMore ==
    ASSUME NEW n \in Nat, NEW e \in Nat, e <= n
    PROVE  e <= n + 1 /\ e # n + 1
  OBVIOUS

\* Steps keep the IDs of the build IDs apart.
LEMMA NextOwnIDs ==
    ASSUME Inv3, [Next]_vars, ~tainted, OwnIDs
    PROVE  OwnIDs'
  <1>0. /\ executableID \in Nat
        /\ DOMAIN buildIDMapping \subseteq BuildIDs
        /\ \A b \in DOMAIN buildIDMapping : buildIDMapping[b] \in Nat
        /\ \A e \in DOMAIN unwindShards : e < executableID
        /\ waitingUnwind \in BOOLEAN /\ waitingUnwind' \in BOOLEAN
    <2>1. TypeFlags'
      BY NextTypeFlags DEF Inv3
    <2> QED
      BY <2>1 DEF Inv3, Inv1, TypeOK, TypeIDs, TypeFlags, OwnInv
  <1>1. CASE PersistReset
    <2>1. DOMAIN buildIDMapping' = {}
      BY <1>1, EmptyDomain DEF PersistReset
    <2> QED
      BY <2>1, ZenonT(60) DEF OwnIDs
  <1>2. CASE PersistTooSoon
    <2>1. UNCHANGED <<idVars, unwindShards>> /\ waitingUnwind'
      BY <1>2 DEF PersistTooSoon
    <2> QED
      BY <2>1, OwnIDsKept
  <1>3. CASE NewShard
    <2>1. CASE PersistShard /\ stage' = "table" /\ UNCHANGED tableVars
      <3>1. UNCHANGED <<idVars, unwindShards, waitingUnwind, exe>> /\ stage' \in {"table", "full"}
        BY <2>1 DEF PersistShard
      <3> QED
        BY <3>1, OwnIDsKept
    <2> QED
      BY <1>1, <1>2, <1>3, <2>1 DEF NewShard, AllocateNewShard
  <1>4. CASE PersistUnwindTable
    <2>1. CASE PersistShard /\ stage = "idle"
      <3>1. UNCHANGED <<idVars, unwindShards, waitingUnwind>> /\ stage \notin {"table", "full"}
        BY <2>1 DEF PersistShard
      <3> QED
        BY <3>1, OwnIDsKept
    <2> QED
      BY <1>1, <1>2, <1>4, <2>1 DEF PersistUnwindTable
  <1>5. CASE MappingNew
    <2>1. /\ UNCHANGED <<executableID, unwindShards, waitingUnwind>> /\ stage = "mappings"
          /\ buildIDMapping' = Put(buildIDMapping, Head(todo), executableID)
          /\ Head(todo) \in BuildIDs \ DOMAIN buildIDMapping
          /\ \/ stage' = "table" /\ exe' = Head(todo) /\ UNCHANGED untabled
             \/ untabled' = untabled \cup {Head(todo)}
      BY <1>5, ZenonT(60) DEF MappingNew
    <2>2. /\ DOMAIN buildIDMapping' = DOMAIN buildIDMapping \cup {Head(todo)}
          /\ buildIDMapping'[Head(todo)] = executableID
          /\ \A b \in DOMAIN buildIDMapping : buildIDMapping'[b] = buildIDMapping[b]
      BY <2>1 DEF Put
    <2>3. ASSUME NEW b, Pending(b) PROVE Pending(b)'
      BY <2>1, <2>3 DEF Pending, Full
    <2>4. ASSUME NEW b \in DOMAIN buildIDMapping', b \notin untabled'
          PROVE  /\ buildIDMapping'[b] <= executableID'
                 /\ buildIDMapping'[b] = executableID' => Pending(b)'
                 /\ buildIDMapping'[b] \in DOMAIN unwindShards' =>
                      \A j \in DOMAIN unwindShards'[buildIDMapping'[b]] :
                        unwindShards'[buildIDMapping'[b]][j].exe = b
      <3>1. CASE b \in DOMAIN buildIDMapping
        <4>1. b \notin untabled /\ buildIDMapping'[b] = buildIDMapping[b]
          BY <2>1, <2>2, <2>4, <3>1
        <4>2. buildIDMapping'[b] <= executableID'
          BY <2>1, <3>1, <4>1 DEF OwnIDs
        <4>3. buildIDMapping'[b] = executableID' => Pending(b)'
          BY <2>1, <2>3, <3>1, <4>1, Zenon DEF OwnIDs
        <4> QED
          BY <2>1, <3>1, <4>1, <4>2, <4>3 DEF OwnIDs
      <3>2. CASE b = Head(todo)
        <4>1. buildIDMapping'[b] = executableID /\ executableID \notin DOMAIN unwindShards
          BY <1>0, <2>2, <3>2
        <4>2. stage' = "table" /\ exe' = b
          BY <2>1, <2>4, <3>2
        <4>3. Pending(b)'
          BY <4>2 DEF Pending
        <4>4. executableID' = executableID /\ executableID <= executableID
          BY <1>0, <2>1
        <4>5. buildIDMapping'[b] <= executableID'
          BY <4>1, <4>4
        <4>6. buildIDMapping'[b] \notin DOMAIN unwindShards'
          BY <2>1, <4>1
        <4> QED
          BY <4>3, <4>5, <4>6
      <3> QED
        BY <2>2, <2>4, <3>1, <3>2
    <2> QED
      BY <2>4 DEF OwnIDs
  <1>6. CASE PublishChunks
    <2>0. stage = "table" /\ UNCHANGED <<waitingUnwind, buildIDMapping, untabled>> /\ ~waitingUnwind
      BY <1>6 DEF PublishChunks
    <2>1. CASE Full(unwindShards, executableID, MaxExecutables) /\ UNCHANGED <<unwindShards, executableID>>
      <3>1. UNCHANGED <<idVars, unwindShards, waitingUnwind>>
        BY <2>0, <2>1
      <3> QED
        BY <2>1, <3>1, OwnIDsKept
    <2>2. CASE /\ ~Full(unwindShards, executableID, MaxExecutables)
               /\ executableID' = executableID + 1
               /\ unwindShards' = Put(unwindShards, executableID,
                    IF Len(chunks) > MaxUnwindTableChunks
                    THEN SubSeq(chunks, 1, MaxUnwindTableChunks) ELSE chunks)
      <3>1. PICK entry : entry = IF Len(chunks) > MaxUnwindTableChunks
                                 THEN SubSeq(chunks, 1, MaxUnwindTableChunks) ELSE chunks
        BY Zenon
      <3>2. \A j \in DOMAIN entry : entry[j].exe = exe
        <4>1. chunks \in Seq(Chunk) /\ \A j \in DOMAIN chunks : chunks[j].exe = exe
          BY <2>0 DEF Inv3, Inv1, TypeOK, TypeCalls, SplitInv
        <4>2. CASE Len(chunks) > MaxUnwindTableChunks
          BY <3>1, <4>1, <4>2, SizesAssumption
        <4> QED
          BY <3>1, <4>1, <4>2, Zenon
      <3>3. /\ DOMAIN unwindShards' = DOMAIN unwindShards \cup {executableID}
            /\ unwindShards'[executableID] = entry
            /\ \A e \in DOMAIN unwindShards : unwindShards'[e] = unwindShards[e]
        BY <1>0, <2>2, <3>1 DEF Put
      <3>4. ASSUME NEW b \in DOMAIN buildIDMapping', b \notin untabled'
            PROVE  /\ buildIDMapping'[b] <= executableID'
                   /\ buildIDMapping'[b] # executableID'
                   /\ buildIDMapping'[b] \in DOMAIN unwindShards' =>
                        \A j \in DOMAIN unwindShards'[buildIDMapping'[b]] :
                          unwindShards'[buildIDMapping'[b]][j].exe = b
        <4>1. /\ b \in DOMAIN buildIDMapping \ untabled /\ buildIDMapping'[b] = buildIDMapping[b]
              /\ buildIDMapping[b] \in Nat /\ buildIDMapping[b] <= executableID
          BY <1>0, <2>0, <3>4 DEF OwnIDs
        <4>2. CASE buildIDMapping[b] = executableID
          <5>1. Pending(b)
            BY <4>1, <4>2 DEF OwnIDs
          <5>2. exe = b
            BY <2>0, <2>2, <5>1 DEF Pending
          <5> QED
            <6>1. buildIDMapping'[b] <= executableID' /\ buildIDMapping'[b] # executableID'
              BY <2>2, <4>1, <4>2
            <6>2. unwindShards'[buildIDMapping'[b]] = entry
              BY <3>3, <4>1, <4>2
            <6> QED
              BY <3>2, <5>2, <6>1, <6>2
        <4>3. CASE buildIDMapping[b] # executableID
          <5>1. buildIDMapping[b] \in DOMAIN unwindShards' =>
                   /\ buildIDMapping[b] \in DOMAIN unwindShards
                   /\ unwindShards'[buildIDMapping[b]] = unwindShards[buildIDMapping[b]]
            BY <3>3, <4>3
          <5>2. buildIDMapping[b] <= executableID' /\ buildIDMapping[b] # executableID'
            BY <1>0, <2>2, <4>1, OneMore
          <5> QED
            BY <4>1, <5>1, <5>2 DEF OwnIDs
        <4> QED
          BY <4>2, <4>3
      <3> QED
        BY <3>4 DEF OwnIDs
    <2> QED
      BY <1>6, <2>1, <2>2, ZenonT(60) DEF PublishChunks
  <1>7. CASE AppendChunk
    <2>1. UNCHANGED <<idVars, unwindShards, waitingUnwind, exe>>
      BY <1>7 DEF AppendChunk
    <2>2. stage' \in {"full", "table"}
      BY <1>7, AppendChunkEffect, ZenonT(60) DEF Inv3
    <2> QED
      BY <2>1, <2>2, OwnIDsKept
  <1>8. CASE UNCHANGED <<idVars, unwindShards, waitingUnwind>> /\ stage \notin {"table", "full"}
    BY <1>8, OwnIDsKept
  <1>9. CASE UNCHANGED <<idVars, unwindShards, waitingUnwind, stage, exe>>
    BY <1>8, <1>9, OwnIDsKept
  <1>10. CASE TableWaits
    <2>1. UNCHANGED <<idVars, unwindShards>> /\ waitingUnwind'
      BY <1>10 DEF TableWaits
    <2> QED
      BY <2>1, OwnIDsKept
  <1>11. CASE MappingWithoutTable \/ MappingUnreadable \/ MappingSeen \/ WriteProcessInfo
    <2>1. UNCHANGED <<idVars, unwindShards, waitingUnwind>> /\ stage \notin {"table", "full"}
      BY <1>11 DEF MappingWithoutTable, MappingUnreadable, MappingSeen, WriteProcessInfo
    <2> QED
      BY <1>8, <2>1
  <1>12. ASSUME NEW p \in Pids, BatchAdd(p) \/ MapsChange(p) \/ RefreshRead(p) PROVE OwnIDs'
    <2>1. \/ UNCHANGED <<idVars, unwindShards, waitingUnwind>> /\ stage \notin {"table", "full"}
          \/ UNCHANGED <<idVars, unwindShards, waitingUnwind, stage, exe>>
      BY <1>12 DEF BatchAdd, MapsChange, RefreshRead
    <2> QED
      BY <1>8, <1>9, <2>1
  <1>13. CASE RefreshAdd \/ FinalizeProfileLoop \/ UNCHANGED vars
    <2>1. \/ UNCHANGED <<idVars, unwindShards, waitingUnwind>> /\ stage \notin {"table", "full"}
          \/ UNCHANGED <<idVars, unwindShards, waitingUnwind, stage, exe>>
      BY <1>13 DEF RefreshAdd, FinalizeProfileLoop, vars
    <2> QED
      BY <1>8, <1>9, <2>1
  <1> QED
    BY <1>3, <1>4, <1>5, <1>6, <1>7, <1>10, <1>11, <1>12, <1>13, ZenonT(60) DEF Next

\* Registering a new build ID disturbs no mapping that was written.
LEMMA RegisteredKept ==
    ASSUME MappingNew, NEW m, Registered(m, buildIDMapping, untabled)
    PROVE  Registered(m, buildIDMapping', untabled')
  <1>1. /\ buildIDMapping' = Put(buildIDMapping, Head(todo), executableID)
        /\ Head(todo) \notin DOMAIN buildIDMapping
        /\ untabled \subseteq untabled'
    BY DEF MappingNew
  <1>2. /\ DOMAIN buildIDMapping \subseteq DOMAIN buildIDMapping'
        /\ \A b \in DOMAIN buildIDMapping : buildIDMapping'[b] = buildIDMapping[b]
    BY <1>1 DEF Put
  <1> QED
    BY <1>1, <1>2 DEF Registered

\* The mappings of the entry under construction have the IDs of their build IDs.
LEMMA NextOwnBuf ==
    ASSUME Inv3, [Next]_vars, ~tainted, OwnBuf, ~tainted'
    PROVE  OwnBuf'
  <1>0. buf \in Seq(Written) /\ todo \in Seq(Objects)
    BY DEF Inv3, Inv1, TypeOK, TypeCalls
  <1>1. CASE buf' = <<>>
    BY <1>1, EmptyDomain, ZenonT(60) DEF OwnBuf
  <1>2. CASE UNCHANGED <<buf, buildIDMapping, untabled>>
    BY <1>2 DEF OwnBuf
  <1>3. CASE Return
    BY <1>1, <1>3 DEF Return
  <1>4. ASSUME NEW id, WriteMapping(id),
               Registered([obj |-> Head(todo), id |-> id], buildIDMapping', untabled'),
               \A i \in DOMAIN buf : Registered(buf[i], buildIDMapping', untabled')
        PROVE  OwnBuf'
    <2>1. PICK m : m = [obj |-> Head(todo), id |-> id]
      BY Zenon
    <2>2. buf' = Append(buf, m)
      BY <1>4, <2>1 DEF WriteMapping
    <2>3. ASSUME NEW i \in DOMAIN buf' PROVE buf'[i] = m \/ (i \in DOMAIN buf /\ buf'[i] = buf[i])
      BY <1>0, <2>2, <2>3, AppendCases
    <2> QED
      BY <1>4, <2>1, <2>3 DEF OwnBuf
  <1>5. CASE MappingNew
    <2>1. /\ WriteMapping(executableID)
          /\ buildIDMapping' = Put(buildIDMapping, Head(todo), executableID)
      BY <1>5 DEF MappingNew
    <2>2. Registered([obj |-> Head(todo), id |-> executableID], buildIDMapping', untabled')
      BY <2>1 DEF Registered, Put
    <2>3. \A i \in DOMAIN buf : Registered(buf[i], buildIDMapping', untabled')
      BY <1>5, RegisteredKept DEF OwnBuf
    <2> QED
      BY <1>4, <2>1, <2>2, <2>3
  <1>6. CASE MappingSeen
    <2>1. /\ WriteMapping(buildIDMapping[Head(todo)]) /\ Head(todo) \in DOMAIN buildIDMapping
          /\ UNCHANGED <<buildIDMapping, untabled>>
      BY <1>6 DEF MappingSeen
    <2>2. Registered([obj |-> Head(todo), id |-> buildIDMapping[Head(todo)]], buildIDMapping', untabled')
      BY <2>1 DEF Registered
    <2>3. \A i \in DOMAIN buf : Registered(buf[i], buildIDMapping', untabled')
      BY <2>1 DEF OwnBuf
    <2> QED
      BY <1>4, <2>1, <2>2, <2>3
  <1>7. CASE MappingWithoutTable
    <2>0. UNCHANGED <<buildIDMapping, untabled>>
      BY <1>7 DEF MappingWithoutTable
    <2>1. CASE UNCHANGED buf
      BY <1>2, <2>0, <2>1
    <2>2. CASE Head(todo) = Anon /\ WriteMapping(0)
      <3>1. Registered([obj |-> Head(todo), id |-> 0], buildIDMapping', untabled')
        BY <2>2, ObjectsAssumption DEF Registered
      <3>2. \A i \in DOMAIN buf : Registered(buf[i], buildIDMapping', untabled')
        BY <2>0 DEF OwnBuf
      <3> QED
        BY <1>4, <2>2, <3>1, <3>2
    <2> QED
      BY <1>7, <2>1, <2>2 DEF MappingWithoutTable
  <1>8. CASE NewShard
    <2>1. CASE PersistShard /\ UNCHANGED callVars
      BY <1>2, <2>1 DEF PersistShard
    <2> QED
      BY <1>3, <1>8, <2>1 DEF NewShard, AllocateNewShard
  <1>9. CASE PersistUnwindTable
    <2>1. buf = <<>> /\ UNCHANGED buf
      BY <1>9 DEF PersistUnwindTable, Inv3, OwnInv
    <2> QED
      BY <1>1, <2>1
  <1>10. CASE PublishChunks
    BY <1>2, <1>3, <1>10 DEF PublishChunks
  <1>11. ASSUME NEW p \in Pids, BatchAdd(p) \/ MapsChange(p) \/ RefreshRead(p) PROVE OwnBuf'
    BY <1>1, <1>2, <1>11 DEF BatchAdd, MapsChange, RefreshRead, Start, GiveUp
  <1>12. CASE RefreshAdd \/ FinalizeProfileLoop \/ AppendChunk \/ UNCHANGED vars
    BY <1>1, <1>2, <1>12 DEF RefreshAdd, FinalizeProfileLoop, AppendChunk, Start, GiveUp, vars
  <1> QED
    BY <1>3, <1>5, <1>6, <1>7, <1>8, <1>9, <1>10, <1>11, <1>12, ZenonT(60)
    DEF Next, MappingUnreadable, TableWaits, WriteProcessInfo

\* The mappings in process_info have the IDs of their build IDs.
LEMMA NextOwnInfo ==
    ASSUME Inv3, [Next]_vars, ~tainted, OwnBuf, OwnInfo, ~tainted'
    PROVE  OwnInfo'
  <1>1. CASE processInfo' = <<>>
    BY <1>1, EmptyDomain, ZenonT(60) DEF OwnInfo
  <1>2. CASE UNCHANGED <<processInfo, buildIDMapping, untabled>>
    BY <1>2 DEF OwnInfo
  <1>3. CASE MappingNew
    <2>1. UNCHANGED processInfo
      BY <1>3 DEF MappingNew
    <2> QED
      BY <1>3, <2>1, RegisteredKept DEF OwnInfo
  <1>4. CASE NewShard
    BY <1>2, <1>4 DEF NewShard, AllocateNewShard, PersistShard, PersistTooSoon
  <1>5. CASE PersistUnwindTable
    BY <1>1, <1>2, <1>5 DEF PersistUnwindTable, PersistShard, PersistTooSoon, PersistReset
  <1>6. CASE WriteProcessInfo
    <2>0. UNCHANGED <<buildIDMapping, untabled>>
      BY <1>6 DEF WriteProcessInfo
    <2>1. CASE processInfo' = Put(processInfo, pid, buf)
      <3>1. \A p \in DOMAIN processInfo' :
               processInfo'[p] = buf \/ (p \in DOMAIN processInfo /\ processInfo'[p] = processInfo[p])
        BY <2>1 DEF Put
      <3> QED
        BY <2>0, <3>1 DEF OwnInfo, OwnBuf
    <2> QED
      BY <1>1, <1>2, <1>6, <2>0, <2>1 DEF WriteProcessInfo
  <1>7. CASE PublishChunks \/ FinalizeProfileLoop
    BY <1>2, <1>7 DEF PublishChunks, FinalizeProfileLoop
  <1> QED
    BY <1>2, <1>3, <1>4, <1>5, <1>6, <1>7, Frames

\* Steps keep the whole of it.
LEMMA NextInv3 == Inv3 /\ [Next]_vars => OwnInv'
  <1> SUFFICES ASSUME Inv3, [Next]_vars PROVE OwnInv'
    OBVIOUS
  <1>1. ASSUME ~tainted' PROVE (OwnIDs /\ OwnBuf /\ OwnInfo)'
    <2>1. CASE ~tainted
      BY <1>1, <2>1, NextOwnIDs, NextOwnBuf, NextOwnInfo DEF Inv3, OwnInv
    <2>2. CASE PersistUnwindTable /\ PersistReset
      <3>1. buildIDMapping' = <<>> /\ processInfo' = <<>> /\ buf' = <<>>
        BY <2>2 DEF PersistReset, PersistUnwindTable, Inv3, OwnInv
      <3> QED
        BY <3>1, EmptyDomain, ZenonT(60) DEF OwnIDs, OwnBuf, OwnInfo
    <2> QED
      BY <1>1, <2>1, <2>2, NextUntainted
  <1> QED
    BY <1>1, NextIDsBelow, NextIdleBuf DEF OwnInv

\* Whatever fails, waits or is reset at a batch's end, and however many executables share
\* the maps, a mapping in process_info leads to the chunks of its own executable or to none.
THEOREM MappingsFindOwnTableHolds == Spec => []MappingsFindOwnTable
  <1>1. Init => SplitInv /\ OwnInv
    <2>1. ASSUME Init
          PROVE  /\ stage = "idle" /\ buf = <<>> /\ DOMAIN unwindShards = {}
                 /\ DOMAIN buildIDMapping = {} /\ DOMAIN processInfo = {}
      BY <2>1, EmptyDomain DEF Init
    <2>2. ASSUME Init PROVE SplitInv
      BY <2>1, <2>2 DEF SplitInv
    <2> QED
      BY <2>1, <2>2, EmptyDomain, ZenonT(60) DEF OwnInv, OwnIDs, OwnBuf, OwnInfo
  <1>2. Inv1 /\ SplitInv /\ OwnInv /\ [Next]_vars => (SplitInv /\ OwnInv)'
    BY NextSplitInv, NextInv3 DEF Inv3
  <1>3. OwnInv => MappingsFindOwnTable
    <2> SUFFICES ASSUME OwnInv, ~tainted,
                        NEW p \in DOMAIN processInfo, NEW i \in DOMAIN processInfo[p],
                        processInfo[p][i].obj \in BuildIDs \ untabled,
                        processInfo[p][i].id \in DOMAIN unwindShards
                 PROVE  \A j \in DOMAIN unwindShards[processInfo[p][i].id] :
                          unwindShards[processInfo[p][i].id][j].exe = processInfo[p][i].obj
      BY DEF MappingsFindOwnTable
    <2>1. /\ processInfo[p][i].obj \in DOMAIN buildIDMapping
          /\ buildIDMapping[processInfo[p][i].obj] = processInfo[p][i].id
      BY ZenonT(60) DEF OwnInv, OwnInfo, Registered
    <2>2. processInfo[p][i].obj \in DOMAIN buildIDMapping \ untabled
      BY <2>1
    <2> QED
      BY <2>1, <2>2 DEF OwnInv, OwnIDs
  <1> QED
    BY <1>1, <1>2, <1>3, InductiveInv1, PTL DEF Spec

-----------------------------------------------------------------------------
(* The cached mappings are those process_info was written from.  The invariant is     *)
(* about the call under way: the entry under construction has the mappings that are   *)
(* not left to do.                                                                    *)

ProgressInv ==
    stage # "idle" =>
      /\ Len(todo) <= Len(mappings)
      /\ \A k \in 1..Len(todo) : todo[k] = mappings[Len(mappings) - Len(todo) + k]
      /\ WrittenFrom(buf, mappings, Len(mappings) - Len(todo))

\* Nothing is written from no mappings.
LEMMA WrittenNone == ASSUME NEW list PROVE WrittenFrom(<<>>, list, 0)
  <1>1. DOMAIN <<>> = {} /\ 1..0 = {}
    OBVIOUS
  <1>2. PICK at : at \in [{} -> {}]
    <2>1. [i \in {} |-> 1] \in [{} -> {}]
      OBVIOUS
    <2> QED
      BY <2>1, Zenon
  <1> QED
    BY <1>1, <1>2, ZenonT(60) DEF WrittenFrom

\* The indexes up to n + 1 are those up to n and n + 1 itself.
LEMMA UpToNext ==
    ASSUME NEW n \in Nat
    PROVE  /\ n + 1 \in 1..(n + 1)
           /\ 1..n \subseteq 1..(n + 1)
           /\ \A k \in 1..(n + 1) : k = n + 1 \/ k \in 1..n
           /\ \A k \in 1..n : k < n + 1 /\ ~(n + 1 < k)
           /\ ~(n + 1 < n + 1)
  OBVIOUS

\* An index up to n is below the one that follows.
LEMMA BelowNext ==
    ASSUME NEW n \in Nat, NEW k \in 1..n, NEW m, m = n + 1
    PROVE  k < m
  OBVIOUS

\* Only the last index is below no other one.
LEMMA BelowLast ==
    ASSUME NEW l \in Nat, NEW i \in 1..(l + 1), NEW j \in 1..(l + 1), i < j
    PROVE  i \in 1..l
  OBVIOUS

\* A jitdump file is skipped.
LEMMA WrittenSkip ==
    ASSUME NEW entry, NEW list, NEW n \in Nat, WrittenFrom(entry, list, n), list[n + 1] = JitDump
    PROVE  WrittenFrom(entry, list, n + 1)
  <1>1. PICK at \in [DOMAIN entry -> 1..n] :
          /\ \A i \in DOMAIN entry : entry[i].obj = list[at[i]] /\ list[at[i]] # JitDump
          /\ \A i, j \in DOMAIN entry : i < j => at[i] < at[j]
          /\ \A k \in 1..n : list[k] # JitDump => \E i \in DOMAIN entry : at[i] = k
    BY ZenonT(60) DEF WrittenFrom
  <1>2. at \in [DOMAIN entry -> 1..(n + 1)]
    BY UpToNext
  <1>3. \A k \in 1..(n + 1) : list[k] # JitDump => \E i \in DOMAIN entry : at[i] = k
    BY <1>1, UpToNext, ZenonT(60)
  <1> QED
    BY <1>1, <1>2, <1>3, ZenonT(60) DEF WrittenFrom

\* An entry grows by the mapping that follows those it was written from.
LEMMA WrittenLonger ==
    ASSUME NEW entry, NEW longer, NEW list, NEW n \in Nat, NEW l \in Nat,
           WrittenFrom(entry, list, n), list[n + 1] # JitDump,
           DOMAIN entry = 1..l, DOMAIN longer = 1..(l + 1),
           \A i \in 1..l : longer[i] = entry[i], longer[l + 1].obj = list[n + 1]
    PROVE  WrittenFrom(longer, list, n + 1)
  <1>1. PICK at \in [DOMAIN entry -> 1..n] :
          /\ \A i \in DOMAIN entry : entry[i].obj = list[at[i]] /\ list[at[i]] # JitDump
          /\ \A i, j \in DOMAIN entry : i < j => at[i] < at[j]
          /\ \A k \in 1..n : list[k] # JitDump => \E i \in DOMAIN entry : at[i] = k
    BY ZenonT(60) DEF WrittenFrom
  <1>2. PICK more : more = [i \in 1..(l + 1) |-> IF i = l + 1 THEN n + 1 ELSE at[i]]
    BY Zenon
  <1>3. more[l + 1] = n + 1
    BY <1>2, UpToNext, ZenonT(60)
  <1>4. \A i \in 1..l : more[i] = at[i] /\ at[i] \in 1..n
    <2> TAKE i \in 1..l
    <2>1. i \in 1..(l + 1) /\ i # l + 1
      BY UpToNext
    <2> QED
      BY <1>2, <2>1, ZenonT(60)
  <1>5. more \in [DOMAIN longer -> 1..(n + 1)]
    <2>1. \A i \in 1..(l + 1) : (IF i = l + 1 THEN n + 1 ELSE at[i]) \in 1..(n + 1)
      BY UpToNext, ZenonT(60)
    <2> QED
      BY <1>2, <2>1, ZenonT(60)
  <1>6. \A i \in DOMAIN longer : longer[i].obj = list[more[i]] /\ list[more[i]] # JitDump
    <2> TAKE i \in DOMAIN longer
    <2>1. CASE i = l + 1
      BY <1>3, <2>1, ZenonT(60)
    <2>2. CASE i \in 1..l
      BY <1>1, <1>4, <2>2, ZenonT(60)
    <2> QED
      BY <2>1, <2>2, UpToNext, ZenonT(60)
  <1>7. \A i, j \in DOMAIN longer : i < j => more[i] < more[j]
    <2> TAKE i, j \in DOMAIN longer
    <2> HAVE i < j
    <2>1. CASE i \in 1..l /\ j \in 1..l
      BY <1>1, <1>4, <2>1, ZenonT(60)
    <2>2. CASE i \in 1..l /\ j = l + 1
      <3>1. more[i] \in 1..n /\ more[j] = n + 1
        BY <1>3, <1>4, <2>2, ZenonT(60)
      <3> QED
        BY <3>1, BelowNext
    <2>3. i \in 1..l
      BY BelowLast
    <2> QED
      BY <2>1, <2>2, <2>3, UpToNext, ZenonT(60)
  <1>8. \A k \in 1..(n + 1) : list[k] # JitDump => \E i \in DOMAIN longer : more[i] = k
    <2> TAKE k \in 1..(n + 1)
    <2> HAVE list[k] # JitDump
    <2>1. CASE k = n + 1
      BY <1>3, <2>1, UpToNext, ZenonT(60)
    <2>2. CASE k \in 1..n
      <3>1. PICK i \in DOMAIN entry : at[i] = k
        BY <1>1, <2>2, ZenonT(60)
      <3>2. i \in DOMAIN longer /\ more[i] = k
        BY <1>4, <3>1, UpToNext, ZenonT(60)
      <3> QED
        BY <3>2
    <2> QED
      BY <2>1, <2>2, UpToNext, ZenonT(60)
  <1> QED
    BY <1>5, <1>6, <1>7, <1>8, ZenonT(60) DEF WrittenFrom

\* Any other mapping is appended.
LEMMA WrittenAppend ==
    ASSUME NEW entry \in Seq(Written), NEW list, NEW n \in Nat, WrittenFrom(entry, list, n),
           NEW m, m.obj = list[n + 1], list[n + 1] # JitDump
    PROVE  WrittenFrom(Append(entry, m), list, n + 1)
  <1>1. Len(entry) \in Nat /\ DOMAIN entry = 1..Len(entry)
    OBVIOUS
  <1>2. /\ Len(Append(entry, m)) = Len(entry) + 1
        /\ DOMAIN Append(entry, m) = 1..Len(Append(entry, m))
    OBVIOUS
  <1>3. \A i \in 1..Len(entry) : Append(entry, m)[i] = entry[i]
    OBVIOUS
  <1>4. Append(entry, m)[Len(entry) + 1] = m
    OBVIOUS
  <1> QED
    BY <1>1, <1>2, <1>3, <1>4, WrittenLonger, ZenonT(60)

\* Steps keep the entry under construction in line with the mappings dealt with.
LEMMA NextProgress == Inv1 /\ ProgressInv /\ [Next]_vars => ProgressInv'
  <1> SUFFICES ASSUME Inv1, ProgressInv, [Next]_vars PROVE ProgressInv'
    OBVIOUS
  <1>0. /\ buf \in Seq(Written) /\ todo \in Seq(Objects) /\ mappings \in Seq(Objects)
    <2>1. mappings \in MappingLists \/ mappings = <<>>
      BY DEF Inv1, TypeOK, TypeCalls
    <2>2. mappings \in Seq(Objects)
      <3>1. <<>> \in Seq(Objects)
        OBVIOUS
      <3> QED
        BY <2>1, <3>1, MappingListsAssumption, ZenonT(60)
    <2> QED
      BY <2>2 DEF Inv1, TypeOK, TypeCalls
  <1>1. CASE UNCHANGED callVars /\ (stage' # "idle" => stage # "idle")
    <2>1. stage' # "idle" =>
            /\ Len(todo') <= Len(mappings')
            /\ \A k \in 1..Len(todo') : todo'[k] = mappings'[Len(mappings') - Len(todo') + k]
            /\ WrittenFrom(buf', mappings', Len(mappings') - Len(todo'))
      BY <1>1 DEF ProgressInv
    <2> QED
      BY <2>1, ZenonT(60) DEF ProgressInv, WrittenFrom
  <1>2. CASE Return
    BY <1>2 DEF Return, ProgressInv
  <1>3. ASSUME NEW c, NEW p, NEW l \in Seq(Objects), Start(c, p, l) PROVE ProgressInv'
    <2>1. /\ mappings' = l /\ todo' = l /\ buf' = <<>>
          /\ Len(l) \in Nat /\ Len(l) - Len(l) = 0
          /\ \A k \in 1..Len(l) : Len(l) - Len(l) + k = k
      BY <1>3 DEF Start
    <2>2. WrittenFrom(<<>>, l, 0)
      BY WrittenNone
    <2>3. WrittenFrom(buf', mappings', Len(mappings') - Len(todo'))
      BY <2>1, <2>2
    <2>4. \A k \in 1..Len(todo') : todo'[k] = mappings'[Len(mappings') - Len(todo') + k]
      BY <2>1
    <2>5. Len(todo') <= Len(mappings')
      BY <2>1
    <2> QED
      BY <2>3, <2>4, <2>5, ZenonT(60) DEF ProgressInv, WrittenFrom
  <1>4. ASSUME stage = "mappings", todo # <<>>, todo' = Tail(todo), mappings' = mappings,
               \/ Head(todo) = JitDump /\ buf' = buf
               \/ \E id : Head(todo) # JitDump /\ buf' = Append(buf, [obj |-> Head(todo), id |-> id])
        PROVE  ProgressInv'
    <2>1. PICK n \in Nat : n = Len(mappings) - Len(todo)
      <3>1. Len(todo) <= Len(mappings)
        BY <1>4 DEF ProgressInv
      <3>2. Len(todo) \in Nat /\ Len(mappings) \in Nat
        BY <1>0
      <3> QED
        BY <3>1, <3>2
    <2>2. /\ Len(todo) \in Nat \ {0} /\ Head(todo) = todo[1] /\ Len(Tail(todo)) = Len(todo) - 1
          /\ \A k \in 1..Len(Tail(todo)) : Tail(todo)[k] = todo[k + 1]
      BY <1>0, <1>4
    <2>3. Head(todo) = mappings[n + 1] /\ WrittenFrom(buf, mappings, n)
      BY <1>4, <2>1, <2>2 DEF ProgressInv
    <2>4. Len(mappings') - Len(todo') = n + 1 /\ Len(todo') <= Len(mappings')
      BY <1>0, <1>4, <2>1, <2>2
    <2>5. ASSUME NEW k \in 1..Len(todo') PROVE todo'[k] = mappings'[n + 1 + k]
      <3>1. k + 1 \in 1..Len(todo) /\ todo'[k] = todo[k + 1] /\ n + (k + 1) = n + 1 + k
        BY <1>4, <2>2, <2>5
      <3> QED
        BY <1>4, <2>1, <3>1 DEF ProgressInv
    <2>6. WrittenFrom(buf', mappings, n + 1)
      <3>1. CASE Head(todo) = JitDump /\ buf' = buf
        BY <2>3, <3>1, WrittenSkip
      <3>2. ASSUME NEW id, Head(todo) # JitDump, buf' = Append(buf, [obj |-> Head(todo), id |-> id])
            PROVE  WrittenFrom(buf', mappings, n + 1)
        <4>1. [obj |-> Head(todo), id |-> id].obj = mappings[n + 1] /\ mappings[n + 1] # JitDump
          BY <2>3, <3>2
        <4> QED
          BY <1>0, <2>3, <3>2, <4>1, WrittenAppend
      <3> QED
        BY <1>4, <3>1, <3>2, Zenon
    <2>7. WrittenFrom(buf', mappings', Len(mappings') - Len(todo'))
      BY <1>4, <2>4, <2>6
    <2>8. \A k \in 1..Len(todo') : todo'[k] = mappings'[Len(mappings') - Len(todo') + k]
      BY <2>4, <2>5, Zenon
    <2> QED
      BY <2>4, <2>7, <2>8 DEF ProgressInv, WrittenFrom
  <1>5. CASE MappingWithoutTable
    BY <1>4, <1>5, ObjectsAssumption, ZenonT(60) DEF MappingWithoutTable, WriteMapping
  <1>6. CASE MappingSeen
    <2>1. DOMAIN buildIDMapping \subseteq BuildIDs
      BY DEF Inv1, TypeOK, TypeIDs
    <2>2. Head(todo) # JitDump
      BY <1>6, <2>1, ObjectsAssumption DEF MappingSeen
    <2> QED
      BY <1>4, <1>6, <2>2, ZenonT(60) DEF MappingSeen, WriteMapping
  <1>7. CASE MappingNew
    <2>1. Head(todo) # JitDump
      BY <1>7, ObjectsAssumption DEF MappingNew
    <2> QED
      BY <1>4, <1>7, <2>1, ZenonT(60) DEF MappingNew, WriteMapping
  <1>8. ASSUME NEW p \in Pids, BatchAdd(p) PROVE ProgressInv'
    <2>1. maps[p] \in Seq(Objects)
      BY MappingListsAssumption DEF Inv1, TypeOK, TypeCalls
    <2>2. CASE Start("batch", p, maps[p])
      BY <1>3, <2>1, <2>2
    <2> QED
      BY <1>1, <1>8, <2>2, ZenonT(60) DEF BatchAdd, GiveUp
  <1>9. CASE RefreshAdd
    <2>1. refreshing[2] \in Seq(Objects)
      BY <1>9, MappingListsAssumption DEF RefreshAdd, Inv1, TypeOK, TypeCalls
    <2>2. CASE Start("refresh", refreshing[1], refreshing[2])
      BY <1>3, <2>1, <2>2
    <2> QED
      BY <1>1, <1>9, <2>2, ZenonT(60) DEF RefreshAdd, GiveUp
  <1>10. CASE AppendChunk
    <2>1. UNCHANGED callVars /\ stage # "idle"
      BY <1>10 DEF AppendChunk
    <2> QED
      BY <1>1, <2>1
  <1>11. CASE NewShard
    <2>1. stage # "idle"
      BY <1>11 DEF NewShard
    <2> QED
      BY <1>1, <1>2, <1>11, <2>1, ZenonT(60) DEF NewShard
  <1>12. CASE PublishChunks
    <2>1. stage # "idle"
      BY <1>12 DEF PublishChunks
    <2> QED
      BY <1>1, <1>2, <1>12, <2>1, ZenonT(60) DEF PublishChunks
  <1> QED
    BY <1>1, <1>2, <1>5, <1>6, <1>7, <1>8, <1>9, <1>10, <1>11, <1>12, ZenonT(60)
    DEF Next, vars, MapsChange, RefreshRead, FinalizeProfileLoop, MappingUnreadable, TableWaits,
        WriteProcessInfo, PersistUnwindTable

\* Steps keep the cache of mappings in line with process_info.
LEMMA NextCacheMatches ==
    Inv1 /\ ProgressInv /\ CacheMatchesProcessInfo /\ [Next]_vars => CacheMatchesProcessInfo'
  <1> SUFFICES ASSUME Inv1, ProgressInv, CacheMatchesProcessInfo, [Next]_vars
               PROVE CacheMatchesProcessInfo'
    OBVIOUS
  <1>1. CASE UNCHANGED <<processInfo, processCache>>
    <2>1. ASSUME NEW p \in DOMAIN processCache'
          PROVE  /\ p \in DOMAIN processInfo'
                 /\ WrittenFrom(processInfo'[p], processCache'[p], Len(processCache'[p]))
      BY <1>1 DEF CacheMatchesProcessInfo
    <2> QED
      BY <2>1, ZenonT(60) DEF CacheMatchesProcessInfo, WrittenFrom
  <1>2. CASE processCache' = <<>>
    BY <1>2, EmptyDomain, ZenonT(60) DEF CacheMatchesProcessInfo
  <1>3. CASE WriteProcessInfo
    <2>1. CASE processInfo' = Put(processInfo, pid, buf) /\ processCache' = Put(processCache, pid, mappings)
      <3>1. WrittenFrom(buf, mappings, Len(mappings))
        <4>1. stage # "idle" /\ todo = <<>> /\ Len(mappings) - Len(todo) = Len(mappings)
          <5>1. stage # "idle" /\ todo = <<>>
            BY <1>3 DEF WriteProcessInfo
          <5>2. Len(mappings) \in Nat
            <6>1. mappings \in MappingLists \cup {<<>>}
              BY DEF Inv1, TypeOK, TypeCalls
            <6>2. CASE mappings = <<>>
              BY <6>2
            <6> QED
              BY <6>1, <6>2, MappingListsAssumption
          <5> QED
            BY <5>1, <5>2
        <4> QED
          BY <4>1 DEF ProgressInv
      <3>2. /\ DOMAIN processInfo' = DOMAIN processInfo \cup {pid} /\ processInfo'[pid] = buf
            /\ \A p \in DOMAIN processInfo : p # pid => processInfo'[p] = processInfo[p]
            /\ DOMAIN processCache' = DOMAIN processCache \cup {pid} /\ processCache'[pid] = mappings
            /\ \A p \in DOMAIN processCache : p # pid => processCache'[p] = processCache[p]
        BY <2>1 DEF Put
      <3>3. ASSUME NEW p \in DOMAIN processCache'
            PROVE  /\ p \in DOMAIN processInfo'
                   /\ WrittenFrom(processInfo'[p], processCache'[p], Len(processCache'[p]))
        <4>1. CASE p = pid
          BY <3>1, <3>2, <4>1
        <4>2. CASE p # pid
          BY <3>2, <4>2 DEF CacheMatchesProcessInfo
        <4> QED
          BY <4>1, <4>2
      <3> QED
        BY <3>3, ZenonT(60) DEF CacheMatchesProcessInfo, WrittenFrom
    <2> QED
      BY <1>1, <1>2, <1>3, <2>1 DEF WriteProcessInfo
  <1>4. ASSUME PersistShard \/ PersistReset \/ PersistTooSoon PROVE CacheMatchesProcessInfo'
    BY <1>1, <1>2, <1>4 DEF PersistShard, PersistReset, PersistTooSoon
  <1> QED
    BY <1>1, <1>3, <1>4, Frames, ZenonT(60)
    DEF NewShard, AllocateNewShard, PersistUnwindTable, FinalizeProfileLoop

\* For every set of processes, whatever is full or reset, a process with cached mappings has
\* a process_info entry written from exactly those.
THEOREM CacheMatchesProcessInfoHolds == Spec => []CacheMatchesProcessInfo
  <1>1. Init => ProgressInv /\ CacheMatchesProcessInfo
    BY EmptyDomain, ZenonT(60) DEF Init, ProgressInv, CacheMatchesProcessInfo
  <1>2. Inv1 /\ ProgressInv /\ CacheMatchesProcessInfo /\ [Next]_vars
          => (ProgressInv /\ CacheMatchesProcessInfo)'
    BY NextProgress, NextCacheMatches
  <1> QED
    BY <1>1, <1>2, InductiveInv1, PTL DEF Spec
=============================================================================
