--------------------------- MODULE HandlerProofs ---------------------------
(***************************************************************************)
(* Proofs about two components whose state goroutines of the agent share.    *)
(* EventLoop, for any processes, files, goroutines and bounds: its types, and *)
(* that the two marks of InfoManager keep goroutines apart. ObjectFilePool,   *)
(* for every finite set of users and all paths and files: its types, that     *)
(* reads stay sound, and that originals are open.                            *)
(***************************************************************************)
EXTENDS EventLoop, ObjectFilePool, FiniteSetTheorems, TLAPS

-----------------------------------------------------------------------------
(* EventLoop: the marks of InfoManager. *)

\* Only a Fetch that is about to return after its uploads has found the process in the cache.
Missed(r) == r.hit => r.at \in {"ensure", "wait"}
MissedCache == \A c \in Callers : Missed(call[c])

\* The marks and the callers they belong to.
Marks == call \in [Callers -> Calls] /\ MissedCache /\ OneAtATime

\* The callback has nothing to add outside its loop.
RestIsAdded == batcher # "adding" => rest = {}

-----------------------------------------------------------------------------
(* The values callers are set to.                                          *)

\* The record of a goroutine without a call, to which Fetch and Info return, is well typed.
LEMMA IdleIsCall == Idle \in Calls
<1>1. AnyPid \in Pids
  BY PidsAssumption DEF AnyPid
<1> QED BY <1>1 DEF Idle, Calls, Steps

\* What Fetch returns to is well typed and outside both marks.
LEMMA ReturnedIsCall ==
    ASSUME NEW c \in Callers, NEW r \in Calls, NEW failed \in BOOLEAN
    PROVE  /\ FetchReturned(c, r, failed) \in Calls
           /\ FetchReturned(c, r, failed).at \in {"idle", "returned", "again"}
           /\ ~FetchReturned(c, r, failed).hit
<1>1. CASE c \in Fetchers
  BY <1>1, IdleIsCall DEF FetchReturned, Idle
<1>2. CASE c \notin Fetchers
  <2>1. AnyPid \in Pids
    BY PidsAssumption DEF AnyPid
  <2> QED BY <1>2, <2>1, Zenon DEF FetchReturned, Idle, Calls, Steps
<1> QED BY <1>1, <1>2

-----------------------------------------------------------------------------
(* One caller moves: what its step may do to a mark.                        *)

\* Of a mark, with at: the records that hold it.
Keeps(old, new, mark, mark2) == mark2 = mark /\ new.pid = old.pid
Takes(old, new, mark, mark2) == old.pid \notin mark /\ mark2 = mark \cup {old.pid} /\ new.pid = old.pid
Drops(old, mark, mark2) == mark2 = mark \ {old.pid}

FetchMove(old, new) ==
    \/ FetchingAt(old) /\ FetchingAt(new) /\ Keeps(old, new, fetchInProgress, fetchInProgress')
    \/ ~FetchingAt(old) /\ ~FetchingAt(new) /\ fetchInProgress' = fetchInProgress
    \/ ~FetchingAt(old) /\ FetchingAt(new) /\ Takes(old, new, fetchInProgress, fetchInProgress')
    \/ FetchingAt(old) /\ ~FetchingAt(new) /\ Drops(old, fetchInProgress, fetchInProgress')

UploadMove(old, new) ==
    \/ UploadingAt(old) /\ UploadingAt(new) /\ Keeps(old, new, uploadInprogress, uploadInprogress')
    \/ ~UploadingAt(old) /\ ~UploadingAt(new) /\ uploadInprogress' = uploadInprogress
    \/ ~UploadingAt(old) /\ UploadingAt(new) /\ Takes(old, new, uploadInprogress, uploadInprogress')
    \/ UploadingAt(old) /\ ~UploadingAt(new) /\ Drops(old, uploadInprogress, uploadInprogress')

\* A caller that takes a mark nobody holds, drops its own or leaves both alone keeps the callers
\* of InfoManager apart.
LEMMA CallerMoves ==
    ASSUME Marks, NEW c \in Callers, NEW r \in Calls,
           call' = [call EXCEPT ![c] = r],
           Missed(r), FetchMove(call[c], r), UploadMove(call[c], r)
    PROVE  Marks'
<1>1. call' \in [Callers -> Calls] /\ call'[c] = r /\ \A d \in Callers : d # c => call'[d] = call[d]
  BY DEF Marks
<1>2. MissedCache'
  BY <1>1 DEF Marks, MissedCache
<1>3. ASSUME NEW d \in Callers, FetchingAt(call'[d])
      PROVE  /\ call'[d].pid \in fetchInProgress'
             /\ \A e \in Callers : e # d /\ call'[e].pid = call'[d].pid => ~FetchingAt(call'[e])
  <2>1. CASE d = c
    BY <1>1, <1>3, <2>1 DEF Marks, OneAtATime, FetchMove, Keeps, Takes, Drops, Fetching
  <2>2. CASE d # c
    BY <1>1, <1>3, <2>2 DEF Marks, OneAtATime, FetchMove, Keeps, Takes, Drops, Fetching
  <2> QED BY <2>1, <2>2
<1>4. ASSUME NEW d \in Callers, UploadingAt(call'[d])
      PROVE  /\ call'[d].pid \in uploadInprogress'
             /\ \A e \in Callers : e # d /\ call'[e].pid = call'[d].pid => ~UploadingAt(call'[e])
  <2>1. CASE d = c
    BY <1>1, <1>4, <2>1 DEF Marks, OneAtATime, UploadMove, Keeps, Takes, Drops, Uploading
  <2>2. CASE d # c
    BY <1>1, <1>4, <2>2 DEF Marks, OneAtATime, UploadMove, Keeps, Takes, Drops, Uploading
  <2> QED BY <2>1, <2>2
<1>5. OneAtATime'
  BY <1>3, <1>4 DEF OneAtATime, Fetching, Uploading
<1> QED BY <1>1, <1>2, <1>5 DEF Marks

-----------------------------------------------------------------------------
(* The steps of InfoManager.                                               *)

\* A return of Fetch by a caller that holds no mark.
LEMMA UnmarkedReturn ==
    ASSUME Marks, NEW c \in Callers, NEW failed \in BOOLEAN, ReturnFetch(c, failed),
           ~Fetching(c), ~Uploading(c), UNCHANGED <<fetchInProgress, uploadInprogress>>
    PROVE  Marks'
<1> DEFINE r == FetchReturned(c, call[c], failed)
<1>1. call[c] \in Calls
  BY DEF Marks
<1>2. r \in Calls /\ r.at \in {"idle", "returned", "again"} /\ ~r.hit
  BY <1>1, ReturnedIsCall
<1>3. call' = [call EXCEPT ![c] = r]
  BY DEF ReturnFetch
<1> HIDE DEF r
<1>4. Missed(r) /\ ~FetchingAt(r) /\ ~UploadingAt(r)
  BY <1>2 DEF Missed, FetchingAt, UploadingAt
<1> QED BY <1>2, <1>3, <1>4, CallerMoves, Zenon DEF FetchMove, UploadMove, Fetching, Uploading

\* A step of a caller that changes neither mark, nor whether the caller holds one.
LEMMA MoveWithin ==
    ASSUME Marks, NEW c \in Callers, NEW r \in Calls, call' = [call EXCEPT ![c] = r], Missed(r),
           FetchingAt(r) <=> Fetching(c), UploadingAt(r) <=> Uploading(c), r.pid = call[c].pid,
           UNCHANGED <<fetchInProgress, uploadInprogress>>
    PROVE  Marks'
BY CallerMoves, Zenon DEF FetchMove, UploadMove, Keeps, Fetching, Uploading

\* What follows ensureDebuginfoUploaded in Fetch: the return of a cache hit, or the Put.
LEMMA EnsuredIsCall ==
    ASSUME NEW c \in Callers, NEW r \in Calls
    PROVE  /\ Ensured(c, r) \in Calls
           /\ r.hit => Ensured(c, r).at \in {"idle", "returned", "again"} /\ ~Ensured(c, r).hit
           /\ ~r.hit => Ensured(c, r).at = "put" /\ Ensured(c, r).pid = r.pid /\ ~Ensured(c, r).hit
<1>1. CASE r.hit
  BY <1>1, ReturnedIsCall, Zenon DEF Ensured
<1>2. CASE ~r.hit
  BY <1>2 DEF Ensured, Calls, Steps
<1> QED BY <1>1, <1>2

\* Every step of Fetch keeps the marks apart, the two LoadOrStore and the two Delete included.
LEMMA FetchKeepsMarks ==
    ASSUME Marks, InfoTypeOK, NEW c \in Callers, FetchStep(c)
    PROVE  Marks'
<1>0. call[c] \in Calls /\ Missed(call[c]) /\ call[c].pid \in Pids
  BY DEF Marks, MissedCache, Calls
<1>1. CASE FetchLookup(c)
  <2>1. CASE cache[call[c].pid] # Missing
    <3> DEFINE r == [call[c] EXCEPT !.at = "ensure", !.hit = TRUE, !.mappings = cache[call[c].pid]]
    <3>1. call' = [call EXCEPT ![c] = r] /\ UNCHANGED <<fetchInProgress, uploadInprogress>>
      BY <1>1, <2>1, Zenon DEF FetchLookup
    <3>2. r \in Calls /\ r.at = "ensure" /\ r.hit = TRUE /\ r.pid = call[c].pid
      BY <1>0, <2>1, Zenon DEF Calls, Steps, InfoTypeOK
    <3> HIDE DEF r
    <3>3. Missed(r) /\ (FetchingAt(r) <=> Fetching(c)) /\ (UploadingAt(r) <=> Uploading(c))
      BY <1>1, <1>0, <3>2 DEF FetchLookup, Missed, FetchingAt, UploadingAt, Fetching, Uploading
    <3> QED BY <3>1, <3>2, <3>3, MoveWithin, Zenon
  <2>2. CASE cache[call[c].pid] = Missing
    <3> DEFINE r == [call[c] EXCEPT !.at = "mark"]
    <3>1. call' = [call EXCEPT ![c] = r] /\ UNCHANGED <<fetchInProgress, uploadInprogress>>
      BY <1>1, <2>2 DEF FetchLookup, Goto
    <3>2. r \in Calls /\ r.at = "mark" /\ r.hit = call[c].hit /\ r.pid = call[c].pid
      BY <1>0 DEF Calls, Steps
    <3> HIDE DEF r
    <3>3. Missed(r) /\ (FetchingAt(r) <=> Fetching(c)) /\ (UploadingAt(r) <=> Uploading(c))
      BY <1>1, <1>0, <3>2 DEF FetchLookup, Missed, FetchingAt, UploadingAt, Fetching, Uploading
    <3> QED BY <3>1, <3>2, <3>3, MoveWithin, Zenon
  <2> QED BY <2>1, <2>2
<1>2. CASE Mark(c)
  <2>1. CASE call[c].pid \in fetchInProgress
    BY <1>2, <2>1, UnmarkedReturn, Zenon DEF Mark, FetchingAt, UploadingAt, Fetching, Uploading
  <2>2. CASE call[c].pid \notin fetchInProgress
    <3> DEFINE r == [call[c] EXCEPT !.at = "maps"]
    <3>1. call' = [call EXCEPT ![c] = r]
      BY <1>2, <2>2, Zenon DEF Mark, Goto
    <3>2. r \in Calls /\ r.at = "maps" /\ r.hit = call[c].hit /\ r.pid = call[c].pid
      BY <1>0 DEF Calls, Steps
    <3>3. fetchInProgress' = fetchInProgress \cup {call[c].pid} /\ UNCHANGED uploadInprogress
      BY <1>2, <2>2, Zenon DEF Mark
    <3> HIDE DEF r
    <3>4. ~call[c].hit /\ Missed(r) /\ FetchingAt(r) /\ ~FetchingAt(call[c])
      BY <1>0, <1>2, <3>2 DEF Mark, Missed, FetchingAt
    <3>5. ~UploadingAt(r) /\ ~UploadingAt(call[c])
      BY <1>2, <3>2 DEF Mark, UploadingAt
    <3> QED BY <2>2, <3>1, <3>2, <3>3, <3>4, <3>5, CallerMoves, Zenon DEF FetchMove, UploadMove, Takes
  <2> QED BY <2>1, <2>2
<1>3. CASE ReadMaps(c)
  <2>1. CASE call[c].pid \in running
    <3> DEFINE r == [call[c] EXCEPT !.at = "open"]
    <3>1. call' = [call EXCEPT ![c] = r] /\ UNCHANGED <<fetchInProgress, uploadInprogress>>
      BY <1>3, <2>1 DEF ReadMaps, Goto
    <3>2. r \in Calls /\ r.at = "open" /\ r.hit = call[c].hit /\ r.pid = call[c].pid
      BY <1>0 DEF Calls, Steps
    <3> HIDE DEF r
    <3>3. Missed(r) /\ (FetchingAt(r) <=> Fetching(c)) /\ (UploadingAt(r) <=> Uploading(c))
      BY <1>3, <1>0, <3>2 DEF ReadMaps, Missed, FetchingAt, UploadingAt, Fetching, Uploading
    <3> QED BY <3>1, <3>2, <3>3, MoveWithin, Zenon
  <2>2. CASE call[c].pid \notin running
    <3> DEFINE r == [call[c] EXCEPT !.at = "unmark", !.failed = TRUE]
    <3>1. call' = [call EXCEPT ![c] = r] /\ UNCHANGED <<fetchInProgress, uploadInprogress>>
      BY <1>3, <2>2, Zenon DEF ReadMaps
    <3>2. r \in Calls /\ r.at = "unmark" /\ r.hit = call[c].hit /\ r.pid = call[c].pid
      BY <1>0, Zenon DEF Calls, Steps
    <3> HIDE DEF r
    <3>3. Missed(r) /\ (FetchingAt(r) <=> Fetching(c)) /\ (UploadingAt(r) <=> Uploading(c))
      BY <1>3, <1>0, <3>2 DEF ReadMaps, Missed, FetchingAt, UploadingAt, Fetching, Uploading
    <3> QED BY <3>1, <3>2, <3>3, MoveWithin, Zenon
  <2> QED BY <2>1, <2>2
<1>4. CASE OpenFiles(c)
  <2>1. ASSUME NEW found \in SUBSET BuildIDs,
               call' = [call EXCEPT ![c].at = "ensure", ![c].mappings = found]
        PROVE  Marks'
    <3> DEFINE r == [call[c] EXCEPT !.at = "ensure", !.mappings = found]
    <3>1. call' = [call EXCEPT ![c] = r] /\ UNCHANGED <<fetchInProgress, uploadInprogress>>
      BY <1>4, <2>1, Zenon DEF OpenFiles
    <3>2. r \in Calls /\ r.at = "ensure" /\ r.hit = call[c].hit /\ r.pid = call[c].pid
      BY <1>0, Zenon DEF Calls, Steps
    <3> HIDE DEF r
    <3>3. Missed(r) /\ (FetchingAt(r) <=> Fetching(c)) /\ (UploadingAt(r) <=> Uploading(c))
      BY <1>4, <1>0, <3>2 DEF OpenFiles, Missed, FetchingAt, UploadingAt, Fetching, Uploading
    <3> QED BY <3>1, <3>2, <3>3, MoveWithin, Zenon
  <2>2. CASE call' = [call EXCEPT ![c].at = "unmark", ![c].failed = TRUE]
    <3> DEFINE r == [call[c] EXCEPT !.at = "unmark", !.failed = TRUE]
    <3>1. call' = [call EXCEPT ![c] = r] /\ UNCHANGED <<fetchInProgress, uploadInprogress>>
      BY <1>4, <2>2, Zenon DEF OpenFiles
    <3>2. r \in Calls /\ r.at = "unmark" /\ r.hit = call[c].hit /\ r.pid = call[c].pid
      BY <1>0, Zenon DEF Calls, Steps
    <3> HIDE DEF r
    <3>3. Missed(r) /\ (FetchingAt(r) <=> Fetching(c)) /\ (UploadingAt(r) <=> Uploading(c))
      BY <1>4, <1>0, <3>2 DEF OpenFiles, Missed, FetchingAt, UploadingAt, Fetching, Uploading
    <3> QED BY <3>1, <3>2, <3>3, MoveWithin, Zenon
  <2> QED BY <1>0, <1>4, <2>1, <2>2, SymbolizableAssumption DEF OpenFiles
<1>5. CASE Put(c)
  <2> DEFINE r == [call[c] EXCEPT !.at = "labels"]
  <2>1. call' = [call EXCEPT ![c] = r] /\ UNCHANGED <<fetchInProgress, uploadInprogress>>
    BY <1>5 DEF Put, Goto
  <2>2. r \in Calls /\ r.at = "labels" /\ r.hit = call[c].hit /\ r.pid = call[c].pid
    BY <1>0 DEF Calls, Steps
  <2> HIDE DEF r
  <2>3. Missed(r) /\ (FetchingAt(r) <=> Fetching(c)) /\ (UploadingAt(r) <=> Uploading(c))
    BY <1>5, <1>0, <2>2 DEF Put, Missed, FetchingAt, UploadingAt, Fetching, Uploading
  <2> QED BY <2>1, <2>2, <2>3, MoveWithin, Zenon
<1>6. CASE WarmLabels(c)
  <2> DEFINE r == [call[c] EXCEPT !.at = "unmark"]
  <2>1. call' = [call EXCEPT ![c] = r] /\ UNCHANGED <<fetchInProgress, uploadInprogress>>
    BY <1>6 DEF WarmLabels, Goto
  <2>2. r \in Calls /\ r.at = "unmark" /\ r.hit = call[c].hit /\ r.pid = call[c].pid
    BY <1>0 DEF Calls, Steps
  <2> HIDE DEF r
  <2>3. Missed(r) /\ (FetchingAt(r) <=> Fetching(c)) /\ (UploadingAt(r) <=> Uploading(c))
    BY <1>6, <1>0, <2>2 DEF WarmLabels, Missed, FetchingAt, UploadingAt, Fetching, Uploading
  <2> QED BY <2>1, <2>2, <2>3, MoveWithin, Zenon
<1>7. CASE Unmark(c)
  <2> DEFINE r == FetchReturned(c, call[c], call[c].failed)
  <2>1. call' = [call EXCEPT ![c] = r] /\ fetchInProgress' = fetchInProgress \ {call[c].pid}
        /\ UNCHANGED uploadInprogress
    BY <1>7 DEF Unmark, ReturnFetch
  <2>2. r \in Calls /\ r.at \in {"idle", "returned", "again"} /\ ~r.hit
    BY <1>0, ReturnedIsCall DEF Calls
  <2> HIDE DEF r
  <2>3. Missed(r) /\ FetchingAt(call[c]) /\ ~FetchingAt(r)
    BY <1>0, <1>7, <2>2 DEF Unmark, Missed, FetchingAt
  <2>4. ~UploadingAt(r) /\ ~UploadingAt(call[c])
    BY <1>7, <2>2 DEF Unmark, UploadingAt
  <2> QED BY <2>1, <2>2, <2>3, <2>4, CallerMoves, Zenon DEF FetchMove, UploadMove, Drops
<1>8. CASE Ensure(c)
  <2>1. CASE call[c].pid \in uploadInprogress
    <3> DEFINE r == Ensured(c, call[c])
    <3>1. call' = [call EXCEPT ![c] = r] /\ UNCHANGED <<fetchInProgress, uploadInprogress>>
      BY <1>8, <2>1 DEF Ensure
    <3>2. /\ r \in Calls
          /\ call[c].hit => r.at \in {"idle", "returned", "again"} /\ ~r.hit
          /\ ~call[c].hit => r.at = "put" /\ r.pid = call[c].pid /\ ~r.hit
      BY <1>0, EnsuredIsCall
    <3> HIDE DEF r
    <3>3. ~UploadingAt(r) /\ ~UploadingAt(call[c]) /\ Missed(r)
      BY <1>0, <1>8, <3>2 DEF Ensure, UploadingAt, Missed, Calls
    <3>4. FetchMove(call[c], r)
      BY <1>0, <1>8, <3>1, <3>2 DEF Ensure, FetchMove, Keeps, FetchingAt, Calls
    <3> QED BY <3>1, <3>2, <3>3, <3>4, CallerMoves, Zenon DEF UploadMove
  <2>2. CASE call[c].pid \notin uploadInprogress
    <3> DEFINE r == [call[c] EXCEPT !.at = "wait", !.asking = call[c].mappings]
    <3>1. call' = [call EXCEPT ![c] = r] /\ UNCHANGED fetchInProgress
          /\ uploadInprogress' = uploadInprogress \cup {call[c].pid}
      BY <1>8, <2>2, Zenon DEF Ensure
    <3>2. r \in Calls /\ r.at = "wait" /\ r.hit = call[c].hit /\ r.pid = call[c].pid
      BY <1>0, Zenon DEF Calls, Steps
    <3> HIDE DEF r
    <3>3. ~UploadingAt(call[c]) /\ UploadingAt(r) /\ Missed(r)
      BY <1>8, <3>2 DEF Ensure, UploadingAt, Missed
    <3>4. FetchMove(call[c], r)
      BY <1>8, <3>1, <3>2 DEF Ensure, FetchMove, Keeps, FetchingAt
    <3> QED BY <2>2, <3>1, <3>2, <3>3, <3>4, CallerMoves, Zenon DEF UploadMove, Takes
  <2> QED BY <2>1, <2>2
<1>9. CASE WaitGroupDone(c)
  <2> DEFINE r == Ensured(c, call[c])
  <2>1. call' = [call EXCEPT ![c] = r] /\ UNCHANGED fetchInProgress
        /\ uploadInprogress' = uploadInprogress \ {call[c].pid}
    BY <1>9 DEF WaitGroupDone
  <2>2. /\ r \in Calls
        /\ call[c].hit => r.at \in {"idle", "returned", "again"} /\ ~r.hit
        /\ ~call[c].hit => r.at = "put" /\ r.pid = call[c].pid /\ ~r.hit
    BY <1>0, EnsuredIsCall
  <2> HIDE DEF r
  <2>3. ~UploadingAt(r) /\ UploadingAt(call[c]) /\ Missed(r)
    BY <1>0, <1>9, <2>2 DEF WaitGroupDone, UploadingAt, Missed, Calls
  <2>4. FetchMove(call[c], r)
    BY <1>0, <1>9, <2>1, <2>2 DEF WaitGroupDone, FetchMove, Keeps, FetchingAt, Calls
  <2> QED BY <2>1, <2>2, <2>3, <2>4, CallerMoves, Zenon DEF UploadMove, Drops
<1> QED BY <1>1, <1>2, <1>3, <1>4, <1>5, <1>6, <1>7, <1>8, <1>9 DEF FetchStep

\* Neither do the goroutines of ensureDebuginfoUploaded disturb the marks.
LEMMA UploadKeepsMarks ==
    ASSUME Marks, NEW c \in Callers, NEW b \in BuildIDs, UploadStep(c, b)
    PROVE  Marks'
<1>0. call[c] \in Calls /\ Missed(call[c]) /\ UNCHANGED <<fetchInProgress, uploadInprogress>>
  BY DEF Marks, MissedCache, UploadStep, ShouldInitiateUpload, UploadMapping
<1>1. ASSUME NEW a \in SUBSET BuildIDs, NEW u \in SUBSET BuildIDs,
             call' = [call EXCEPT ![c].asking = a, ![c].uploading = u]
      PROVE  Marks'
  <2> DEFINE r == [call[c] EXCEPT !.asking = a, !.uploading = u]
  <2>1. call' = [call EXCEPT ![c] = r]
    BY <1>1, Zenon
  <2>2. r \in Calls /\ r.at = call[c].at /\ r.hit = call[c].hit /\ r.pid = call[c].pid
    BY <1>0, Zenon DEF Calls
  <2> HIDE DEF r
  <2>3. Missed(r) /\ (FetchingAt(r) <=> Fetching(c)) /\ (UploadingAt(r) <=> Uploading(c))
    BY <1>0, <2>2 DEF Missed, FetchingAt, UploadingAt, Fetching, Uploading
  <2> QED BY <1>0, <2>1, <2>2, <2>3, MoveWithin, Zenon
<1>2. CASE ShouldInitiateUpload(c, b)
  <2>1. PICK more \in {{}, {b}} :
            call' = [call EXCEPT ![c].asking = @ \ {b}, ![c].uploading = @ \cup more]
    BY <1>2, Zenon DEF ShouldInitiateUpload
  <2>2. call[c].asking \ {b} \in SUBSET BuildIDs /\ call[c].uploading \cup more \in SUBSET BuildIDs
    BY <1>0 DEF Calls
  <2> QED BY <1>1, <2>1, <2>2, Zenon
<1>3. CASE UploadMapping(c, b)
  <2> DEFINE r == [call[c] EXCEPT !.uploading = @ \ {b}]
  <2>1. call' = [call EXCEPT ![c] = r]
    BY <1>3 DEF UploadMapping
  <2>2. r \in Calls /\ r.at = call[c].at /\ r.hit = call[c].hit /\ r.pid = call[c].pid
    BY <1>0 DEF Calls
  <2> HIDE DEF r
  <2>3. Missed(r) /\ (FetchingAt(r) <=> Fetching(c)) /\ (UploadingAt(r) <=> Uploading(c))
    BY <1>0, <2>2 DEF Missed, FetchingAt, UploadingAt, Fetching, Uploading
  <2> QED BY <1>0, <2>1, <2>2, <2>3, MoveWithin, Zenon
<1> QED BY <1>2, <1>3 DEF UploadStep

\* Where a caller is inside neither mark.
Outside == {"idle", "lookup", "fetch", "again", "returned", "written", "dropped", "error"}

\* A step outside the marks.
LEMMA MoveOutside ==
    ASSUME Marks, NEW c \in Callers, NEW r \in Calls, call' = [call EXCEPT ![c] = r],
           call[c].at \in Outside, r.at \in Outside, ~r.hit,
           UNCHANGED <<fetchInProgress, uploadInprogress>>
    PROVE  Marks'
<1>1. Missed(r) /\ ~FetchingAt(r) /\ ~UploadingAt(r) /\ ~FetchingAt(call[c]) /\ ~UploadingAt(call[c])
  BY DEF Missed, FetchingAt, UploadingAt, Outside
<1> QED BY <1>1, CallerMoves, Zenon DEF FetchMove, UploadMove

\* A goroutine or Info starts with a process, Info returns, and the loop goes on, outside the marks.
LEMMA CallsKeepMarks ==
    ASSUME Marks, InfoTypeOK, UNCHANGED <<fetchInProgress, uploadInprogress>>,
           \/ \E c \in Fetchers, p \in Pids : StartFetch(c, p)
           \/ \E p \in Pids : StartInfo(p)
           \/ InfoStep
           \/ call[Loop].at \in Outside /\ \E s \in Outside : Goto(Loop, s)
           \/ call[Loop].at \in Outside /\ call' = [call EXCEPT ![Loop] = Idle]
    PROVE  Marks'
<1>0. Loop \in Callers /\ call[Loop] \in Calls /\ Missed(call[Loop]) /\ call[Loop].pid \in Pids
  BY DEF Marks, MissedCache, Callers, Calls
<1>i. /\ Idle \in Calls /\ Idle.at = "idle" /\ ~Idle.hit
  BY IdleIsCall DEF Idle
<1>e. ASSUME NEW p \in Pids, NEW s \in Steps, NEW f \in BOOLEAN
      PROVE  LET r == [Idle EXCEPT !.at = s, !.pid = p, !.failed = f]
             IN  r \in Calls /\ r.at = s /\ ~r.hit
  BY IdleIsCall, Zenon DEF Idle, Calls
<1>s. ASSUME NEW p \in Pids, NEW s \in Steps
      PROVE  LET r == [Idle EXCEPT !.at = s, !.pid = p]
             IN  r \in Calls /\ r.at = s /\ ~r.hit
  BY IdleIsCall, Zenon DEF Idle, Calls
<1>r. ASSUME NEW f \in BOOLEAN
      PROVE  LET r == InfoReturned(call[Loop].pid, f)
             IN  r \in Calls /\ r.at \in Outside /\ ~r.hit
  <2>1. "returned" \in Steps /\ "returned" \in Outside
    BY DEF Steps, Outside
  <2> QED BY <1>0, <1>e, <2>1, ZenonT(60) DEF InfoReturned
<1>1. ASSUME NEW c \in Fetchers, NEW p \in Pids, StartFetch(c, p)
      PROVE  Marks'
  <2> DEFINE r == [Idle EXCEPT !.at = "fetch", !.pid = p]
  <2>1. call' = [call EXCEPT ![c] = r] /\ call[c].at \in Outside /\ c \in Callers
    BY <1>1, Zenon DEF StartFetch, Outside, Callers
  <2>2. r \in Calls /\ r.at \in Outside /\ ~r.hit
    <3>1. "fetch" \in Steps /\ "fetch" \in Outside
      BY DEF Steps, Outside
    <3> QED BY <1>s, <3>1, Zenon
  <2> HIDE DEF r
  <2> QED BY <2>1, <2>2, MoveOutside, Zenon
<1>2. ASSUME NEW p \in Pids, StartInfo(p)
      PROVE  Marks'
  <2> DEFINE r == [Idle EXCEPT !.at = "lookup", !.pid = p]
  <2>1. call' = [call EXCEPT ![Loop] = r] /\ call[Loop].at \in Outside
    BY <1>2, Zenon DEF StartInfo, Outside
  <2>2. r \in Calls /\ r.at \in Outside /\ ~r.hit
    <3>1. "lookup" \in Steps /\ "lookup" \in Outside
      BY DEF Steps, Outside
    <3> QED BY <1>s, <3>1, Zenon
  <2> HIDE DEF r
  <2> QED BY <1>0, <2>1, <2>2, MoveOutside, Zenon
<1>3. CASE InfoLookup /\ cache[call[Loop].pid] # Missing
  <2> DEFINE r == InfoReturned(call[Loop].pid, FALSE)
  <2>1. call' = [call EXCEPT ![Loop] = r] /\ call[Loop].at \in Outside
    BY <1>0, <1>3 DEF InfoLookup, Outside
  <2>2. r \in Calls /\ r.at \in Outside /\ ~r.hit
    BY <1>r, Zenon
  <2> HIDE DEF r
  <2> QED BY <1>0, <2>1, <2>2, MoveOutside, Zenon
<1>4. CASE InfoLookup /\ cache[call[Loop].pid] = Missing
  <2> DEFINE r == [call[Loop] EXCEPT !.at = "fetch"]
  <2>1. call' = [call EXCEPT ![Loop] = r] /\ call[Loop].at = "lookup"
    BY <1>0, <1>4 DEF InfoLookup
  <2>2. r \in Calls /\ r.at = "fetch" /\ r.hit = call[Loop].hit
    BY <1>0 DEF Calls, Steps
  <2> HIDE DEF r
  <2>3. ~r.hit
    BY <1>0, <2>1, <2>2 DEF Missed
  <2> QED BY <1>0, <2>1, <2>2, <2>3, MoveOutside, Zenon DEF Outside
<1>5. CASE InfoLookupAgain
  <2> DEFINE f == cache[call[Loop].pid] = Missing
             r == InfoReturned(call[Loop].pid, f)
  <2>1. call' = [call EXCEPT ![Loop] = r] /\ call[Loop].at \in Outside
    BY <1>0, <1>5 DEF InfoLookupAgain, Outside
  <2>2. r \in Calls /\ r.at \in Outside /\ ~r.hit
    <3>1. CASE f
      BY <1>r, <3>1, Zenon
    <3>2. CASE ~f
      BY <1>r, <3>2, Zenon
    <3> QED BY <3>1, <3>2
  <2> HIDE DEF r
  <2> QED BY <1>0, <2>1, <2>2, MoveOutside, Zenon
<1>6. CASE call[Loop].at \in Outside /\ call' = [call EXCEPT ![Loop] = Idle]
  BY <1>0, <1>i, <1>6, MoveOutside, Zenon DEF Outside
<1>7. ASSUME NEW s \in Outside, call[Loop].at \in Outside, Goto(Loop, s)
      PROVE  Marks'
  <2> DEFINE r == [call[Loop] EXCEPT !.at = s]
  <2>1. call' = [call EXCEPT ![Loop] = r]
    BY <1>0, <1>7 DEF Goto, Marks
  <2>2. r \in Calls /\ r.at = s /\ r.hit = call[Loop].hit
    BY <1>0 DEF Calls, Steps, Outside
  <2> HIDE DEF r
  <2>3. ~r.hit
    BY <1>0, <1>7, <2>2 DEF Missed, Outside
  <2> QED BY <1>0, <1>7, <2>1, <2>2, <2>3, MoveOutside, Zenon
<1> QED BY <1>1, <1>2, <1>3, <1>4, <1>5, <1>6, <1>7 DEF InfoStep

-----------------------------------------------------------------------------
(* The whole loop.                                                         *)

\* The inductive invariant.  The marks need MissedCache: a caller back from its uploads drops
\* or keeps its mark by whether it found the process in the cache.  The types need RestIsAdded:
\* Persist empties the batch, of which rest is a part.
IInv == TypeOK /\ MissedCache /\ OneAtATime /\ RestIsAdded

\* What TypeOK says of the marks and the callers follows from Marks; this is the rest of it.
InfoTypes ==
    /\ cache \in [Pids -> (SUBSET BuildIDs) \cup {Missing}]
    /\ fetchInProgress \subseteq Pids
    /\ uploadInprogress \subseteq Pids
    /\ running \subseteq Pids

LoopTypes ==
    /\ mode \in Modes
    /\ events \in Seq(Kinds \X Pids) /\ Len(events) <= MaxEvents
    /\ lost \in BOOLEAN
    /\ listener \in {Waiting} \cup [at : {"send", "refresh"}, pid : Pids]
    /\ rows \in [Pids -> {"none", "inflight", "persisted"}]
    /\ sampled \subseteq Pids /\ round \subseteq Pids

BatchTypes ==
    /\ batcher \in {"select", "adding", "persist"}
    /\ rest \subseteq batch /\ batch \subseteq Pids
    /\ timerOn = (batch # {})
    /\ owed \subseteq Pids
    /\ RestIsAdded

\* The parts make up the invariant.
LEMMA Parts == IInv <=> Marks /\ InfoTypes /\ LoopTypes /\ BatchTypes
BY DEF IInv, Marks, InfoTypes, LoopTypes, BatchTypes, TypeOK, InfoTypeOK

\* And so after a step.
LEMMA PartsAfter == IInv' <=> Marks' /\ InfoTypes' /\ LoopTypes' /\ BatchTypes'
BY DEF IInv, Marks, InfoTypes, LoopTypes, BatchTypes, TypeOK, InfoTypeOK

\* The steps of Fetch and of its goroutines keep the cache, and the marks typed.
LEMMA FetchKeepsTypes ==
    ASSUME Marks, InfoTypes, NEW c \in Callers, FetchStep(c)
    PROVE  InfoTypes'
<1>0. call[c].pid \in Pids /\ call[c].mappings \in SUBSET BuildIDs
  BY DEF Marks, Calls
<1>1. CASE FetchLookup(c) \/ ReadMaps(c) \/ WarmLabels(c)
  BY <1>1 DEF FetchLookup, ReadMaps, WarmLabels, InfoTypes
<1>2. CASE Mark(c)
  BY <1>0, <1>2, Zenon DEF Mark, InfoTypes
<1>3. CASE OpenFiles(c)
  BY <1>3, Zenon DEF OpenFiles, InfoTypes
<1>4. CASE Put(c)
  BY <1>0, <1>4 DEF Put, InfoTypes
<1>5. CASE Unmark(c)
  BY <1>5 DEF Unmark, InfoTypes
<1>6. CASE Ensure(c)
  BY <1>0, <1>6 DEF Ensure, InfoTypes
<1>7. CASE WaitGroupDone(c)
  BY <1>7 DEF WaitGroupDone, InfoTypes
<1> QED BY <1>1, <1>2, <1>3, <1>4, <1>5, <1>6, <1>7 DEF FetchStep

\* Steps that leave InfoManager alone.
LEMMA InfoUnchanged ==
    ASSUME Marks, InfoTypes, UNCHANGED info_vars
    PROVE  Marks' /\ InfoTypes'
<1>1. InfoTypes'
  BY DEF InfoTypes, info_vars
<1>2. Marks'
  BY DEF Marks, MissedCache, Missed, OneAtATime, Fetching, Uploading, info_vars
<1> QED BY <1>1, <1>2

\* A request the buffer takes, or loses, is one for a process.
LEMMA RequestKeepsTypes ==
    ASSUME LoopTypes, NEW k \in Kinds, NEW p \in Pids, Request(k, p)
    PROVE  events' \in Seq(Kinds \X Pids) /\ Len(events') <= MaxEvents /\ lost' \in BOOLEAN
<1>1. CASE k \in mode.kinds /\ Len(events) < MaxEvents
  <2>1. <<k, p>> \in Kinds \X Pids
    OBVIOUS
  <2>2. events' = Append(events, <<k, p>>) /\ lost' = lost
    BY <1>1, CapacityAssumption DEF Request, LoopTypes
  <2> QED BY <1>1, <2>1, <2>2, CapacityAssumption DEF LoopTypes
<1>2. CASE ~(k \in mode.kinds /\ Len(events) < MaxEvents)
  BY <1>2, Zenon DEF Request, LoopTypes
<1> QED BY <1>1, <1>2

\* listenEvents takes a request for a process from the buffer.
LEMMA TakeKeepsTypes ==
    ASSUME LoopTypes, NEW k, Take(k)
    PROVE  /\ events' \in Seq(Kinds \X Pids) /\ Len(events') <= MaxEvents
           /\ Head(events)[2] \in Pids
<1>1. events \in Seq(Kinds \X Pids) /\ events # <<>> /\ events' = Tail(events)
  BY DEF LoopTypes, Take
<1>2. Head(events) \in Kinds \X Pids /\ Tail(events) \in Seq(Kinds \X Pids) /\ Len(Tail(events)) <= Len(events)
  BY <1>1
<1> QED BY <1>1, <1>2, CapacityAssumption DEF LoopTypes

\* What addUnwindTableForProcess leaves of the rows.
LEMMA AddedIsRows ==
    ASSUME LoopTypes, NEW p \in Pids
    PROVE  Added(p) \subseteq [Pids -> {"none", "inflight", "persisted"}]
BY DEF Added, LoopTypes

-----------------------------------------------------------------------------
(* The theorems.                                                           *)

\* Init establishes the invariant.
LEMMA InitIInv == Init => IInv
<1> SUFFICES ASSUME Init PROVE IInv
  OBVIOUS
<1>1. InfoTypes
  BY DEF Init, InfoInit, InfoTypes
<1>2. LoopTypes
  <2>1. events \in Seq(Kinds \X Pids) /\ Len(events) <= MaxEvents
    BY CapacityAssumption DEF Init
  <2>2. listener \in {Waiting} /\ rows \in [Pids -> {"none", "inflight", "persisted"}]
    BY DEF Init
  <2> QED BY <2>1, <2>2, Zenon DEF Init, LoopTypes
<1>3. BatchTypes
  BY Zenon DEF Init, BatchTypes, RestIsAdded
<1>4. call \in [Callers -> Calls] /\ \A c \in Callers : call[c] = Idle
  BY IdleIsCall DEF Init, InfoInit
<1>5. ~Idle.hit /\ Idle.at = "idle"
  BY DEF Idle
<1>6. Marks
  BY <1>4, <1>5 DEF Marks, MissedCache, Missed, OneAtATime, Fetching, Uploading, FetchingAt, UploadingAt
<1> QED BY <1>1, <1>2, <1>3, <1>6, Parts

\* Every step keeps it.
LEMMA NextIInv == IInv /\ [Next]_vars => IInv'
<1> SUFFICES ASSUME IInv, [Next]_vars PROVE IInv'
  OBVIOUS
<1>0. Marks /\ InfoTypes /\ LoopTypes /\ BatchTypes /\ InfoTypeOK
  BY Parts DEF IInv, TypeOK
<1>m. \A p \in mode.pids : p \in Pids
  BY <1>0, ModesAssumption DEF LoopTypes
<1>1. ASSUME NEW p \in mode.pids, SampleProcess(p) PROVE IInv'
  <2>1. PICK k \in Kinds : Request(k, p)
    BY <1>1 DEF SampleProcess, Kinds
  <2>2. events' \in Seq(Kinds \X Pids) /\ Len(events') <= MaxEvents /\ lost' \in BOOLEAN
    BY <1>0, <1>m, <2>1, RequestKeepsTypes
  <2>3. LoopTypes'
    BY <1>0, <1>1, <1>m, <2>2 DEF SampleProcess, LoopTypes
  <2>4. BatchTypes'
    BY <1>0, <1>1 DEF SampleProcess, BatchTypes, RestIsAdded, batch_vars
  <2> QED BY <1>0, <1>1, <2>3, <2>4, InfoUnchanged, PartsAfter DEF SampleProcess
<1>2. CASE TakeUnwind \/ TakeRefresh
  <2>1. /\ events' \in Seq(Kinds \X Pids) /\ Len(events') <= MaxEvents
        /\ listener' \in [at : {"send", "refresh"}, pid : Pids]
    BY <1>0, <1>2, TakeKeepsTypes DEF TakeUnwind, TakeRefresh
  <2>2. LoopTypes'
    BY <1>0, <1>2, <2>1 DEF TakeUnwind, TakeRefresh, LoopTypes, loop_vars
  <2>3. BatchTypes'
    BY <1>0, <1>2 DEF TakeUnwind, TakeRefresh, BatchTypes, RestIsAdded, batch_vars
  <2> QED BY <1>0, <1>2, <2>2, <2>3, InfoUnchanged, PartsAfter DEF TakeUnwind, TakeRefresh
<1>3. CASE TakeMappings
  <2>1. events' \in Seq(Kinds \X Pids) /\ Len(events') <= MaxEvents /\ Head(events)[2] \in Pids
    BY <1>0, <1>3, TakeKeepsTypes DEF TakeMappings
  <2>2. LoopTypes'
    BY <1>0, <1>3, <2>1 DEF TakeMappings, LoopTypes, loop_vars
  <2>3. BatchTypes'
    BY <1>0, <1>3 DEF TakeMappings, BatchTypes, RestIsAdded, batch_vars
  <2>4. Marks'
    BY <1>0, <1>3, <2>1, CallsKeepMarks DEF TakeMappings
  <2>5. InfoTypes'
    BY <1>0, <1>3 DEF TakeMappings, InfoTypes
  <2> QED BY <2>2, <2>3, <2>4, <2>5, PartsAfter
<1>4. CASE TakeLost
  <2>1. LoopTypes' /\ BatchTypes'
    BY <1>0, <1>4, Zenon DEF TakeLost, LoopTypes, BatchTypes, RestIsAdded, loop_vars, batch_vars
  <2> QED BY <1>0, <1>4, <2>1, InfoUnchanged, PartsAfter DEF TakeLost
<1>5. CASE Refresh
  <2>1. listener.pid \in Pids
    BY <1>0, <1>5 DEF Refresh, LoopTypes, Waiting
  <2>2. rows' \in [Pids -> {"none", "inflight", "persisted"}]
    BY <1>0, <1>5, <2>1, AddedIsRows DEF Refresh, LoopTypes
  <2>3. LoopTypes'
    BY <1>0, <1>5, <2>2 DEF Refresh, LoopTypes, loop_vars
  <2>4. BatchTypes'
    BY <1>0, <1>5 DEF Refresh, BatchTypes, RestIsAdded, batch_vars
  <2> QED BY <1>0, <1>5, <2>3, <2>4, InfoUnchanged, PartsAfter DEF Refresh
<1>6. CASE Handover
  <2>1. listener.pid \in Pids
    BY <1>0, <1>6 DEF Handover, LoopTypes, Waiting
  <2>2. LoopTypes'
    BY <1>0, <1>6 DEF Handover, LoopTypes, loop_vars
  <2>3. timerOn' = TRUE /\ batch' # {}
    BY <1>6 DEF Handover
  <2>4. timerOn' = (batch' # {})
    BY <2>3, Zenon
  <2>5. BatchTypes'
    BY <1>0, <1>6, <2>1, <2>4 DEF Handover, BatchTypes, RestIsAdded
  <2> QED BY <1>0, <1>6, <2>2, <2>5, InfoUnchanged, PartsAfter DEF Handover
<1>7. CASE TimerFires
  <2>1. LoopTypes' /\ BatchTypes'
    BY <1>0, <1>7, Zenon DEF TimerFires, LoopTypes, BatchTypes, RestIsAdded, loop_vars
  <2> QED BY <1>0, <1>7, <2>1, InfoUnchanged, PartsAfter DEF TimerFires
<1>8. ASSUME NEW p \in Pids, AddUnwindTable(p) PROVE IInv'
  <2>1. rows' \in [Pids -> {"none", "inflight", "persisted"}]
    BY <1>0, <1>8, AddedIsRows DEF AddUnwindTable, LoopTypes
  <2>2. LoopTypes'
    BY <1>0, <1>8, <2>1 DEF AddUnwindTable, LoopTypes, loop_vars
  <2>3. BatchTypes'
    BY <1>0, <1>8 DEF AddUnwindTable, BatchTypes, RestIsAdded
  <2> QED BY <1>0, <1>8, <2>2, <2>3, InfoUnchanged, PartsAfter DEF AddUnwindTable
<1>9. CASE AddingDone
  <2>1. LoopTypes' /\ BatchTypes'
    BY <1>0, <1>9 DEF AddingDone, LoopTypes, BatchTypes, RestIsAdded, loop_vars
  <2> QED BY <1>0, <1>9, <2>1, InfoUnchanged, PartsAfter DEF AddingDone
<1>10. CASE Persist
  <2>1. rows' \in [Pids -> {"none", "inflight", "persisted"}]
    BY <1>0, <1>10 DEF Persist, LoopTypes
  <2>2. LoopTypes'
    BY <1>0, <1>10, <2>1 DEF Persist, LoopTypes, loop_vars
  <2>3. BatchTypes'
    BY <1>0, <1>10, Zenon DEF Persist, BatchTypes, RestIsAdded
  <2> QED BY <1>0, <1>10, <2>2, <2>3, InfoUnchanged, PartsAfter DEF Persist
<1>11. CASE Tick
  <2>1. LoopTypes' /\ BatchTypes'
    BY <1>0, <1>11 DEF Tick, LoopTypes, BatchTypes, RestIsAdded, batch_vars
  <2> QED BY <1>0, <1>11, <2>1, InfoUnchanged, PartsAfter DEF Tick
<1>12. CASE AskInfo \/ WriteProfile \/ NextProcess
  <2>1. LoopTypes' /\ BatchTypes'
    BY <1>0, <1>12 DEF AskInfo, WriteProfile, NextProcess, LoopTypes, BatchTypes, RestIsAdded, batch_vars, loop_vars
  <2>2. Marks'
    <3>1. CASE AskInfo
      BY <1>0, <3>1, CallsKeepMarks DEF AskInfo, LoopTypes
    <3>2. CASE WriteProfile
      <4>1. \A s \in {"written", "dropped", "error"} : s \in Outside
        BY DEF Outside
      <4>2. call[Loop].at \in Outside /\ \E s \in Outside : Goto(Loop, s)
        BY <3>2, <4>1, Zenon DEF WriteProfile, Outside
      <4> QED BY <1>0, <3>2, <4>2, CallsKeepMarks, Zenon DEF WriteProfile
    <3>3. CASE NextProcess
      <4>1. call[Loop].at \in Outside /\ call' = [call EXCEPT ![Loop] = Idle]
        BY <3>3 DEF NextProcess, Outside
      <4> QED BY <1>0, <3>3, <4>1, CallsKeepMarks, Zenon DEF NextProcess
    <3> QED BY <1>12, <3>1, <3>2, <3>3
  <2>3. InfoTypes'
    BY <1>0, <1>12 DEF AskInfo, WriteProfile, NextProcess, InfoTypes
  <2> QED BY <2>1, <2>2, <2>3, PartsAfter
<1>o. Others => LoopTypes' /\ BatchTypes'
  BY <1>0 DEF Others, LoopTypes, BatchTypes, RestIsAdded, batch_vars, loop_vars
<1>13. ASSUME NEW c \in Callers, Fetch(c) PROVE IInv'
  BY <1>0, <1>13, <1>o, FetchKeepsMarks, FetchKeepsTypes, PartsAfter DEF Fetch
<1>14. ASSUME NEW c \in Callers, NEW b \in BuildIDs, Upload(c, b) PROVE IInv'
  <2>1. InfoTypes'
    BY <1>0, <1>14 DEF Upload, UploadStep, ShouldInitiateUpload, UploadMapping, InfoTypes
  <2> QED BY <1>0, <1>14, <1>o, <2>1, UploadKeepsMarks, PartsAfter DEF Upload
<1>15. CASE Info
  <2>1. InfoTypes' /\ UNCHANGED <<fetchInProgress, uploadInprogress>>
    BY <1>0, <1>15, Zenon DEF Info, InfoStep, InfoLookup, InfoLookupAgain, InfoTypes
  <2>2. Marks'
    BY <1>0, <1>15, <2>1, CallsKeepMarks DEF Info
  <2> QED BY <1>15, <1>o, <2>1, <2>2, PartsAfter DEF Info
<1>16. ASSUME NEW p \in mode.pids, Forget(p) PROVE IInv'
  <2>1. InfoTypes' /\ UNCHANGED <<call, fetchInProgress, uploadInprogress>>
    BY <1>0, <1>16, <1>m DEF Forget, EndProcess, Expire, InfoTypes
  <2>2. Marks'
    BY <1>0, <2>1 DEF Marks, MissedCache, Missed, OneAtATime, Fetching, Uploading
  <2> QED BY <1>16, <1>o, <2>1, <2>2, PartsAfter DEF Forget
<1>17. CASE UNCHANGED vars
  <2>1. LoopTypes' /\ BatchTypes' /\ UNCHANGED info_vars
    BY <1>0, <1>17 DEF vars, LoopTypes, BatchTypes, RestIsAdded, batch_vars, loop_vars
  <2> QED BY <1>0, <2>1, InfoUnchanged, PartsAfter
<1> QED
  BY <1>1, <1>2, <1>3, <1>4, <1>5, <1>6, <1>7, <1>8, <1>9, <1>10, <1>11, <1>12, <1>13, <1>14,
     <1>15, <1>16, <1>17 DEF Next, Listen, Callback, Profile

\* The states of listenEvents, the batcher, the loop and InfoManager are of their types: among
\* them that the batcher's timer runs exactly while PIDs wait, for any stream of requests.
THEOREM TypeCorrect == Spec => []TypeOK
<1>1. IInv => TypeOK
  BY DEF IInv
<1> QED BY InitIInv, NextIInv, <1>1, PTL DEF Spec

\* However many goroutines the requests start, LoadOrStore and the deferred Delete of
\* fetchInProgress and uploadInprogress keep the fetches, and the uploads, of one process apart.
THEOREM FetchesAndUploadsAreApart == Spec => []OneAtATime
<1>1. IInv => OneAtATime
  BY DEF IInv
<1> QED BY InitIInv, NextIInv, <1>1, PTL DEF Spec

-----------------------------------------------------------------------------
(* ObjectFilePool: the mutex and the descriptors of object files. *)

Ats == {"idle", "new", "have", "read", "readTwice"}
States == {"open", "closing", "released", "closed"}
UserState == [at : Ats, path : Paths \cup {CHOOSE p \in Paths : TRUE}, file : Nat,
              original : BOOLEAN, began : States \cup {"none"}]
FileState == [build : Builds, state : States, readers : Nat]

Types ==
    /\ cached \in [Builds -> 0..Len(files)]
    /\ files \in Seq(FileState)
    /\ user \in [Users -> UserState]

\* A user that has no object file opens one of the paths, or is idle; the others have a
\* file that was opened.
UserInv ==
    \A u \in Users :
      IF user[u].at \in {"idle", "new"}
      THEN user[u].file = 0 /\ (user[u].at = "new" => user[u].path \in Paths)
      ELSE user[u].file \in DOMAIN files

Twice(n) == {u \in Reading(n) : user[u].at = "readTwice"}

\* The mutex of a file counts its readers, those that read twice twice.
CountInv ==
    \A n \in DOMAIN files : files[n].readers = Cardinality(Reading(n)) + Cardinality(Twice(n))

\* A read that began on an open file keeps the finalizer in close, at the mutex: it has
\* not come to the step that closes the descriptor without it.
SoundInv ==
    \A n \in DOMAIN files : \A u \in Reading(n) : user[u].began = "open" => files[n].state \in {"open", "closing"}

PoolInv == Types /\ UserInv /\ CountInv /\ SoundInv

-----------------------------------------------------------------------------
(* What the steps do to users and files. *)

\* A sequence with one more element.
LEMMA AppendedFile ==
    ASSUME NEW S, NEW s \in Seq(S), NEW f \in S
    PROVE  /\ Append(s, f) \in Seq(S) /\ Len(Append(s, f)) = Len(s) + 1
           /\ DOMAIN Append(s, f) = DOMAIN s \cup {Len(s) + 1} /\ Len(s) + 1 \notin DOMAIN s
           /\ Append(s, f)[Len(s) + 1] = f /\ \A m \in DOMAIN s : Append(s, f)[m] = s[m]
  OBVIOUS

\* The sequence that has no element.
LEMMA NoFiles == ASSUME NEW S PROVE <<>> \in Seq(S) /\ Len(<<>>) = 0 /\ DOMAIN <<>> = {}
  OBVIOUS

\* The readers of a file are finitely many.
LEMMA ReadersFinite ==
    ASSUME NEW n
    PROVE  /\ IsFiniteSet(Reading(n)) /\ IsFiniteSet(Twice(n))
           /\ Cardinality(Reading(n)) \in Nat /\ Cardinality(Twice(n)) \in Nat
  <1>1. Reading(n) \subseteq Users /\ Twice(n) \subseteq Users
    BY DEF Reading, Twice
  <1> QED
    BY <1>1, PoolAssumption, FS_Subset, FS_CardinalityType

\* One user changes, and the others do not.
Changed(u, at, file) ==
    /\ user' \in [Users -> UserState]
    /\ \A x \in Users : x # u => user'[x] = user[x]
    /\ user'[u].at = at /\ user'[u].file = file

\* A user gets an object file.
LEMMA HoldingEffect ==
    ASSUME Types, NEW u \in Users, NEW n \in Nat, NEW o \in BOOLEAN, Holding(u, n, o)
    PROVE  Changed(u, "have", n) /\ user'[u].began = "none" /\ user'[u].original = o
  BY Zenon DEF Types, Holding, NoUse, Changed, UserState, Ats

\* A user drops its object file.
LEMMA DropEffect ==
    ASSUME Types, NEW u \in Users, user' = [user EXCEPT ![u] = NoUse]
    PROVE  Changed(u, "idle", 0) /\ user'[u].original = FALSE
  BY DEF Types, NoUse, Changed, UserState, Ats

\* A user goes on to open a path.
LEMMA NewEffect ==
    ASSUME Types, NEW u \in Users, NEW p \in Paths,
           user' = [user EXCEPT ![u] = [NoUse EXCEPT !.at = "new", !.path = p]]
    PROVE  Changed(u, "new", 0) /\ user'[u].path = p /\ user'[u].original = FALSE
  BY Zenon DEF Types, NoUse, Changed, UserState, Ats

\* A user begins or ends to read.
LEMMA ReadEffect ==
    ASSUME Types, NEW u \in Users, NEW a \in Ats, NEW s \in States \cup {"none"},
           user' = [user EXCEPT ![u].at = a, ![u].began = s]
    PROVE  /\ Changed(u, a, user[u].file)
           /\ user'[u].began = s /\ user'[u].original = user[u].original
  BY ZenonT(60) DEF Types, Changed, UserState

\* A user reads a second time.
LEMMA ReadTwiceEffect ==
    ASSUME Types, NEW u \in Users, NEW a \in Ats, user' = [user EXCEPT ![u].at = a]
    PROVE  /\ Changed(u, a, user[u].file)
           /\ user'[u].began = user[u].began /\ user'[u].original = user[u].original
  BY Zenon DEF Types, Changed, UserState

\* A list of files with another state of one of them.
LEMMA ReplacedFile ==
    ASSUME NEW S, NEW s \in Seq(S), NEW n \in 1..Len(s), NEW r \in S, NEW d, d = [s EXCEPT ![n] = r]
    PROVE  /\ d \in Seq(S) /\ Len(d) = Len(s) /\ DOMAIN d = DOMAIN s
           /\ \A m \in 1..Len(s) : d[m] = IF m = n THEN r ELSE s[m]
  <1>1. DOMAIN s = 1..Len(s) /\ Len(s) \in Nat
    OBVIOUS
  <1>2. d \in [1..Len(s) -> S]
    BY <1>1
  <1>3. d \in Seq(S) /\ Len(d) = Len(s)
    BY <1>1, <1>2
  <1> QED
    BY <1>1, <1>3

\* The files other than n are as before.
FilesKept(n) ==
    /\ files' \in Seq(FileState) /\ Len(files') = Len(files) /\ DOMAIN files' = DOMAIN files
    /\ \A m \in DOMAIN files : m # n => files'[m] = files[m]

\* The mutex of a file gets other readers.
LEMMA ReadersEffect ==
    ASSUME Types, NEW n \in DOMAIN files, NEW k \in Nat, files' = [files EXCEPT ![n].readers = k]
    PROVE  FilesKept(n) /\ files'[n].readers = k /\ files'[n].state = files[n].state
  <1>0. files \in Seq(FileState) /\ n \in 1..Len(files) /\ files[n] \in FileState
    BY DEF Types
  <1>1. PICK r : r = [files[n] EXCEPT !.readers = k]
    OBVIOUS
  <1>2. r \in FileState /\ r.readers = k /\ r.state = files[n].state
    BY <1>0, <1>1, Zenon DEF FileState
  <1>3. files' = [files EXCEPT ![n] = r]
    BY <1>1 DEF Types
  <1>4. FilesKept(n)
    BY <1>0, <1>2, <1>3, ReplacedFile DEF FilesKept
  <1> QED
    BY <1>2, <1>3, <1>4, Zenon DEF Types

\* A file changes its state.
LEMMA StateEffect ==
    ASSUME Types, NEW n \in DOMAIN files, NEW s \in States,
           files' = [files EXCEPT ![n].state = s]
    PROVE  FilesKept(n) /\ files'[n].readers = files[n].readers /\ files'[n].state = s
  <1>0. files \in Seq(FileState) /\ n \in 1..Len(files) /\ files[n] \in FileState
    BY DEF Types
  <1>1. PICK r : r = [files[n] EXCEPT !.state = s]
    OBVIOUS
  <1>2. r \in FileState /\ r.state = s /\ r.readers = files[n].readers
    BY <1>0, <1>1 DEF FileState
  <1>3. files' = [files EXCEPT ![n] = r]
    BY <1>1 DEF Types
  <1>4. FilesKept(n)
    BY <1>0, <1>2, <1>3, ReplacedFile DEF FilesKept
  <1> QED
    BY <1>2, <1>3, <1>4, Zenon DEF Types

-----------------------------------------------------------------------------
(* The steps. *)

NotReading == {"idle", "new", "have"}

\* A user that neither reads nor begins to: the readers of all files are as before.
LEMMA SameReaders ==
    ASSUME NEW u \in Users, NEW a \in NotReading, NEW f, Changed(u, a, f), user[u].at \in NotReading, NEW n
    PROVE  Reading(n)' = Reading(n) /\ Twice(n)' = Twice(n)
  <1>1. \A x \in Users : x \in Reading(n)' <=> x \in Reading(n)
    BY DEF Changed, NotReading, Reading
  <1>2. Reading(n)' = Reading(n)
    BY <1>1 DEF Reading
  <1>3. \A x \in Reading(n) : user'[x].at = user[x].at
    BY <1>2 DEF Reading, Changed, NotReading
  <1> QED
    BY <1>2, <1>3 DEF Twice

\* Users come and go without reading, and caches change: files are as before.
LEMMA IdleSteps ==
    ASSUME PoolInv, NEW u \in Users, NEW a \in NotReading, NEW f, Changed(u, a, f), user[u].at \in NotReading,
           UNCHANGED files, cached' \in [Builds -> 0..Len(files)],
           a = "have" => f \in DOMAIN files, a # "have" => f = 0, a = "new" => user'[u].path \in Paths
    PROVE  PoolInv'
  <1>1. Types'
    BY DEF PoolInv, Types, Changed
  <1>2. UserInv'
    BY DEF PoolInv, UserInv, Changed, NotReading
  <1>3. CountInv'
    BY SameReaders DEF PoolInv, CountInv
  <1>4. ASSUME NEW n \in DOMAIN files, NEW x \in Reading(n) PROVE x # u /\ user'[x] = user[x]
    BY <1>4 DEF Reading, Changed, NotReading
  <1>5. SoundInv'
    BY <1>4, SameReaders DEF PoolInv, SoundInv
  <1> QED
    BY <1>1, <1>2, <1>3, <1>5 DEF PoolInv

\* A user locks or unlocks the mutex of its file: it is enough to look at that file.
LEMMA LockStep ==
    ASSUME PoolInv, NEW u \in Users, NEW a \in {"have", "read", "readTwice"}, NEW n \in DOMAIN files,
           user[u].file = n, Changed(u, a, n), FilesKept(n), files'[n].state = files[n].state,
           UNCHANGED cached,
           files'[n].readers = Cardinality(Reading(n)') + Cardinality(Twice(n)'),
           a # "have" /\ user'[u].began = "open" => files[n].state \in {"open", "closing"}
    PROVE  PoolInv'
  <1>0. Len(files') = Len(files) /\ DOMAIN files' = DOMAIN files
    BY DEF FilesKept
  <1>1. Types'
    BY <1>0 DEF PoolInv, Types, Changed, FilesKept
  <1>2. UserInv'
    BY <1>0 DEF PoolInv, UserInv, Changed
  <1>3. ASSUME NEW m \in DOMAIN files, m # n
        PROVE  Reading(m)' = Reading(m) /\ Twice(m)' = Twice(m) /\ files'[m] = files[m]
    <2>1. u \notin Reading(m) /\ u \notin Reading(m)'
      BY <1>3 DEF Reading, Changed
    <2>2. Reading(m)' = Reading(m)
      BY <2>1 DEF Reading, Changed
    <2>3. \A x \in Reading(m) : user'[x] = user[x]
      BY <2>1 DEF Reading, Changed
    <2> QED
      BY <1>3, <2>2, <2>3 DEF Twice, FilesKept
  <1>4. CountInv'
    BY <1>0, <1>3 DEF PoolInv, CountInv
  <1>5. ASSUME NEW m \in DOMAIN files', NEW x \in Reading(m)', user'[x].began = "open"
        PROVE  files'[m].state \in {"open", "closing"}
    <2>1. files'[m].state = files[m].state
      BY <1>0, <1>3, <1>5
    <2>2. CASE x = u
      BY <1>5, <2>1, <2>2 DEF Reading, Changed
    <2>3. CASE x # u
      <3>1. x \in Reading(m) /\ user[x].began = "open"
        BY <1>5, <2>3 DEF Reading, Changed
      <3> QED
        BY <1>0, <2>1, <3>1 DEF PoolInv, SoundInv
    <2> QED
      BY <2>2, <2>3
  <1> QED
    BY <1>1, <1>2, <1>4, <1>5 DEF PoolInv, SoundInv

\* ELF() or Reader(): one more reader.
LEMMA ELFStep == ASSUME PoolInv, NEW u \in Users, ELF(u) PROVE PoolInv'
  <1>n. PICK n : n = user[u].file
    OBVIOUS
  <1>0. /\ Types /\ user[u].at = "have" /\ n \in DOMAIN files /\ UNCHANGED cached
        /\ files[n].readers = Cardinality(Reading(n)) + Cardinality(Twice(n))
        /\ files' = [files EXCEPT ![n].readers = files[n].readers + 1]
    BY <1>n DEF PoolInv, UserInv, CountInv, ELF, RLock, Types
  <1>1. Changed(u, "read", n) /\ user'[u].began = files[n].state
    <2>1. files[n].state \in States \cup {"none"}
      <3>1. files[n] \in FileState
        BY <1>0 DEF Types
      <3> QED
        BY <3>1 DEF FileState
    <2> QED
      BY <1>n, <1>0, <2>1, ReadEffect, Zenon DEF ELF, Ats
  <1>2. Reading(n)' = Reading(n) \cup {u} /\ u \notin Reading(n)
    BY <1>n, <1>0, <1>1 DEF Reading, Changed
  <1>3. Twice(n)' = Twice(n)
    BY <1>0, <1>1, <1>2 DEF Twice, Changed, Reading
  <1>4. Cardinality(Reading(n)') = Cardinality(Reading(n)) + 1
    BY <1>2, ReadersFinite, FS_AddElement, Zenon
  <1>5. files[n].readers \in Nat /\ files[n].readers + 1 \in Nat
    BY <1>0, ReadersFinite
  <1>6. FilesKept(n) /\ files'[n].readers = files[n].readers + 1 /\ files'[n].state = files[n].state
    BY <1>0, <1>5, ReadersEffect, Zenon
  <1>7. files'[n].readers = Cardinality(Reading(n)') + Cardinality(Twice(n)')
    BY <1>0, <1>3, <1>4, <1>6, ReadersFinite
  <1> QED
    BY <1>n, <1>0, <1>1, <1>6, <1>7, LockStep

\* Reader() below ELF(): the user counts twice.
LEMMA ReaderStep == ASSUME PoolInv, NEW u \in Users, Reader(u) PROVE PoolInv'
  <1>n. PICK n : n = user[u].file
    OBVIOUS
  <1>0. /\ Types /\ user[u].at = "read" /\ n \in DOMAIN files /\ UNCHANGED cached
        /\ files[n].readers = Cardinality(Reading(n)) + Cardinality(Twice(n))
        /\ files' = [files EXCEPT ![n].readers = files[n].readers + 1]
    BY <1>n DEF PoolInv, UserInv, CountInv, Reader, RLock, Types
  <1>1. Changed(u, "readTwice", n) /\ user'[u].began = user[u].began
    BY <1>n, <1>0, ReadTwiceEffect, Zenon DEF Reader, Ats
  <1>2. Reading(n)' = Reading(n) /\ u \in Reading(n)
    BY <1>n, <1>0, <1>1 DEF Reading, Changed
  <1>3. Twice(n)' = Twice(n) \cup {u} /\ u \notin Twice(n)
    BY <1>0, <1>1, <1>2 DEF Twice, Changed, Reading
  <1>4. Cardinality(Twice(n)') = Cardinality(Twice(n)) + 1
    BY <1>3, ReadersFinite, FS_AddElement, Zenon
  <1>5. files[n].readers \in Nat /\ files[n].readers + 1 \in Nat
    BY <1>0, ReadersFinite
  <1>6. FilesKept(n) /\ files'[n].readers = files[n].readers + 1 /\ files'[n].state = files[n].state
    BY <1>0, <1>5, ReadersEffect, Zenon
  <1>7. files'[n].readers = Cardinality(Reading(n)') + Cardinality(Twice(n)')
    BY <1>0, <1>2, <1>4, <1>6, ReadersFinite
  <1>8. user[u].began = "open" => files[n].state \in {"open", "closing"}
    BY <1>0, <1>2 DEF PoolInv, SoundInv
  <1> QED
    BY <1>n, <1>0, <1>1, <1>6, <1>7, <1>8, LockStep

\* The release functions: the user no longer counts.
LEMMA ReleaseStep == ASSUME PoolInv, NEW u \in Users, Release(u) PROVE PoolInv'
  <1>n. PICK n : n = user[u].file
    OBVIOUS
  <1> DEFINE k == IF user[u].at = "read" THEN 1 ELSE 2
  <1>0. /\ Types /\ user[u].at \in {"read", "readTwice"} /\ n \in DOMAIN files /\ UNCHANGED cached
        /\ files[n].readers = Cardinality(Reading(n)) + Cardinality(Twice(n))
        /\ files' = [files EXCEPT ![n].readers = files[n].readers - k]
    BY <1>n DEF PoolInv, UserInv, CountInv, Release, Types
  <1>1. Changed(u, "have", n) /\ user'[u].began = "none"
    BY <1>n, <1>0, ReadEffect, Zenon DEF Release, Ats
  <1>2. Reading(n)' = Reading(n) \ {u} /\ u \in Reading(n)
    BY <1>n, <1>0, <1>1 DEF Reading, Changed
  <1>3. Twice(n)' = Twice(n) \ {u}
    BY <1>1, <1>2 DEF Twice, Changed, Reading
  <1>4. u \in Twice(n) <=> user[u].at = "readTwice"
    BY <1>2 DEF Twice
  <1>5. Cardinality(Reading(n)') = Cardinality(Reading(n)) - 1
    BY <1>2, ReadersFinite, FS_RemoveElement, Zenon
  <1>6. Cardinality(Twice(n)') = Cardinality(Twice(n)) - (k - 1)
    <2>1. CASE user[u].at = "readTwice"
      <3>1. Cardinality(Twice(n) \ {u}) = Cardinality(Twice(n)) - 1
        BY <1>4, <2>1, ReadersFinite, FS_RemoveElement, Zenon
      <3>2. k = 2
        BY <2>1
      <3> QED
        BY <1>3, <3>1, <3>2, ReadersFinite
    <2>2. CASE user[u].at = "read"
      <3>1. Twice(n)' = Twice(n)
        BY <1>3, <1>4, <2>2
      <3> QED
        BY <2>2, <3>1, ReadersFinite
    <2> QED
      BY <1>0, <2>1, <2>2
  <1>7. Cardinality(Reading(n)') \in Nat /\ Cardinality(Twice(n)') \in Nat
    <2>1. IsFiniteSet(Reading(n) \ {u}) /\ IsFiniteSet(Twice(n) \ {u})
      BY ReadersFinite, FS_RemoveElement
    <2> QED
      BY <1>2, <1>3, <2>1, FS_CardinalityType
  <1>8. /\ files[n].readers - k = Cardinality(Reading(n)') + Cardinality(Twice(n)')
        /\ files[n].readers - k \in Nat
    BY <1>0, <1>5, <1>6, <1>7, ReadersFinite
  <1>9. FilesKept(n) /\ files'[n].readers = files[n].readers - k /\ files'[n].state = files[n].state
    BY <1>0, <1>8, ReadersEffect, Zenon
  <1> QED
    BY <1>n, <1>0, <1>1, <1>8, <1>9, LockStep

\* A finalizer asks for the mutex, gets it when nobody reads, and closes the descriptor.
LEMMA FinalizerStep ==
    ASSUME PoolInv, NEW n \in 1..MaxFiles, Finalize(n) \/ Close(n) \/ CloseFile(n)
    PROVE  PoolInv'
  <1>0. Types /\ n \in DOMAIN files /\ UNCHANGED <<cached, user>>
    BY DEF PoolInv, Finalize, Close, CloseFile
  <1>1. PICK s \in States :
          /\ files' = [files EXCEPT ![n].state = s]
          /\ s = "closing" \/ files[n].readers = 0 \/ files[n].state = "released"
    BY DEF Finalize, Close, CloseFile, States
  <1>2. FilesKept(n) /\ files'[n].readers = files[n].readers /\ files'[n].state = s
    BY <1>0, <1>1, StateEffect, Zenon
  <1>3. Types'
    BY <1>0, <1>2 DEF Types, FilesKept
  <1>4. UserInv'
    BY <1>0, <1>2 DEF PoolInv, UserInv, FilesKept
  <1>5. \A m : Reading(m)' = Reading(m) /\ Twice(m)' = Twice(m)
    BY <1>0 DEF Reading, Twice
  <1>6. CountInv'
    BY <1>2, <1>5 DEF PoolInv, CountInv, FilesKept
  <1>7. s = "closing" \/ \A u \in Reading(n) : user[u].began # "open"
    <2>1. files[n].readers = 0 => Reading(n) = {}
      <3>1. files[n].readers = 0 => Cardinality(Reading(n)) = 0
        BY <1>0, ReadersFinite DEF PoolInv, CountInv
      <3> QED
        BY <3>1, ReadersFinite, FS_EmptySet
    <2>2. files[n].state = "released" => \A u \in Reading(n) : user[u].began # "open"
      BY <1>0 DEF PoolInv, SoundInv
    <2> QED
      BY <1>1, <2>1, <2>2
  <1>8. SoundInv'
    BY <1>0, <1>2, <1>5, <1>7 DEF PoolInv, SoundInv, FilesKept
  <1> QED
    BY <1>3, <1>4, <1>6, <1>8 DEF PoolInv

\* The rest of NewFile: a file that nobody reads yet.
LEMMA NewFileStep == ASSUME PoolInv, NEW u \in Users, NewFile(u) PROVE PoolInv'
  <1>n. PICK n : n = Len(files) + 1
    OBVIOUS
  <1> DEFINE f == [build |-> BuildID[user[u].path], state |-> "open", readers |-> 0]
  <1>0. /\ Types /\ user[u].at = "new" /\ BuildID[user[u].path] \in Builds
        /\ files' = Append(files, f) /\ cached' = [cached EXCEPT ![BuildID[user[u].path]] = n]
        /\ files \in Seq(FileState) /\ n \in Nat
    BY <1>n DEF PoolInv, UserInv, NewFile, Builds, Types
  <1>1. Changed(u, "have", n) /\ user'[u].began = "none"
    BY <1>n, <1>0, HoldingEffect, Zenon DEF NewFile
  <1>2. f \in FileState
    BY <1>0 DEF FileState, States
  <1>3. /\ files' \in Seq(FileState) /\ Len(files') = n /\ DOMAIN files' = DOMAIN files \cup {n}
        /\ n \notin DOMAIN files /\ files'[n] = f /\ \A m \in DOMAIN files : files'[m] = files[m]
    <2> HIDE DEF f
    <2>0. files \in Seq(FileState) /\ f \in FileState
      BY <1>0, <1>2
    <2>1. /\ Append(files, f) \in Seq(FileState) /\ Len(Append(files, f)) = Len(files) + 1
          /\ DOMAIN Append(files, f) = DOMAIN files \cup {Len(files) + 1}
          /\ Len(files) + 1 \notin DOMAIN files /\ Append(files, f)[Len(files) + 1] = f
          /\ \A m \in DOMAIN files : Append(files, f)[m] = files[m]
      BY <2>0, AppendedFile, SMTT(30)
    <2> QED
      BY <1>n, <1>0, <2>1, Zenon
  <1>4. Types'
    <2>1. user' \in [Users -> UserState]
      BY <1>0, <1>1 DEF Types, Changed
    <2>2. cached' \in [Builds -> 0..n]
      BY <1>n, <1>0 DEF Types
    <2> QED
      BY <1>3, <2>1, <2>2, Zenon DEF Types
  <1>5. UserInv'
    BY <1>1, <1>3 DEF PoolInv, UserInv, Changed
  <1>6. \A m : Reading(m)' = Reading(m) /\ Twice(m)' = Twice(m)
    BY <1>0, <1>1, SameReaders DEF NotReading
  <1>7. Reading(n) = {} /\ Twice(n) = {}
    <2>1. \A x \in Users : user[x].at \in {"read", "readTwice"} => user[x].file # n
      BY <1>3 DEF PoolInv, UserInv
    <2> QED
      BY <2>1 DEF Reading, Twice
  <1>8. CountInv'
    <2>1. files'[n].readers = Cardinality(Reading(n)') + Cardinality(Twice(n)')
      <3>1. Cardinality(Reading(n)') = 0 /\ Cardinality(Twice(n)') = 0
        BY <1>6, <1>7, FS_EmptySet
      <3>2. files'[n].readers = 0
        BY <1>3
      <3> QED
        BY <3>1, <3>2
    <2> QED
      BY <1>3, <1>6, <2>1 DEF PoolInv, CountInv
  <1>9. \A m \in DOMAIN files : \A x \in Reading(m) : user'[x] = user[x]
    BY <1>0, <1>1 DEF Reading, Changed
  <1>10. SoundInv'
    BY <1>3, <1>6, <1>7, <1>9 DEF PoolInv, SoundInv
  <1> QED
    BY <1>4, <1>5, <1>8, <1>10 DEF PoolInv

\* Every step of users, caches and finalizers.
LEMMA NextPoolInv == ASSUME PoolInv, [PoolNext]_poolVars PROVE PoolInv'
  <1>0. Types /\ UserInv
    BY DEF PoolInv
  <1>1. ASSUME NEW u \in Users, Drop(u) PROVE PoolInv'
    <2>1. Changed(u, "idle", 0) /\ user[u].at = "have" /\ UNCHANGED <<files, cached>>
      BY <1>0, <1>1, DropEffect, Zenon DEF Drop
    <2> QED
      BY <1>0, <2>1, IdleSteps DEF NotReading, Types
  <1>2. ASSUME NEW u \in Users, NEW p \in Paths, OpenKnown(u, p) \/ OpenPath(u, p) PROVE PoolInv'
    <2>0. /\ user[u].at = "idle" /\ UNCHANGED <<files, cached>> /\ BuildID[p] \in Builds
          /\ cached[BuildID[p]] \in 0..Len(files)
      BY <1>0, <1>2, Zenon DEF OpenKnown, OpenPath, Builds, Types
    <2>1. CASE cached[BuildID[p]] # 0 /\ Holding(u, cached[BuildID[p]], FALSE)
      <3>1. cached[BuildID[p]] \in Nat /\ cached[BuildID[p]] \in DOMAIN files
        BY <1>0, <2>0, <2>1 DEF Types
      <3>2. Changed(u, "have", cached[BuildID[p]])
        BY <1>0, <2>1, <3>1, HoldingEffect, Zenon
      <3> QED
        BY <1>0, <2>0, <3>1, <3>2, IdleSteps DEF NotReading, Types
    <2>2. CASE user' = [user EXCEPT ![u] = [NoUse EXCEPT !.at = "new", !.path = p]]
      <3>1. Changed(u, "new", 0) /\ user'[u].path = p
        BY <1>0, <2>2, NewEffect, Zenon
      <3> QED
        BY <1>0, <2>0, <3>1, IdleSteps DEF NotReading, Types
    <2>3. CASE UNCHANGED user
      BY <2>0, <2>3 DEF PoolInv, Types, UserInv, CountInv, SoundInv, Reading, Twice
    <2> QED
      BY <1>2, <2>1, <2>2, <2>3, Zenon DEF OpenKnown, OpenPath
  <1>3. CASE UNCHANGED <<files, user>> /\ cached' \in [Builds -> 0..Len(files)]
    BY <1>3, Zenon DEF PoolInv, Types, UserInv, CountInv, SoundInv, Reading, Twice
  <1>4. ASSUME (\E p \in Paths : ExpirePath(p)) \/ (\E b \in Builds : ExpireFile(b)) \/ UNCHANGED poolVars
        PROVE  PoolInv'
    <2>1. UNCHANGED <<files, user>> /\ cached' \in [Builds -> 0..Len(files)]
      BY <1>0, <1>4 DEF ExpirePath, ExpireFile, poolVars, Types
    <2> QED
      BY <1>3, <2>1
  <1> QED
    BY <1>1, <1>2, <1>4, NewFileStep, ELFStep, ReaderStep, ReleaseStep, FinalizerStep, ZenonT(60)
       DEF PoolNext, Use

\* At the start nothing is open.
LEMMA InitPoolInv == ASSUME PoolInit PROVE PoolInv
  <1>1. files \in Seq(FileState) /\ Len(files) = 0 /\ DOMAIN files = {}
    BY NoFiles, Zenon DEF PoolInit
  <1>2. Types
    <2>1. NoUse \in UserState
      BY DEF NoUse, UserState, Ats
    <2>2. user \in [Users -> UserState]
      BY <2>1 DEF PoolInit
    <2>3. cached \in [Builds -> 0..Len(files)]
      BY <1>1 DEF PoolInit
    <2> QED
      BY <1>1, <2>2, <2>3, Zenon DEF Types
  <1> QED
    BY <1>1, <1>2 DEF PoolInit, NoUse, PoolInv, UserInv, CountInv, SoundInv

\* For every number of users, paths and files: a read that began before the finalizer of
\* its file got the mutex has the descriptor open until the release, however many copies
\* the pool has handed out and though the finalizer closes it after leaving the mutex.
THEOREM ReadsStaySoundHolds == PoolSpec => []ReadsStaySound
  <1>1. PoolInit => PoolInv
    BY InitPoolInv
  <1>2. PoolInv /\ [PoolNext]_poolVars => PoolInv'
    BY NextPoolInv
  <1>3. PoolInv => ReadsStaySound
    BY DEF PoolInv, SoundInv, ReadsStaySound, Open
  <1> QED
    BY <1>1, <1>2, <1>3, PTL DEF PoolSpec

-----------------------------------------------------------------------------
(* Types, and the users that hold an original. *)

\* The caches, descriptors and users have their types for all users, paths and files, and
\* every mutex counts its readers, those that read below ELF() twice.
THEOREM PoolTypeCorrect == PoolSpec => []PoolTypeOK
  <1>1. PoolInit => PoolInv /\ known \subseteq Paths
    BY InitPoolInv DEF PoolInit
  <1>2. PoolInv /\ known \subseteq Paths /\ [PoolNext]_poolVars => (PoolInv /\ known \subseteq Paths)'
    <2> SUFFICES ASSUME PoolInv, known \subseteq Paths, [PoolNext]_poolVars PROVE known' \subseteq Paths
      BY NextPoolInv
    <2>1. ASSUME NEW u \in Users, NewFile(u) PROVE known' \subseteq Paths
      BY <2>1 DEF PoolInv, UserInv, NewFile
    <2> QED
      BY <2>1, Zenon DEF PoolNext, Use, Drop, OpenKnown, OpenPath, ELF, Reader, Release, ExpirePath, ExpireFile,
                  Finalize, Close, CloseFile, poolVars
  <1>3. PoolInv /\ known \subseteq Paths => PoolTypeOK
    <2> SUFFICES ASSUME PoolInv, known \subseteq Paths PROVE PoolTypeOK
      OBVIOUS
    <2>1. ASSUME NEW u \in Users PROVE user[u].at \in Ats /\ user[u].file \in 0..Len(files)
      BY DEF PoolInv, Types, UserInv, UserState
    <2>2. ASSUME NEW n \in DOMAIN files PROVE files[n].state \in States
      <3>1. files[n] \in FileState
        BY DEF PoolInv, Types
      <3> QED
        BY <3>1 DEF FileState
    <2> QED
      BY <2>1, <2>2 DEF PoolInv, Types, CountInv, Twice, Ats, States, PoolTypeOK
  <1> QED
    BY <1>1, <1>2, <1>3, PTL DEF PoolSpec

\* A user that holds the original itself, not a copy, has an open file.
OriginalsAreOpen == \A u \in Users : user[u].original => user[u].file # 0 /\ files[user[u].file].state = "open"

\* The finalizer waits for the users of the original, and of nothing else: while one of
\* them has it, the descriptor is not even about to be closed.
THEOREM OriginalsAreOpenHolds == PoolSpec => []OriginalsAreOpen
  <1>1. PoolInit => PoolInv /\ OriginalsAreOpen
    BY InitPoolInv DEF PoolInit, NoUse, OriginalsAreOpen
  <1>2. PoolInv /\ OriginalsAreOpen /\ [PoolNext]_poolVars => (PoolInv /\ OriginalsAreOpen)'
    <2> SUFFICES ASSUME PoolInv, OriginalsAreOpen, [PoolNext]_poolVars PROVE OriginalsAreOpen'
      BY NextPoolInv
    <2>0. Types /\ UserInv /\ user \in [Users -> UserState] /\ files \in Seq(FileState)
      BY DEF PoolInv, Types
    <2>1. ASSUME NEW u \in Users, user[u].original PROVE user[u].file \in DOMAIN files
      BY <2>0, <2>1 DEF UserInv, OriginalsAreOpen
    <2>2. ASSUME NEW u \in Users, NewFile(u) PROVE OriginalsAreOpen'
      <3>1. PICK n : n = Len(files) + 1
        OBVIOUS
      <3>2. \A x \in Users : x # u => user'[x] = user[x]
        BY <2>0, <2>2 DEF NewFile, Holding
      <3>3. user'[u].file = n
        BY <2>0, <2>2, <3>1 DEF NewFile, Holding, NoUse
      <3>4. files'[n].state = "open" /\ n # 0 /\ \A m \in DOMAIN files : files'[m] = files[m]
        BY <2>0, <2>2, <3>1 DEF NewFile
      <3> QED
        BY <2>1, <3>2, <3>3, <3>4 DEF OriginalsAreOpen
    <2>3. ASSUME NEW u \in Users, ELF(u) \/ Reader(u) \/ Release(u) PROVE OriginalsAreOpen'
      <3>1. \A x \in Users : user'[x].original = user[x].original /\ user'[x].file = user[x].file
        <4>1. CASE ELF(u)
          <5>1. files[user[u].file].state \in States \cup {"none"}
            <6>1. user[u].file \in DOMAIN files
              BY <4>1, <2>0 DEF UserInv, ELF
            <6>2. files[user[u].file] \in FileState
              BY <2>0, <6>1
            <6> QED
              BY <6>2 DEF FileState
          <5>2. Changed(u, "read", user[u].file) /\ user'[u].original = user[u].original
            BY <2>0, <4>1, <5>1, ReadEffect, Zenon DEF ELF, Ats
          <5> QED
            BY <5>2 DEF Changed
        <4>2. CASE Reader(u)
          <5>1. Changed(u, "readTwice", user[u].file) /\ user'[u].original = user[u].original
            BY <2>0, <4>2, ReadTwiceEffect, Zenon DEF Reader, Ats
          <5> QED
            BY <5>1 DEF Changed
        <4>3. CASE Release(u)
          <5>1. Changed(u, "have", user[u].file) /\ user'[u].original = user[u].original
            BY <2>0, <4>3, ReadEffect, Zenon DEF Release, Ats
          <5> QED
            BY <5>1 DEF Changed
        <4> QED
          BY <2>3, <4>1, <4>2, <4>3
      <3>2. \A m \in DOMAIN files : files'[m].state = files[m].state
        <4>1. PICK n, k : files' = [files EXCEPT ![n].readers = k]
          BY <2>3, Zenon DEF ELF, Reader, Release, RLock
        <4>2. \A m \in DOMAIN files : files[m] \in FileState
          BY <2>0
        <4> QED
          BY <2>0, <4>1, <4>2 DEF FileState
      <3> QED
        BY <2>1, <3>1, <3>2 DEF OriginalsAreOpen
    <2>4. ASSUME NEW u \in Users, Drop(u) \/ \E p \in Paths : OpenKnown(u, p) \/ OpenPath(u, p)
          PROVE  OriginalsAreOpen'
      <3>1. \A x \in Users : user'[x] = user[x] \/ user'[x].original = FALSE
        <4>1. CASE Drop(u)
          BY <2>0, <4>1, DropEffect, Zenon DEF Drop, Changed
        <4>2. ASSUME NEW p \in Paths, OpenKnown(u, p) \/ OpenPath(u, p)
              PROVE  \A x \in Users : user'[x] = user[x] \/ user'[x].original = FALSE
          <5>1. cached[BuildID[p]] \in Nat
            BY <2>0 DEF Types, Builds
          <5>2. CASE Holding(u, cached[BuildID[p]], FALSE)
            BY <2>0, <5>1, <5>2, HoldingEffect, Zenon DEF Changed
          <5>3. CASE user' = [user EXCEPT ![u] = [NoUse EXCEPT !.at = "new", !.path = p]]
            BY <2>0, <5>3, NewEffect, Zenon DEF Changed
          <5> QED
            BY <4>2, <5>2, <5>3, Zenon DEF OpenKnown, OpenPath
        <4> QED
          BY <2>4, <4>1, <4>2, Zenon
      <3>2. UNCHANGED files
        BY <2>4, Zenon DEF Drop, OpenKnown, OpenPath
      <3> QED
        BY <3>1, <3>2 DEF OriginalsAreOpen
    <2>5. ASSUME NEW n \in 1..MaxFiles, Finalize(n) \/ Close(n) \/ CloseFile(n) PROVE OriginalsAreOpen'
      <3>1. \A u \in Users : user[u].original => user[u].file # n
        BY <2>5 DEF Finalize, Close, CloseFile, OriginalsAreOpen
      <3>2. UNCHANGED user /\ \A m \in DOMAIN files : m # n => files'[m] = files[m]
        BY <2>0, <2>5 DEF Finalize, Close, CloseFile
      <3> QED
        BY <2>1, <3>1, <3>2 DEF OriginalsAreOpen
    <2>6. ASSUME UNCHANGED <<files, user>> PROVE OriginalsAreOpen'
      BY <2>6 DEF OriginalsAreOpen
    <2>7. ASSUME (\E p \in Paths : ExpirePath(p)) \/ (\E b \in Builds : ExpireFile(b)) \/ UNCHANGED poolVars
          PROVE  UNCHANGED <<files, user>>
      BY <2>7 DEF ExpirePath, ExpireFile, poolVars
    <2> QED
      BY <2>2, <2>3, <2>4, <2>5, <2>6, <2>7, ZenonT(60) DEF PoolNext, Use
  <1> QED
    BY <1>1, <1>2, PTL DEF PoolSpec

=============================================================================
