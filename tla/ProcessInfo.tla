---------------------------- MODULE ProcessInfo ----------------------------
(***************************************************************************)
(* InfoManager (src/pkg/process/info.go): what the agent knows of a         *)
(* process, fetched at most once at a time per PID and cached, and the       *)
(* upload of the debug information of its executables.                      *)
(*                                                                         *)
(* A caller is a goroutine in Fetch (Fetchers) or in Info (Loop, the        *)
(* profiling loop).  Each step is one access to shared state: the cache, the *)
(* sync.Maps fetchInProgress and uploadInprogress, procfs, or an answer of   *)
(* the debuginfo manager.  Module EventLoop starts the calls.               *)
(***************************************************************************)
EXTENDS Naturals

CONSTANTS Pids,             \* processes
          BuildIDs,         \* object files
          Symbolizable,     \* Symbolizable[p]: the files mapped executable by p
          Fetchers,         \* bound on the goroutines in Fetch
          Loop,             \* the profiling loop
          Missing           \* no cache entry

ASSUME LoopAssumption == Loop \notin Fetchers
ASSUME PidsAssumption == Pids # {}
ASSUME SymbolizableAssumption == Symbolizable \in [Pids -> SUBSET BuildIDs]

VARIABLES cache,            \* cache[p]: the mappings of p, or Missing
          fetchInProgress,  \* PIDs being fetched
          uploadInprogress, \* PIDs whose debug information is being uploaded
          call,             \* call[c]: where caller c is
          running           \* the processes that have not ended

info_vars == <<cache, fetchInProgress, uploadInprogress, call, running>>

Callers == Fetchers \cup {Loop}
Steps == {"idle", "lookup", "fetch", "mark", "maps", "open", "ensure", "wait", "put", "labels",
          "unmark", "again", "returned", "written", "dropped", "error"}

AnyPid == CHOOSE p \in Pids : TRUE

\* mappings: read or found; hit: found in the cache; asking, uploading: the goroutines of
\* ensureDebuginfoUploaded, by file; failed: the error of Fetch, or of Info when returned.
Idle == [at |-> "idle", pid |-> AnyPid, mappings |-> {}, hit |-> FALSE,
         asking |-> {}, uploading |-> {}, failed |-> FALSE]

Calls == [at : Steps, pid : Pids, mappings : SUBSET BuildIDs, hit : BOOLEAN,
          asking : SUBSET BuildIDs, uploading : SUBSET BuildIDs, failed : BOOLEAN]

InfoTypeOK ==
    /\ cache \in [Pids -> (SUBSET BuildIDs) \cup {Missing}]
    /\ fetchInProgress \subseteq Pids
    /\ uploadInprogress \subseteq Pids
    /\ call \in [Callers -> Calls]
    /\ running \subseteq Pids

InfoInit ==
    /\ cache = [p \in Pids |-> Missing]
    /\ fetchInProgress = {}
    /\ uploadInprogress = {}
    /\ call = [c \in Callers |-> Idle]
    /\ running = Pids

-----------------------------------------------------------------------------
(* Control: caller c goes on at s, or returns from Fetch.                   *)

Goto(c, s) == call' = [call EXCEPT ![c].at = s]

\* A goroutine of the listener ends with Fetch; Info looks again unless Fetch failed.
FetchReturned(c, r, failed) ==
    IF c \in Fetchers THEN Idle
    ELSE [Idle EXCEPT !.at = IF failed THEN "returned" ELSE "again", !.pid = r.pid, !.failed = failed]

ReturnFetch(c, failed) == call' = [call EXCEPT ![c] = FetchReturned(c, @, failed)]

\* The calls: go Fetch(pid), Info(pid).
StartFetch(c, p) ==
    /\ call[c].at = "idle"
    /\ call' = [call EXCEPT ![c] = [Idle EXCEPT !.at = "fetch", !.pid = p]]

StartInfo(p) ==
    /\ call[Loop].at = "idle"
    /\ call' = [call EXCEPT ![Loop] = [Idle EXCEPT !.at = "lookup", !.pid = p]]

-----------------------------------------------------------------------------
(* Fetch.                                                                  *)

\* A cache hit still offers the debug information.
FetchLookup(c) ==
    /\ call[c].at = "fetch"
    /\ \/ /\ cache[call[c].pid] # Missing
          /\ call' = [call EXCEPT ![c].at = "ensure", ![c].hit = TRUE,
                                  ![c].mappings = cache[call[c].pid]]
       \/ /\ cache[call[c].pid] = Missing
          /\ Goto(c, "mark")
    /\ UNCHANGED <<cache, fetchInProgress, uploadInprogress, running>>

\* Mutant of Mark: the Delete is deferred before LoadOrStore, and runs on the early return too.
MarkAndClear(c) ==
    /\ call[c].at = "mark"
    /\ \/ /\ call[c].pid \in fetchInProgress
          /\ ReturnFetch(c, FALSE)
          /\ fetchInProgress' = fetchInProgress \ {call[c].pid}
       \/ /\ call[c].pid \notin fetchInProgress
          /\ fetchInProgress' = fetchInProgress \cup {call[c].pid}
          /\ Goto(c, "maps")
    /\ UNCHANGED <<cache, uploadInprogress, running>>

\* fetchInProgress.LoadOrStore.
Mark(c) ==
    /\ call[c].at = "mark"
    /\ \/ /\ call[c].pid \in fetchInProgress
          /\ ReturnFetch(c, FALSE)
          /\ UNCHANGED fetchInProgress
       \/ /\ call[c].pid \notin fetchInProgress
          /\ fetchInProgress' = fetchInProgress \cup {call[c].pid}
          /\ Goto(c, "maps")
    /\ UNCHANGED <<cache, uploadInprogress, running>>

\* MappingsForPID reads the maps of the process ...
ReadMaps(c) ==
    /\ call[c].at = "maps"
    /\ IF call[c].pid \in running
       THEN Goto(c, "open")
       ELSE call' = [call EXCEPT ![c].at = "unmark", ![c].failed = TRUE]
    /\ UNCHANGED <<cache, fetchInProgress, uploadInprogress, running>>

\* ... and opens the files: those that no longer exist (all of them, once the process has ended)
\* are left out; any other error, now or whenever the file is opened, fails the whole.
OpenFiles(c) ==
    /\ call[c].at = "open"
    /\ \/ \E found \in SUBSET Symbolizable[call[c].pid] :
             call' = [call EXCEPT ![c].at = "ensure", ![c].mappings = found]
       \/ /\ Symbolizable[call[c].pid] # {}
          /\ call' = [call EXCEPT ![c].at = "unmark", ![c].failed = TRUE]
    /\ UNCHANGED <<cache, fetchInProgress, uploadInprogress, running>>

Put(c) ==
    /\ call[c].at = "put"
    /\ cache' = [cache EXCEPT ![call[c].pid] = call[c].mappings]
    /\ Goto(c, "labels")
    /\ UNCHANGED <<fetchInProgress, uploadInprogress, running>>

\* labelManager.Fetch fills the label manager's own cache; it fails only when the agent stops.
WarmLabels(c) ==
    /\ call[c].at = "labels"
    /\ Goto(c, "unmark")
    /\ UNCHANGED <<cache, fetchInProgress, uploadInprogress, running>>

\* Mutant of Unmark: the mark is deleted on success only.
UnmarkOnSuccess(c) ==
    /\ call[c].at = "unmark"
    /\ fetchInProgress' = IF call[c].failed THEN fetchInProgress
                          ELSE fetchInProgress \ {call[c].pid}
    /\ ReturnFetch(c, call[c].failed)
    /\ UNCHANGED <<cache, uploadInprogress, running>>

Unmark(c) ==
    /\ call[c].at = "unmark"
    /\ fetchInProgress' = fetchInProgress \ {call[c].pid}
    /\ ReturnFetch(c, call[c].failed)
    /\ UNCHANGED <<cache, uploadInprogress, running>>

-----------------------------------------------------------------------------
(* ensureDebuginfoUploaded.                                                *)

\* What follows it in Fetch.
Ensured(c, r) == IF r.hit THEN FetchReturned(c, r, FALSE) ELSE [r EXCEPT !.at = "put"]

\* uploadInprogress.LoadOrStore, and one goroutine for each mapping.
Ensure(c) ==
    /\ call[c].at = "ensure"
    /\ \/ /\ call[c].pid \in uploadInprogress
          /\ call' = [call EXCEPT ![c] = Ensured(c, @)]
          /\ UNCHANGED uploadInprogress
       \/ /\ call[c].pid \notin uploadInprogress
          /\ uploadInprogress' = uploadInprogress \cup {call[c].pid}
          /\ call' = [call EXCEPT ![c].at = "wait", ![c].asking = call[c].mappings]
    /\ UNCHANGED <<cache, fetchInProgress, running>>

\* ShouldInitiateUpload: an error or no ends the goroutine, otherwise UploadMapping.
ShouldInitiateUpload(c, b) ==
    /\ b \in call[c].asking
    /\ \E more \in {{}, {b}} :
          call' = [call EXCEPT ![c].asking = @ \ {b}, ![c].uploading = @ \cup more]
    /\ UNCHANGED <<cache, fetchInProgress, uploadInprogress, running>>

\* UploadMapping: an error is only reported.
UploadMapping(c, b) ==
    /\ b \in call[c].uploading
    /\ call' = [call EXCEPT ![c].uploading = @ \ {b}]
    /\ UNCHANGED <<cache, fetchInProgress, uploadInprogress, running>>

\* Mutant of WaitGroupDone: the mark is not deleted.
WaitGroupKeepsMark(c) ==
    /\ call[c].at = "wait"
    /\ call[c].asking = {}
    /\ call[c].uploading = {}
    /\ uploadInprogress' = uploadInprogress
    /\ call' = [call EXCEPT ![c] = Ensured(c, @)]
    /\ UNCHANGED <<cache, fetchInProgress, running>>

WaitGroupDone(c) ==
    /\ call[c].at = "wait"
    /\ call[c].asking = {}
    /\ call[c].uploading = {}
    /\ uploadInprogress' = uploadInprogress \ {call[c].pid}
    /\ call' = [call EXCEPT ![c] = Ensured(c, @)]
    /\ UNCHANGED <<cache, fetchInProgress, running>>

-----------------------------------------------------------------------------
(* Info: look, fetch, look again.                                          *)

InfoReturned(p, failed) == [Idle EXCEPT !.at = "returned", !.pid = p, !.failed = failed]

InfoLookup ==
    /\ call[Loop].at = "lookup"
    /\ call' = [call EXCEPT ![Loop] = IF cache[@.pid] # Missing THEN InfoReturned(@.pid, FALSE)
                                      ELSE [@ EXCEPT !.at = "fetch"]]
    /\ UNCHANGED <<cache, fetchInProgress, uploadInprogress, running>>

InfoLookupAgain ==
    /\ call[Loop].at = "again"
    /\ call' = [call EXCEPT ![Loop] = InfoReturned(@.pid, cache[@.pid] = Missing)]
    /\ UNCHANGED <<cache, fetchInProgress, uploadInprogress, running>>

-----------------------------------------------------------------------------
\* One step of caller c; those of its goroutines are UploadStep.
FetchStep(c) == \/ FetchLookup(c)
                \/ Mark(c)
                \/ ReadMaps(c)
                \/ OpenFiles(c)
                \/ Put(c)
                \/ WarmLabels(c)
                \/ Unmark(c)
                \/ Ensure(c)
                \/ WaitGroupDone(c)

UploadStep(c, b) == ShouldInitiateUpload(c, b) \/ UploadMapping(c, b)

InfoStep == InfoLookup \/ InfoLookupAgain

\* The cache forgets a process nobody asked for in twelve rounds of profiling.
Expire(p) ==
    /\ cache[p] # Missing
    /\ \A c \in Callers : call[c].at # "idle" => call[c].pid # p
    /\ cache' = [cache EXCEPT ![p] = Missing]
    /\ UNCHANGED <<fetchInProgress, uploadInprogress, call, running>>

EndProcess(p) ==
    /\ p \in running
    /\ running' = running \ {p}
    /\ UNCHANGED <<cache, fetchInProgress, uploadInprogress, call>>

\* Between LoadOrStore and the deferred Delete of the two marks.
FetchingAt(r) == ~r.hit /\ r.at \in {"maps", "open", "ensure", "wait", "put", "labels", "unmark"}
UploadingAt(r) == r.at = "wait"

Fetching(c) == FetchingAt(call[c])
Uploading(c) == UploadingAt(call[c])
=============================================================================
