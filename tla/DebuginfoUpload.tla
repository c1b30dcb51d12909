--------------------------- MODULE DebuginfoUpload ---------------------------
(***************************************************************************)
(* The debuginfo manager (pkg/debuginfo/manager.go, find.go): goroutines   *)
(* of ensureDebuginfoUploaded find or extract the debug information of a   *)
(* mapping and upload it, with a limit on parallel uploads and a           *)
(* singleflight group per step.                                            *)
(*                                                                         *)
(* A task is the mapping of one process. It is tried again whenever its    *)
(* process is seen, until the process has ended. The pool that object      *)
(* files come from is ObjectFilePool; here a file is what it contains.     *)
(***************************************************************************)
EXTENDS Naturals, FiniteSets

CONSTANTS
    Tasks,
    Builds,        \* build IDs, of mapped binaries and of separate debuginfo files
    BuildID,       \* task |-> build ID of its mapping
    MaxParallel,   \* bound: values of uploadMaxParallel
    MaxFailures,   \* bound: errors and timeouts in a behaviour
    MaxExits,      \* bound: processes that end
    None

Mapped == {BuildID[t] : t \in Tasks}

ASSUME UploadAssumption ==
    /\ IsFiniteSet(Tasks) /\ None \notin Tasks
    /\ BuildID \in [Tasks -> Builds] /\ None \notin Builds
    /\ MaxParallel \in Nat \ {0} /\ MaxFailures \in Nat

VARIABLES
    strippable,\* build IDs whose binary has a .text section, with stripping enabled
    separate,  \* build ID |-> build ID of its separate debuginfo file; None without one
    limit,     \* uploadMaxParallel
    task,      \* task |-> [at, id, file, leader, shared, nil, err]
    extracts,  \* extractSingleflight: build ID |-> the task that runs it
    uploads,   \* uploadSingleflight: likewise
    tokens,    \* uploadTaskTokens that are free
    cache,     \* shouldInitiateCache
    found,     \* Finder's cache: build ID |-> "unset", "none", or the task under whose root
    known,     \* build IDs whose separate file the pool knows by its path
    server,    \* the store: build ID |-> "none", "uploading" or "uploaded"
    gone,      \* tasks whose process has ended
    crashed,   \* a panic ended the agent
    failures,
    \* History.
    sent,      \* build ID |-> the contents that were uploaded
    claimed,   \* build IDs whose upload was reported to have succeeded
    extracted  \* build ID |-> files extracted, up to 2

flights == <<extracts, uploads, tokens>>
setup == <<strippable, separate, limit>>
env == <<setup, found, known, server, gone, crashed>>
history == <<sent, claimed, extracted>>
vars == <<strippable, separate, limit, task, extracts, uploads, tokens, cache, found, known, server,
          gone, crashed, failures, sent, claimed, extracted>>

\* id is the build ID of the file to upload: that of the mapping, unless a separate file
\* with another one is found.
Idle(t) == [at |-> "idle", id |-> BuildID[t], file |-> "none", leader |-> None, shared |-> FALSE,
            nil |-> FALSE, err |-> FALSE]

Init ==
    /\ strippable \in SUBSET Mapped
    /\ separate \in [Mapped -> Builds \cup {None}]
    /\ limit \in 1..MaxParallel
    /\ task = [t \in Tasks |-> Idle(t)]
    /\ extracts = [b \in Builds |-> None] /\ uploads = [b \in Builds |-> None]
    /\ tokens = limit
    /\ cache = {}
    /\ found = [b \in Mapped |-> "unset"] /\ known = {}
    /\ server = [b \in Builds |-> "none"]
    /\ gone = {} /\ crashed = FALSE /\ failures = 0
    /\ sent = [b \in Builds |-> {}] /\ claimed = {} /\ extracted = [b \in Builds |-> 0]

At(t, at) == task[t].at = at
ID(t) == task[t].id
GoTo(t, at) == task' = [task EXCEPT ![t].at = at]
Stop(t) == task' = [task EXCEPT ![t] = Idle(t)]

\* An error or a timeout.
Failure == failures < MaxFailures /\ failures' = failures + 1

\* singleflight.Do: the first caller runs the function, the others wait for it.
Lead(t, flight, at, join) ==
    LET leader == flight[ID(t)] IN
    task' = IF leader = None THEN [task EXCEPT ![t].at = at]
            ELSE [task EXCEPT ![t].at = join, ![t].leader = leader]
Run(t, flight) == IF flight[ID(t)] = None THEN [flight EXCEPT ![ID(t)] = t] ELSE flight

\* The function that t runs has returned: t and all who waited for it go on.
Finish(t, join, at, file, err) ==
    LET waiters == {x \in Tasks : At(x, join) /\ task[x].leader = t} IN
    task' = [x \in Tasks |->
      IF x \in waiters \cup {t}
      THEN [task[x] EXCEPT !.at = at, !.file = file, !.leader = None, !.err = err,
                           !.shared = err /\ waiters # {}]
      ELSE task[x]]
Done(t, flight) == IF flight[ID(t)] = t THEN [flight EXCEPT ![ID(t)] = None] ELSE flight
Forget(t, flight) == [flight EXCEPT ![ID(t)] = None]

\* Mutant: an upload that was begun counts as one that is done.
WantedOnce(b) == b \notin cache /\ server[b] = "none"

\* ShouldInitiateUpload: no if the cache or the store has the build ID.
Wanted(b) == b \notin cache /\ server[b] # "uploaded"
Remembered(b) == IF server[b] = "uploaded" THEN cache \cup {b} ELSE cache

-----------------------------------------------------------------------------
(* ensureDebuginfoUploaded and UploadMapping. *)

Check(t) ==
    /\ At(t, "idle") /\ t \notin gone
    /\ \/ /\ Wanted(BuildID[t]) /\ GoTo(t, "open")
          /\ UNCHANGED <<cache, failures>>
       \/ /\ ~Wanted(BuildID[t])
          /\ cache' = Remembered(BuildID[t])
          /\ UNCHANGED <<task, failures>>
       \/ BuildID[t] \notin cache /\ Failure /\ UNCHANGED <<task, cache>>
    /\ UNCHANGED <<flights, env, history>>

\* Pool.Open of the mapped file. What it returns has no DebugFile: the pool hands out
\* copies, so that src.DebugFile of an earlier call is never seen.
OpenSource(t) ==
    /\ At(t, "open")
    /\ \/ GoTo(t, "find") /\ UNCHANGED failures
       \/ t \in gone /\ Stop(t) /\ UNCHANGED failures
       \/ Failure /\ Stop(t)
    /\ UNCHANGED <<flights, cache, env, history>>

\* Finder.Find: the path of a separate debuginfo file below the root of the process.
\* That it was found, or does not exist, is cached by build ID; an error is not.
Find(t) ==
    /\ At(t, "find")
    /\ LET b == BuildID[t]
           path == IF found[b] # "unset" THEN found[b]
                   ELSE IF separate[b] # None /\ t \notin gone THEN t ELSE "none"
       IN \/ /\ found' = [found EXCEPT ![b] = path]
             /\ GoTo(t, IF path = "none" THEN "extract" ELSE "openDebug")
             /\ UNCHANGED failures
          \/ found[b] = "unset" /\ Failure /\ GoTo(t, "extract") /\ UNCHANGED found
    /\ UNCHANGED <<setup, flights, cache, known, server, gone, crashed, history>>

\* Pool.Open of that path. The build ID of the file may differ from that of its source;
\* the pool returns the mapped binary that has it, if there is one that it still has. If
\* Open fails, extracting is next, with HoldOn of the nil pointer deferred.
OpenDebug(t) ==
    /\ At(t, "openDebug")
    /\ LET b == BuildID[t]
           fails == task' = [task EXCEPT ![t].at = "extract", ![t].nil = TRUE] /\ UNCHANGED known
       IN
       \/ /\ found[b] \notin gone \/ b \in known
          /\ \E id \in Builds \cap {separate[b]},
                file \in {"separate"} \cup (IF separate[b] \in Mapped THEN {"source"} ELSE {}) :
               /\ task' = [task EXCEPT ![t].at = "acquire", ![t].id = id, ![t].file = file]
               /\ known' = IF file = "separate" THEN known \cup {b} ELSE known
          /\ UNCHANGED failures
       \/ found[b] \in gone /\ fails /\ UNCHANGED failures
       \/ Failure /\ fails
    /\ UNCHANGED <<setup, flights, cache, found, server, gone, crashed, history>>

\* ExtractOrFind returns, and the deferred HoldOn reads a field of the nil pointer.
Panic(t) ==
    /\ task[t].at \in {"acquire", "noExtract"} /\ task[t].nil
    /\ crashed' = TRUE
    /\ UNCHANGED <<setup, task, flights, cache, found, known, server, gone, failures, history>>

-----------------------------------------------------------------------------
(* Extract. *)

\* A binary that is not to be stripped is uploaded as it is.
Extract(t) ==
    /\ At(t, "extract")
    /\ \/ /\ BuildID[t] \notin strippable
          /\ task' = [task EXCEPT ![t].at = "acquire", ![t].file = "source"]
          /\ UNCHANGED <<extracts, failures>>
       \/ /\ BuildID[t] \in strippable
          /\ Lead(t, extracts, "extracting", "awaitExtract")
          /\ extracts' = Run(t, extracts)
          /\ UNCHANGED failures
       \/ Failure /\ GoTo(t, "noExtract") /\ UNCHANGED extracts
    /\ UNCHANGED <<uploads, tokens, cache, env, history>>

\* extract: the stripped file has the build ID of its source, so Pool.NewFile returns
\* the source if it still has it, and the stripped file only otherwise.
Extracted(t) ==
    /\ At(t, "extracting")
    /\ \E file \in {"source", "stripped"} : Finish(t, "awaitExtract", "acquire", file, FALSE)
    /\ extracts' = Done(t, extracts)
    /\ extracted' = [extracted EXCEPT ![BuildID[t]] = IF @ < 2 THEN @ + 1 ELSE @]
    /\ UNCHANGED <<uploads, tokens, cache, env, failures, sent, claimed>>

ExtractFails(t) ==
    /\ At(t, "extracting")
    /\ Failure
    /\ Finish(t, "awaitExtract", "noExtract", "none", TRUE)
    /\ extracts' = Done(t, extracts)
    /\ UNCHANGED <<uploads, tokens, cache, env, history>>

\* Every caller of a shared extraction that failed forgets the flight of its build ID.
NoExtract(t) ==
    /\ At(t, "noExtract") /\ ~task[t].nil
    /\ extracts' = IF task[t].shared THEN Forget(t, extracts) ELSE extracts
    /\ Stop(t)
    /\ UNCHANGED <<uploads, tokens, cache, env, failures, history>>

-----------------------------------------------------------------------------
(* Upload. *)

Acquire(t) ==
    /\ At(t, "acquire") /\ ~task[t].nil
    /\ \/ tokens > 0 /\ tokens' = tokens - 1 /\ GoTo(t, "do") /\ UNCHANGED failures
       \/ Failure /\ Stop(t) /\ UNCHANGED tokens
    /\ UNCHANGED <<extracts, uploads, cache, env, history>>

\* Mutant: the function runs without looking for a flight.
DoAlone(t) ==
    /\ At(t, "do")
    /\ GoTo(t, "recheck")
    /\ UNCHANGED <<extracts, uploads, tokens, cache, env, failures, history>>

Do(t) ==
    /\ At(t, "do")
    /\ Lead(t, uploads, "recheck", "awaitUpload")
    /\ uploads' = Run(t, uploads)
    /\ UNCHANGED <<extracts, tokens, cache, env, failures, history>>

Uploaded(t, err) ==
    /\ Finish(t, "awaitUpload", "return", task[t].file, err)
    /\ uploads' = Done(t, uploads)

\* upload asks once more whether the store wants it, and takes an error for a no.
Recheck(t) ==
    /\ At(t, "recheck")
    /\ \/ /\ Wanted(ID(t)) /\ GoTo(t, "initiate")
          /\ UNCHANGED <<uploads, cache, failures>>
       \/ /\ ~Wanted(ID(t)) /\ Uploaded(t, FALSE)
          /\ cache' = Remembered(ID(t))
          /\ UNCHANGED failures
       \/ /\ ID(t) \notin cache /\ Failure /\ Uploaded(t, FALSE)
          /\ UNCHANGED cache
    /\ UNCHANGED <<extracts, tokens, env, history>>

\* Mutant: the build ID is cached as soon as the upload is initiated.
InitiateCaches(t) ==
    /\ At(t, "initiate")
    /\ cache' = cache \cup {ID(t)}
    /\ IF server[ID(t)] = "uploaded" THEN Uploaded(t, FALSE) /\ UNCHANGED server
       ELSE /\ server' = [server EXCEPT ![ID(t)] = "uploading"]
            /\ GoTo(t, "send") /\ UNCHANGED uploads
    /\ UNCHANGED <<setup, extracts, tokens, found, known, gone, crashed, failures, history>>

\* InitiateUpload; AlreadyExists counts as uploaded.
Initiate(t) ==
    /\ At(t, "initiate")
    /\ LET b == ID(t) IN
       \/ /\ server[b] = "uploaded" /\ Uploaded(t, FALSE)
          /\ cache' = cache \cup {b}
          /\ UNCHANGED <<server, failures>>
       \/ /\ server[b] # "uploaded" /\ GoTo(t, "send")
          /\ server' = [server EXCEPT ![b] = "uploading"]
          /\ UNCHANGED <<uploads, cache, failures>>
       \/ /\ Failure /\ Uploaded(t, TRUE)
          /\ UNCHANGED <<server, cache>>
    /\ UNCHANGED <<setup, extracts, tokens, found, known, gone, crashed, history>>

\* uploadFile.
Send(t) ==
    /\ At(t, "send")
    /\ \/ /\ GoTo(t, "mark")
          /\ sent' = [sent EXCEPT ![ID(t)] = @ \cup {task[t].file}]
          /\ UNCHANGED <<uploads, failures>>
       \/ Failure /\ Uploaded(t, TRUE) /\ UNCHANGED sent
    /\ UNCHANGED <<extracts, tokens, cache, env, claimed, extracted>>

\* MarkUploadFinished; the store may have noted it although the answer is an error.
Mark(t) ==
    /\ At(t, "mark")
    /\ \/ /\ server' = [server EXCEPT ![ID(t)] = "uploaded"]
          /\ \/ Uploaded(t, FALSE) /\ UNCHANGED failures
             \/ Failure /\ Uploaded(t, TRUE)
       \/ Failure /\ Uploaded(t, TRUE) /\ UNCHANGED server
    /\ UNCHANGED <<setup, extracts, tokens, cache, found, known, gone, crashed, history>>

\* Mutant: the token is released only after a success.
ReturnLeaks(t) ==
    /\ At(t, "return")
    /\ tokens' = IF task[t].err THEN tokens ELSE tokens + 1
    /\ uploads' = IF task[t].err THEN Forget(t, uploads) ELSE uploads
    /\ claimed' = IF task[t].err THEN claimed ELSE claimed \cup {ID(t)}
    /\ Stop(t)
    /\ UNCHANGED <<extracts, cache, env, failures, sent, extracted>>

\* The rest of Upload, for everyone who shared the flight: after an error each of them
\* forgets the flight of the build ID, whoever runs it by then.
Return(t) ==
    /\ At(t, "return")
    /\ tokens' = tokens + 1
    /\ uploads' = IF task[t].err THEN Forget(t, uploads) ELSE uploads
    /\ claimed' = IF task[t].err THEN claimed ELSE claimed \cup {ID(t)}
    /\ Stop(t)
    /\ UNCHANGED <<extracts, cache, env, failures, sent, extracted>>

-----------------------------------------------------------------------------
\* The cache's entries expire.
Expire(b) ==
    /\ b \in cache
    /\ cache' = cache \ {b}
    /\ UNCHANGED <<task, flights, env, failures, history>>

\* A process ends.
Exit(t) ==
    /\ t \notin gone /\ Cardinality(gone) < MaxExits
    /\ gone' = gone \cup {t}
    /\ UNCHANGED <<setup, task, flights, cache, found, known, server, crashed, failures, history>>

Step(t) ==
    \/ Check(t) \/ OpenSource(t) \/ Find(t) \/ OpenDebug(t) \/ Panic(t)
    \/ Extract(t) \/ Extracted(t) \/ ExtractFails(t) \/ NoExtract(t)
    \/ Acquire(t) \/ Do(t) \/ Recheck(t) \/ Initiate(t) \/ Send(t) \/ Mark(t) \/ Return(t)

Next ==
    /\ ~crashed
    /\ \/ \E t \in Tasks : Step(t) \/ Exit(t)
       \/ \E b \in Builds : Expire(b)

\* Processes that run are seen again and again, and every call returns or times out.
\* Waiting for a token is fair: the semaphore serves its callers in order.
Fairness == \A t \in Tasks : WF_vars(~crashed /\ Step(t)) /\ SF_vars(~crashed /\ Acquire(t))

Spec == Init /\ [][Next]_vars
FairSpec == Spec /\ Fairness

-----------------------------------------------------------------------------
(* Properties. *)

Holding == {"do", "awaitUpload", "recheck", "initiate", "send", "mark", "return"}

\* The tasks have their types, and tokens are neither lost nor made: those in use are
\* held by the tasks between Acquire and Release.
TypeOK ==
    /\ task \in [Tasks -> [at : Holding \cup {"idle", "open", "find", "openDebug", "extract", "extracting",
                                             "awaitExtract", "noExtract", "acquire"},
                           id : Builds, file : {"none", "source", "stripped", "separate"},
                           leader : Tasks \cup {None}, shared : BOOLEAN, nil : BOOLEAN, err : BOOLEAN]]
    /\ cache \subseteq Builds /\ known \subseteq Builds
    /\ tokens \in 0..limit
    /\ tokens + Cardinality({t \in Tasks : task[t].at \in Holding}) = limit

\* The cache that stops all further attempts has only what the store has.
CacheIsTrue == \A b \in cache : server[b] = "uploaded"

\* manager.go:72: "Makes sure we do not try to upload the same buildID simultaneously";
\* manager_test.go:299: "there should be only one upload in flight".
UploadsExclusive ==
    \A t, u \in Tasks : ID(t) = ID(u) /\ At(t, "send") /\ At(u, "send") => t = u

\* manager.go:147: "If the debuginfo file has not been uploaded yet, it will be
\* uploaded.": UploadMapping that returns no error leaves the build ID with the store.
SuccessMeansUploaded == \A b \in claimed : server[b] = "uploaded"

\* As long as nothing has failed both hold: no two uploads of a build ID go on at once,
\* and every upload that was reported to have succeeded has reached the store.
HealthyUploads == failures = 0 => UploadsExclusive /\ SuccessMeansUploaded

\* Once errors stop, and unless a panic ends the agent, the debug information of a process
\* that keeps running is uploaded: under the build ID of the mapping, or under that of the
\* separate file, for which ensureDebuginfoUploaded never asks.
HasDebuginfo(b) == \E id \in {b, separate[b]} \ {None} : server[id] = "uploaded"
RunningIsUploaded == \A t \in Tasks : <>(crashed \/ t \in gone \/ HasDebuginfo(BuildID[t]))

-----------------------------------------------------------------------------
(* Statements of the repository that the code does not live up to. *)

\* main.go:180: "Only upload information needed for symbolization. If false the exact
\* binary the agent sees will be uploaded unmodified.": with stripping, no binary is.
BinariesStayHere == \A b \in strippable : "source" \notin sent[b]

\* manager.go:177: "If the debuginfo file is already extracted or found, we do not need
\* to do it again."
ExtractedOnce == \A b \in Builds : extracted[b] <= 1

\* manager.go:266: "If we didn't find an external debuginfo file, we continue with
\* striping to create one.": a debuginfo file that cannot be opened is no disaster.
FallsBackToExtract == ~crashed
=============================================================================
