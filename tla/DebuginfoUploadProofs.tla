------------------------ MODULE DebuginfoUploadProofs ------------------------
(* Proofs about DebuginfoUpload, for every finite set of tasks and every limit. *)
EXTENDS DebuginfoUpload, FiniteSetTheorems, TLAPS

USE DEF flights, env, setup, history

Ats == Holding \cup {"idle", "open", "find", "openDebug", "extract", "extracting",
                     "awaitExtract", "noExtract", "acquire"}
Files == {"none", "source", "stripped", "separate"}
TaskState == [at : Ats, id : Builds, file : Files, leader : Tasks \cup {None},
              shared : BOOLEAN, nil : BOOLEAN, err : BOOLEAN]

TypeTask == task \in [Tasks -> TaskState]

TypeEnv ==
    /\ extracts \in [Builds -> Tasks \cup {None}] /\ uploads \in [Builds -> Tasks \cup {None}]
    /\ cache \subseteq Builds /\ known \subseteq Builds
    /\ server \in [Builds -> {"none", "uploading", "uploaded"}]
    /\ failures \in Nat

-----------------------------------------------------------------------------
(* What the steps do to a task. *)

\* The task has moved on to at, without an error.
Placed(t, at) ==
    /\ TypeTask'
    /\ \A x \in Tasks : x # t => task'[x] = task[x]
    /\ task'[t].at = at
    /\ task'[t].err = task[t].err

\* It has, with the file it had.
Moved(t, at) == Placed(t, at) /\ task'[t].id = task[t].id

\* A task moves on.
LEMMA GoToEffect ==
    ASSUME TypeTask, NEW t \in Tasks, NEW a \in Ats, GoTo(t, a)
    PROVE  Moved(t, a) /\ Placed(t, a) /\ task'[t].leader = task[t].leader
  BY DEF TypeTask, TaskState, GoTo, Moved, Placed

\* A task moves on with the file to upload.
LEMMA GoWithFileEffect ==
    ASSUME TypeTask, NEW t \in Tasks, NEW a \in Ats, NEW f \in Files,
           task' = [task EXCEPT ![t].at = a, ![t].file = f]
    PROVE  Placed(t, a)
  BY Zenon DEF TypeTask, TaskState, Placed

\* A task moves on with a file that has another build ID.
LEMMA GoWithIdEffect ==
    ASSUME TypeTask, NEW t \in Tasks, NEW a \in Ats, NEW i \in Builds, NEW f \in Files,
           task' = [task EXCEPT ![t].at = a, ![t].id = i, ![t].file = f]
    PROVE  Placed(t, a)
  BY ZenonT(60) DEF TypeTask, TaskState, Placed

\* A task moves on with the nil pointer.
LEMMA GoWithNilEffect ==
    ASSUME TypeTask, NEW t \in Tasks, NEW a \in Ats,
           task' = [task EXCEPT ![t].at = a, ![t].nil = TRUE]
    PROVE  Placed(t, a)
  BY ZenonT(60) DEF TypeTask, TaskState, Placed

\* An attempt ends.
LEMMA StopEffect ==
    ASSUME TypeTask, NEW t \in Tasks, Stop(t)
    PROVE  /\ TypeTask'
           /\ \A x \in Tasks : x # t => task'[x] = task[x]
           /\ task'[t].at = "idle" /\ task'[t].err = FALSE
  <1>1. Idle(t) \in TaskState
    BY UploadAssumption DEF Idle, TaskState, Ats, Files
  <1> QED
    BY <1>1 DEF TypeTask, Stop, Idle

Led(t, flight, a, join) ==
    /\ TypeTask'
    /\ \A x \in Tasks : x # t => task'[x] = task[x]
    /\ task'[t].err = task[t].err /\ task'[t].id = task[t].id
    /\ \/ flight[ID(t)] = None /\ task'[t].at = a
       \/ /\ flight[ID(t)] # None /\ task'[t].at = join
          /\ task'[t].leader = flight[ID(t)]

\* singleflight.Do: the task runs the function, or waits for the task that does.
LEMMA LeadEffect ==
    ASSUME TypeTask, NEW t \in Tasks, NEW a \in Ats, NEW join \in Ats,
           NEW flight, flight \in [Builds -> Tasks \cup {None}], Lead(t, flight, a, join)
    PROVE  Led(t, flight, a, join)
  <1> USE DEF Led
  <1>1. flight[ID(t)] \in Tasks \cup {None}
    BY DEF TypeTask, TaskState, ID
  <1>2. CASE flight[ID(t)] = None
    BY <1>2 DEF Lead, TypeTask, TaskState
  <1>3. CASE flight[ID(t)] # None
    <2>1. PICK r : r = [task[t] EXCEPT !.at = join, !.leader = flight[ID(t)]]
      OBVIOUS
    <2>2. /\ r \in TaskState /\ r.at = join /\ r.err = task[t].err /\ r.id = task[t].id
          /\ r.leader = flight[ID(t)]
      BY <1>1, <2>1, Zenon DEF TypeTask, TaskState
    <2>3. task' = [task EXCEPT ![t] = r]
      BY <1>3, <2>1, Zenon DEF Lead, TypeTask
    <2> QED
      BY <1>3, <2>2, <2>3 DEF TypeTask
  <1> QED
    BY <1>2, <1>3

\* The flight of the build ID is taken, given back or forgotten; no other is touched.
LEMMA FlightEffect ==
    ASSUME NEW t \in Tasks, ID(t) \in Builds, NEW flight \in [Builds -> Tasks \cup {None}]
    PROVE  /\ Run(t, flight) \in [Builds -> Tasks \cup {None}]
           /\ Done(t, flight) \in [Builds -> Tasks \cup {None}]
           /\ Forget(t, flight) \in [Builds -> Tasks \cup {None}]
           /\ \A b \in Builds : Run(t, flight)[b] =
                 IF b = ID(t) /\ flight[b] = None THEN t ELSE flight[b]
           /\ \A b \in Builds : Done(t, flight)[b] =
                 IF b = ID(t) /\ flight[b] = t THEN None ELSE flight[b]
  BY DEF Run, Done, Forget

Waiters(t, join) == {x \in Tasks : At(x, join) /\ task[x].leader = t}

Finished(t, join, a, e) ==
    /\ TypeTask'
    /\ \A x \in Waiters(t, join) \cup {t} :
          task'[x].at = a /\ task'[x].err = e /\ task'[x].id = task[x].id
    /\ \A x \in Tasks : x \notin Waiters(t, join) \cup {t} => task'[x] = task[x]

\* The function of a flight returns, for the task that ran it and all who waited.
LEMMA FinishEffect ==
    ASSUME TypeTask, NEW t \in Tasks, NEW join, NEW a \in Ats, NEW f \in Files, NEW e \in BOOLEAN,
           Finish(t, join, a, f, e)
    PROVE  Finished(t, join, a, e)
  <1>1. task' = [x \in Tasks |->
           IF x \in Waiters(t, join) \cup {t}
           THEN [task[x] EXCEPT !.at = a, !.file = f, !.leader = None, !.err = e,
                                !.shared = e /\ Waiters(t, join) # {}]
           ELSE task[x]]
    BY Zenon DEF Finish, Waiters
  <1>2. \A x \in Tasks : [task[x] EXCEPT !.at = a, !.file = f, !.leader = None, !.err = e,
                                         !.shared = e /\ Waiters(t, join) # {}] \in TaskState
    BY Zenon DEF TypeTask, TaskState
  <1>3. TypeTask'
    BY <1>1, <1>2, Zenon DEF TypeTask
  <1>4. Waiters(t, join) \subseteq Tasks
    BY DEF Waiters
  <1> QED
    BY <1>1, <1>3, <1>4, ZenonT(60) DEF TypeTask, TaskState, Finished

-----------------------------------------------------------------------------
(* Steps of tasks that hold no token, and the types. *)

Types == TypeTask /\ TypeEnv

\* Only tasks without a token move; an error needs a failure.
Aside ==
    /\ UNCHANGED <<tokens, uploads, server, claimed>>
    /\ \A x \in Tasks :
         \/ task'[x] = task[x]
         \/ /\ task[x].at \notin Holding /\ task'[x].at \notin Holding
            /\ task'[x].err => task[x].err \/ failures' # 0

\* Failures are counted.
LEMMA FailureCounts == ASSUME TypeEnv, Failure PROVE failures' \in Nat /\ failures' # 0
  BY DEF TypeEnv, Failure

\* A task that moves on before it has a token.
LEMMA MovedAside ==
    ASSUME TypeTask, NEW t \in Tasks, NEW a, a \notin Holding, Placed(t, a), task[t].at \notin Holding,
           UNCHANGED <<tokens, uploads, server, claimed>>
    PROVE  TypeTask' /\ Aside
  BY DEF Placed, Aside

\* A task that stops without having had a token.
LEMMA StopAside ==
    ASSUME TypeTask, NEW t \in Tasks, Stop(t), task[t].at \notin Holding,
           UNCHANGED <<tokens, uploads, server, claimed>>
    PROVE  TypeTask' /\ Aside
  <1>1. "idle" \notin Holding
    BY DEF Holding
  <1> QED
    BY <1>1, StopEffect, Zenon DEF Aside

\* The attempts up to Acquire move tasks that hold no token.
LEMMA BeforeUpload ==
    ASSUME Types, NEW t \in Tasks,
           \/ Check(t) \/ OpenSource(t) \/ Find(t) \/ OpenDebug(t) \/ Panic(t)
           \/ Extract(t) \/ Extracted(t) \/ ExtractFails(t) \/ NoExtract(t)
    PROVE  Types' /\ Aside
  <1>0. TypeTask /\ TypeEnv /\ BuildID[t] \in Builds /\ ID(t) \in Builds
    BY UploadAssumption DEF Types, TypeTask, TaskState, ID
  <1>1. CASE UNCHANGED <<task, extracts, uploads, tokens, server, known, failures, claimed, cache>>
    BY <1>0, <1>1 DEF Types, TypeTask, TypeEnv, Aside
  <1>2. CASE Check(t)
    <2>0. UNCHANGED <<extracts, uploads, tokens, server, known, claimed>> /\ task[t].at = "idle"
      BY <1>2 DEF Check, At
    <2>1. CASE GoTo(t, "open") /\ UNCHANGED <<cache, failures>>
      <3>1. Placed(t, "open")
        BY <1>0, <2>1, GoToEffect DEF Ats
      <3>2. TypeTask' /\ Aside
        BY <1>0, <2>0, <3>1, MovedAside DEF Holding
      <3> QED
        BY <1>0, <2>0, <2>1, <3>2 DEF Types, TypeEnv
    <2>2. CASE cache' = Remembered(BuildID[t]) /\ UNCHANGED <<task, failures>>
      <3>1. cache' \subseteq Builds
        BY <1>0, <2>2 DEF Remembered, TypeEnv
      <3> QED
        BY <1>0, <2>0, <2>2, <3>1 DEF Types, TypeTask, TypeEnv, Aside
    <2>3. CASE Failure /\ UNCHANGED <<task, cache>>
      BY <1>0, <2>0, <2>3, FailureCounts DEF Types, TypeTask, TypeEnv, Aside
    <2> QED
      BY <1>2, <2>1, <2>2, <2>3, ZenonT(60) DEF Check
  <1>3. CASE OpenSource(t)
    <2>0. UNCHANGED <<extracts, uploads, tokens, server, known, claimed, cache>> /\ task[t].at = "open"
      BY <1>3 DEF OpenSource, At
    <2>1. failures' \in Nat
      BY <1>0, <1>3, FailureCounts DEF OpenSource, TypeEnv
    <2>2. TypeTask' /\ Aside
      <3>1. CASE GoTo(t, "find")
        BY <1>0, <2>0, <3>1, GoToEffect, MovedAside DEF Ats, Holding
      <3>2. CASE Stop(t)
        BY <1>0, <2>0, <3>2, StopAside DEF Holding
      <3> QED
        BY <1>3, <3>1, <3>2 DEF OpenSource
    <2> QED
      BY <1>0, <2>0, <2>1, <2>2 DEF Types, TypeEnv
  <1>4. CASE Find(t)
    <2>0. UNCHANGED <<extracts, uploads, tokens, server, known, claimed, cache>> /\ task[t].at = "find"
      BY <1>4 DEF Find, At
    <2>1. failures' \in Nat
      BY <1>0, <1>4, FailureCounts DEF Find, TypeEnv
    <2>2. \E a \in {"extract", "openDebug"} : GoTo(t, a)
      BY <1>4 DEF Find
    <2>3. TypeTask' /\ Aside
      BY <1>0, <2>0, <2>2, GoToEffect, MovedAside DEF Ats, Holding
    <2> QED
      BY <1>0, <2>0, <2>1, <2>3 DEF Types, TypeEnv
  <1>5. CASE OpenDebug(t)
    <2>0. /\ UNCHANGED <<extracts, uploads, tokens, server, claimed, cache>>
          /\ task[t].at = "openDebug"
      BY <1>5, Zenon DEF OpenDebug, At
    <2>1. known' \subseteq Builds /\ failures' \in Nat
      BY <1>0, <1>5, FailureCounts, Zenon DEF OpenDebug, TypeEnv
    <2>2. \/ \E id \in Builds, file \in Files :
               task' = [task EXCEPT ![t].at = "acquire", ![t].id = id, ![t].file = file]
          \/ task' = [task EXCEPT ![t].at = "extract", ![t].nil = TRUE]
      <3>1. {"separate"} \cup (IF separate[BuildID[t]] \in Mapped THEN {"source"} ELSE {}) \subseteq Files
        BY DEF Files
      <3> QED
        BY <1>5, <3>1, Zenon DEF OpenDebug
    <2>3. Placed(t, "acquire") \/ Placed(t, "extract")
      <3>1. "acquire" \in Ats /\ "extract" \in Ats
        BY DEF Ats
      <3> QED
        BY <1>0, <2>2, <3>1, GoWithIdEffect, GoWithNilEffect, Zenon
    <2>4. TypeTask' /\ Aside
      BY <1>0, <2>0, <2>3, MovedAside DEF Holding
    <2> QED
      BY <1>0, <2>0, <2>1, <2>4 DEF Types, TypeEnv
  <1>6. CASE Panic(t)
    BY <1>1, <1>6 DEF Panic
  <1>7. CASE Extract(t)
    <2>0. UNCHANGED <<uploads, tokens, server, known, claimed, cache>> /\ task[t].at = "extract"
      BY <1>7 DEF Extract, At
    <2>1. failures' \in Nat
      BY <1>0, <1>7, FailureCounts DEF Extract, TypeEnv
    <2>2. extracts' \in [Builds -> Tasks \cup {None}]
      BY <1>0, <1>7, FlightEffect DEF Extract, TypeEnv
    <2>3. TypeTask' /\ Aside
      <3>1. CASE task' = [task EXCEPT ![t].at = "acquire", ![t].file = "source"]
        BY <1>0, <2>0, <3>1, GoWithFileEffect, MovedAside, Zenon DEF Ats, Files, Holding
      <3>2. CASE Lead(t, extracts, "extracting", "awaitExtract")
        <4>1. /\ TypeTask' /\ (\A x \in Tasks : x # t => task'[x] = task[x])
              /\ task'[t].err = task[t].err /\ task'[t].at \in {"extracting", "awaitExtract"}
          <5>1. /\ "extracting" \in Ats /\ "awaitExtract" \in Ats
                /\ extracts \in [Builds -> Tasks \cup {None}]
            BY <1>0 DEF Ats, TypeEnv
          <5>2. Led(t, extracts, "extracting", "awaitExtract")
            BY <1>0, <3>2, <5>1, LeadEffect
          <5> QED
            BY <5>2 DEF Led
        <4> QED
          BY <2>0, <4>1 DEF Aside, Holding
      <3>3. CASE GoTo(t, "noExtract")
        BY <1>0, <2>0, <3>3, GoToEffect, MovedAside DEF Ats, Holding
      <3> QED
        BY <1>7, <3>1, <3>2, <3>3 DEF Extract
    <2> QED
      BY <1>0, <2>0, <2>1, <2>2, <2>3 DEF Types, TypeEnv
  <1>8. CASE Extracted(t) \/ ExtractFails(t)
    <2>0. UNCHANGED <<uploads, tokens, server, known, claimed, cache>> /\ task[t].at = "extracting"
      BY <1>8, Zenon DEF Extracted, ExtractFails, At
    <2>1. failures' \in Nat
      BY <1>0, <1>8, FailureCounts, Zenon DEF Extracted, ExtractFails, TypeEnv
    <2>2. extracts' \in [Builds -> Tasks \cup {None}]
      <3>1. extracts' = Done(t, extracts) /\ extracts \in [Builds -> Tasks \cup {None}]
        BY <1>0, <1>8, Zenon DEF Extracted, ExtractFails, TypeEnv
      <3> QED
        BY <1>0, <3>1, FlightEffect
    <2>3. \E a \in {"acquire", "noExtract"}, f \in Files, e \in BOOLEAN :
             Finish(t, "awaitExtract", a, f, e) /\ (e => failures' # 0)
      <3>1. CASE Extracted(t)
        BY <3>1, Zenon DEF Extracted, Files
      <3>2. CASE ExtractFails(t)
        BY <1>0, <3>2, FailureCounts, Zenon DEF ExtractFails, Files
      <3> QED
        BY <1>8, <3>1, <3>2
    <2>4. PICK a \in {"acquire", "noExtract"}, f \in Files, e \in BOOLEAN :
             Finish(t, "awaitExtract", a, f, e) /\ (e => failures' # 0)
      BY <2>3
    <2>5. /\ TypeTask'
          /\ \A x \in Waiters(t, "awaitExtract") \cup {t} : task'[x].at = a /\ task'[x].err = e
          /\ \A x \in Tasks : x \notin Waiters(t, "awaitExtract") \cup {t} => task'[x] = task[x]
      <3>1. a \in Ats
        BY DEF Ats
      <3>2. Finished(t, "awaitExtract", a, e)
        BY <1>0, <2>4, <3>1, FinishEffect
      <3> QED
        BY <3>2 DEF Finished
    <2>6. \A x \in Waiters(t, "awaitExtract") \cup {t} : task[x].at \notin Holding
      BY <2>0 DEF Waiters, At, Holding
    <2>7. a \notin Holding
      BY DEF Holding
    <2>8. Aside
      BY <2>0, <2>4, <2>5, <2>6, <2>7, ZenonT(60) DEF Aside
    <2> QED
      BY <1>0, <2>0, <2>1, <2>2, <2>5, <2>8 DEF Types, TypeEnv
  <1>9. CASE NoExtract(t)
    <2>0. UNCHANGED <<uploads, tokens, server, known, claimed, cache, failures>> /\ task[t].at = "noExtract"
      BY <1>9 DEF NoExtract, At
    <2>1. extracts' \in [Builds -> Tasks \cup {None}]
      BY <1>0, <1>9, FlightEffect DEF NoExtract, TypeEnv
    <2>2. TypeTask' /\ Aside
      BY <1>0, <1>9, <2>0, StopAside DEF NoExtract, Holding
    <2> QED
      BY <1>0, <2>0, <2>1, <2>2 DEF Types, TypeEnv
  <1> QED
    BY <1>2, <1>3, <1>4, <1>5, <1>6, <1>7, <1>8, <1>9

-----------------------------------------------------------------------------
(* Steps of tasks that hold a token. *)

SameHolders == \A x \in Tasks : task'[x].at \in Holding <=> task[x].at \in Holding

\* The function of an upload returns: tasks keep their tokens until Return.
LEMMA UploadedEffect ==
    ASSUME Types, NEW t \in Tasks, NEW e \in BOOLEAN, Uploaded(t, e), task[t].at \in Holding
    PROVE  /\ Finished(t, "awaitUpload", "return", e)
           /\ uploads' \in [Builds -> Tasks \cup {None}]
           /\ SameHolders
  <1>0. /\ TypeTask /\ uploads \in [Builds -> Tasks \cup {None}] /\ task[t].file \in Files
        /\ ID(t) \in Builds
    BY DEF Types, TypeEnv, TypeTask, TaskState, ID
  <1>1. uploads' \in [Builds -> Tasks \cup {None}]
    BY <1>0, FlightEffect DEF Uploaded
  <1>2. "return" \in Ats /\ "return" \in Holding /\ "awaitUpload" \in Holding
    BY DEF Ats, Holding
  <1>3. Finish(t, "awaitUpload", "return", task[t].file, e)
    BY DEF Uploaded
  <1>4. Finished(t, "awaitUpload", "return", e)
    BY <1>0, <1>2, <1>3, FinishEffect
  <1>5. \A x \in Waiters(t, "awaitUpload") \cup {t} : task[x].at \in Holding
    BY <1>2 DEF Waiters, At
  <1>6. SameHolders
    BY <1>2, <1>4, <1>5, ZenonT(60) DEF SameHolders, Finished
  <1> QED
    BY <1>1, <1>4, <1>6

\* A task moves on while it holds its token.
LEMMA MovedHolding ==
    ASSUME TypeTask, NEW t \in Tasks, NEW a \in Holding, GoTo(t, a), task[t].at \in Holding
    PROVE  Moved(t, a) /\ SameHolders
  <1>1. a \in Ats
    BY DEF Ats
  <1>2. Moved(t, a)
    BY <1>1, GoToEffect
  <1> QED
    BY <1>2 DEF Moved, Placed, SameHolders

\* The upload itself moves tasks that hold a token, and they keep it.
LEMMA DuringUpload ==
    ASSUME Types, NEW t \in Tasks, Do(t) \/ Recheck(t) \/ Initiate(t) \/ Send(t) \/ Mark(t)
    PROVE  Types' /\ SameHolders /\ UNCHANGED tokens
  <1>0. TypeTask /\ TypeEnv /\ ID(t) \in Builds
    BY DEF Types, TypeTask, TaskState, ID
  <1>1. UNCHANGED <<tokens, extracts, known>>
    BY Zenon DEF Do, Recheck, Initiate, Send, Mark
  <1>2. failures' \in Nat
    BY <1>0, FailureCounts, Zenon DEF Do, Recheck, Initiate, Send, Mark, TypeEnv
  <1>3. cache' \subseteq Builds
    BY <1>0, Zenon DEF Do, Recheck, Initiate, Send, Mark, TypeEnv, Remembered
  <1>4. server' \in [Builds -> {"none", "uploading", "uploaded"}]
    BY <1>0, Zenon DEF Do, Recheck, Initiate, Send, Mark, TypeEnv
  <1>5. task[t].at \in Holding
    BY Zenon DEF Do, Recheck, Initiate, Send, Mark, At, Holding
  <1>6. TypeTask' /\ SameHolders /\ uploads' \in [Builds -> Tasks \cup {None}]
    <2>1. ASSUME NEW e \in BOOLEAN, Uploaded(t, e)
          PROVE  TypeTask' /\ SameHolders /\ uploads' \in [Builds -> Tasks \cup {None}]
      BY <1>5, <2>1, UploadedEffect DEF Finished
    <2>2. ASSUME NEW a \in {"initiate", "send", "mark"}, GoTo(t, a), UNCHANGED uploads
          PROVE  TypeTask' /\ SameHolders /\ uploads' \in [Builds -> Tasks \cup {None}]
      <3>1. a \in Holding
        BY DEF Holding
      <3>2. Moved(t, a) /\ SameHolders
        BY <1>0, <1>5, <2>2, <3>1, MovedHolding
      <3> QED
        BY <1>0, <2>2, <3>2 DEF Moved, Placed, TypeEnv
    <2>3. CASE Do(t)
      <3>1. /\ "recheck" \in Ats /\ "awaitUpload" \in Ats
            /\ uploads \in [Builds -> Tasks \cup {None}]
        BY <1>0 DEF Ats, Holding, TypeEnv
      <3>2. Led(t, uploads, "recheck", "awaitUpload")
        BY <1>0, <2>3, <3>1, LeadEffect DEF Do
      <3>3. uploads' \in [Builds -> Tasks \cup {None}]
        BY <1>0, <2>3, <3>1, FlightEffect DEF Do
      <3>4. TypeTask' /\ (\A x \in Tasks : x # t => task'[x] = task[x]) /\ task'[t].at \in Holding
        BY <3>2 DEF Led, Holding
      <3> QED
        BY <1>5, <3>3, <3>4 DEF SameHolders
    <2> QED
      BY <2>1, <2>2, <2>3, ZenonT(60) DEF Recheck, Initiate, Send, Mark
  <1> QED
    BY <1>0, <1>1, <1>2, <1>3, <1>4, <1>6 DEF Types, TypeEnv

\* Acquire takes a token for the task, or the attempt ends without one.
LEMMA AcquireEffect ==
    ASSUME Types, NEW t \in Tasks, Acquire(t)
    PROVE  /\ Types' /\ task[t].at = "acquire"
           /\ UNCHANGED <<uploads, server, claimed, cache>>
           /\ \/ Aside
              \/ tokens > 0 /\ tokens' = tokens - 1 /\ Moved(t, "do") /\ UNCHANGED failures
  <1>0. /\ TypeTask /\ TypeEnv /\ task[t].at = "acquire"
        /\ UNCHANGED <<extracts, uploads, cache, known, server, claimed>>
    BY DEF Types, Acquire, At
  <1>1. CASE tokens > 0 /\ tokens' = tokens - 1 /\ GoTo(t, "do") /\ UNCHANGED failures
    <2>1. Moved(t, "do")
      BY <1>0, <1>1, GoToEffect DEF Ats, Holding
    <2> QED
      BY <1>0, <1>1, <2>1 DEF Types, TypeEnv, Moved, Placed
  <1>2. CASE Failure /\ Stop(t) /\ UNCHANGED tokens
    <2>1. TypeTask' /\ Aside
      BY <1>0, <1>2, StopAside DEF Holding
    <2> QED
      BY <1>0, <1>2, <2>1, FailureCounts DEF Types, TypeEnv
  <1> QED
    BY <1>1, <1>2 DEF Acquire

\* Return releases the token of the task.
LEMMA ReturnEffect ==
    ASSUME Types, NEW t \in Tasks, Return(t)
    PROVE  /\ Types' /\ task[t].at = "return" /\ tokens' = tokens + 1
           /\ UNCHANGED <<server, cache, failures>>
           /\ \A x \in Tasks : x # t => task'[x] = task[x]
           /\ task'[t].at = "idle" /\ task'[t].err = FALSE
  <1>0. /\ TypeTask /\ TypeEnv /\ task[t].at = "return" /\ tokens' = tokens + 1
        /\ UNCHANGED <<extracts, cache, known, server, failures>> /\ Stop(t) /\ ID(t) \in Builds
    BY DEF Types, Return, At, TypeTask, TaskState, ID
  <1>1. uploads' \in [Builds -> Tasks \cup {None}]
    BY <1>0, FlightEffect DEF Return, TypeEnv
  <1> QED
    BY <1>0, <1>1, StopEffect, Zenon DEF Types, TypeEnv

\* Entries that expire and processes that end move no task.
LEMMA EnvironmentEffect ==
    ASSUME Types, (\E t \in Tasks : Exit(t)) \/ (\E b \in Builds : Expire(b)) \/ UNCHANGED vars
    PROVE  Types' /\ UNCHANGED <<task, tokens, uploads, server, failures, claimed>> /\ cache' \subseteq cache
  BY DEF Types, TypeTask, TypeEnv, Exit, Expire, vars

-----------------------------------------------------------------------------
(* Tokens are neither lost nor made. *)

Holders == {t \in Tasks : task[t].at \in Holding}

TokenInv == tokens \in Nat /\ limit \in Nat /\ tokens + Cardinality(Holders) = limit

\* Steps keep tokens and holders in balance.
LEMMA NextTokens == ASSUME Types, TokenInv, [Next]_vars PROVE Types' /\ TokenInv'
  <1>0. IsFiniteSet(Holders) /\ Cardinality(Holders) \in Nat
    BY UploadAssumption, FS_Subset, FS_CardinalityType DEF Holders
  <1>l. UNCHANGED limit
    BY Zenon DEF Next, Step, Check, OpenSource, Find, OpenDebug, Panic, Extract, Extracted, ExtractFails,
         NoExtract, Acquire, Do, Recheck, Initiate, Send, Mark, Return, Exit, Expire, vars
  <1>1. ASSUME SameHolders, UNCHANGED tokens PROVE TokenInv'
    <2>1. Holders' = Holders
      BY <1>1 DEF Holders, SameHolders
    <2> QED
      BY <1>1, <1>l, <2>1 DEF TokenInv
  <1>2. ASSUME Aside PROVE TokenInv'
    <2>1. SameHolders /\ UNCHANGED tokens
      BY <1>2 DEF Aside, SameHolders
    <2> QED
      BY <1>1, <2>1
  <1>3. ASSUME NEW t \in Tasks, Acquire(t) PROVE Types' /\ TokenInv'
    <2>1. CASE Aside
      BY <1>2, <1>3, <2>1, AcquireEffect
    <2>2. CASE tokens > 0 /\ tokens' = tokens - 1 /\ Moved(t, "do")
      <3>1. task[t].at \notin Holding /\ "do" \in Holding
        BY <1>3, AcquireEffect DEF Holding
      <3>2. t \notin Holders /\ Holders' = Holders \cup {t}
        BY <2>2, <3>1 DEF Holders, Moved, Placed
      <3>3. Cardinality(Holders') = Cardinality(Holders) + 1
        BY <1>0, <3>2, FS_AddElement, Zenon
      <3>4. TokenInv'
        BY <1>0, <1>l, <2>2, <3>3 DEF TokenInv
      <3> QED
        BY <1>3, <3>4, AcquireEffect
    <2> QED
      BY <1>3, <2>1, <2>2, AcquireEffect
  <1>4. ASSUME NEW t \in Tasks, Return(t) PROVE Types' /\ TokenInv'
    <2>1. task[t].at \in Holding /\ task'[t].at \notin Holding
      BY <1>4, ReturnEffect, Zenon DEF Holding
    <2>2. t \in Holders /\ Holders' = Holders \ {t}
      BY <1>4, <2>1, ReturnEffect, Zenon DEF Holders
    <2>3. Cardinality(Holders') = Cardinality(Holders) - 1
      BY <1>0, <2>2, FS_RemoveElement
    <2>4. tokens' = tokens + 1
      BY <1>4, ReturnEffect, Zenon
    <2>5. TokenInv'
      BY <1>0, <1>l, <2>3, <2>4 DEF TokenInv
    <2> QED
      BY <1>4, <2>5, ReturnEffect, Zenon
  <1>5. ASSUME NEW t \in Tasks, Do(t) \/ Recheck(t) \/ Initiate(t) \/ Send(t) \/ Mark(t)
        PROVE  Types' /\ TokenInv'
    BY <1>1, <1>5, DuringUpload
  <1>6. ASSUME NEW t \in Tasks,
               \/ Check(t) \/ OpenSource(t) \/ Find(t) \/ OpenDebug(t) \/ Panic(t)
               \/ Extract(t) \/ Extracted(t) \/ ExtractFails(t) \/ NoExtract(t)
        PROVE  Types' /\ TokenInv'
    BY <1>2, <1>6, BeforeUpload
  <1>7. CASE (\E t \in Tasks : Exit(t)) \/ (\E b \in Builds : Expire(b)) \/ UNCHANGED vars
    <2>1. Types' /\ UNCHANGED <<task, tokens>>
      BY <1>7, EnvironmentEffect
    <2> QED
      BY <1>1, <2>1 DEF SameHolders
  <1> QED
    BY <1>3, <1>4, <1>5, <1>6, <1>7, ZenonT(60) DEF Next, Step

\* The types and the tokens.
LEMMA InductiveTypes == Spec => [](Types /\ TokenInv)
  <1>1. Init => Types /\ TokenInv
    <2> SUFFICES ASSUME Init PROVE Types /\ TokenInv
      OBVIOUS
    <2>1. Types
      BY UploadAssumption DEF Init, Idle, Types, TypeTask, TypeEnv, TaskState, Ats, Files
    <2>2. Holders = {}
      BY DEF Init, Idle, Holders, Holding
    <2>3. Cardinality(Holders) = 0
      BY <2>2, FS_EmptySet
    <2> QED
      BY <2>1, <2>3, UploadAssumption DEF Init, TokenInv
  <1>2. Types /\ TokenInv /\ [Next]_vars => (Types /\ TokenInv)'
    BY NextTokens
  <1> QED
    BY <1>1, <1>2, PTL DEF Spec

\* Whatever fails, times out or is shared, for every finite number of tasks and every limit
\* on parallel uploads: tokens and the tasks between Acquire and Release always make up the
\* limit, so that no failure can use up the upload slots.
THEOREM TypeCorrect == Spec => []TypeOK
  <1>1. Types /\ TokenInv => TypeOK
    <2> SUFFICES ASSUME Types, TokenInv PROVE TypeOK
      OBVIOUS
    <2>1. Cardinality(Holders) \in Nat
      BY UploadAssumption, FS_Subset, FS_CardinalityType DEF Holders
    <2>2. tokens \in 0..limit
      BY <2>1 DEF TokenInv
    <2> QED
      BY <2>2 DEF Types, TypeTask, TypeEnv, TaskState, Ats, Files, TokenInv, Holders, TypeOK
  <1> QED
    BY <1>1, InductiveTypes, PTL

-----------------------------------------------------------------------------
(* What the store has stays there, and the cache knows only of that. *)

ServerKept == \A b \in Builds : server[b] = "uploaded" => server'[b] = "uploaded"

\* No step takes an upload from the store: InitiateUpload of what was uploaded is refused.
LEMMA NextServer == ASSUME Types, [Next]_vars PROVE ServerKept
  <1>0. server \in [Builds -> {"none", "uploading", "uploaded"}] /\ \A t \in Tasks : ID(t) \in Builds
    BY DEF Types, TypeEnv, TypeTask, TaskState, ID
  <1>1. ASSUME UNCHANGED server PROVE ServerKept
    BY <1>1 DEF ServerKept
  <1>2. ASSUME NEW t \in Tasks, Initiate(t) \/ Mark(t) PROVE ServerKept
    <2>1. \/ UNCHANGED server
          \/ server' = [server EXCEPT ![ID(t)] = "uploaded"]
          \/ server[ID(t)] # "uploaded" /\ server' = [server EXCEPT ![ID(t)] = "uploading"]
      BY <1>2, Zenon DEF Initiate, Mark
    <2> QED
      BY <1>0, <2>1 DEF ServerKept
  <1>3. ASSUME NEW t \in Tasks, Step(t) PROVE Initiate(t) \/ Mark(t) \/ UNCHANGED server
    BY <1>3, Zenon DEF Step, Check, OpenSource, Find, OpenDebug, Panic, Extract, Extracted, ExtractFails,
                NoExtract, Acquire, Do, Recheck, Send, Return
  <1>4. ASSUME (\E t \in Tasks : Exit(t)) \/ (\E b \in Builds : Expire(b)) \/ UNCHANGED vars
        PROVE  UNCHANGED server
    BY <1>4 DEF Exit, Expire, vars
  <1> QED
    BY <1>1, <1>2, <1>3, <1>4, ZenonT(60) DEF Next

\* A build ID enters the cache when the store has said that it has it.
LEMMA NextCache ==
    ASSUME Types, [Next]_vars
    PROVE  cache' \subseteq cache \cup {b \in Builds : server[b] = "uploaded"}
  <1>0. \A t \in Tasks : BuildID[t] \in Builds /\ ID(t) \in Builds
    BY UploadAssumption DEF Types, TypeTask, TaskState, ID
  <1>1. ASSUME NEW t \in Tasks, Step(t)
        PROVE  \/ UNCHANGED cache
               \/ \E b \in {BuildID[t], ID(t)} : cache' = Remembered(b)
               \/ server[ID(t)] = "uploaded" /\ cache' = cache \cup {ID(t)}
    BY <1>1, Zenon DEF Step, Check, OpenSource, Find, OpenDebug, Panic, Extract, Extracted, ExtractFails,
                NoExtract, Acquire, Do, Recheck, Initiate, Send, Mark, Return
  <1>2. ASSUME (\E t \in Tasks : Exit(t)) \/ (\E b \in Builds : Expire(b)) \/ UNCHANGED vars
        PROVE  cache' \subseteq cache
    BY <1>2 DEF Exit, Expire, vars
  <1>3. ASSUME NEW t \in Tasks, Step(t)
        PROVE  cache' \subseteq cache \cup {b \in Builds : server[b] = "uploaded"}
    BY <1>0, <1>1, <1>3 DEF Remembered
  <1> QED
    BY <1>2, <1>3 DEF Next

\* For all tasks, failures and exits: shouldInitiateCache, which stops every further
\* attempt for a build ID until it expires, has only build IDs the store has.
THEOREM CacheIsTrueHolds == Spec => []CacheIsTrue
  <1>1. Init => CacheIsTrue
    BY DEF Init, CacheIsTrue
  <1>2. Types /\ CacheIsTrue /\ [Next]_vars => CacheIsTrue'
    <2> SUFFICES ASSUME Types, CacheIsTrue, [Next]_vars PROVE CacheIsTrue'
      OBVIOUS
    <2>1. ServerKept /\ cache' \subseteq cache \cup {b \in Builds : server[b] = "uploaded"}
      BY NextServer, NextCache
    <2>2. cache \subseteq Builds
      BY DEF Types, TypeEnv
    <2> QED
      BY <2>1, <2>2 DEF CacheIsTrue, ServerKept
  <1> QED
    BY <1>1, <1>2, InductiveTypes, PTL DEF Spec

-----------------------------------------------------------------------------
(* Without failures. *)

Running == {"recheck", "initiate", "send", "mark"}

\* A task that runs an upload is the one its flight names, those who wait for it have its
\* build ID, and the store has what an upload that returns was for.
Healthy(t) ==
    /\ ~task[t].err
    /\ task[t].at \in Running => uploads[ID(t)] = t
    /\ task[t].at = "awaitUpload" =>
          /\ task[t].leader \in Tasks
          /\ task[task[t].leader].at \in Running
          /\ task[task[t].leader].id = task[t].id
    /\ task[t].at = "return" => server[ID(t)] = "uploaded"

AllHealthy == (\A t \in Tasks : Healthy(t)) /\ SuccessMeansUploaded

FlightInv ==
    \A b \in Builds : uploads[b] # None => task[uploads[b]].at \in Running /\ task[uploads[b]].id = b

HealthyInv == FlightInv /\ claimed \subseteq Builds /\ (failures = 0 => AllHealthy)

\* A task that runs an upload goes on with it.
StillRuns(u) == task'[u].at \in Running /\ task'[u].id = task[u].id

\* The build IDs of tasks.
LEMMA Identified == ASSUME Types, NEW t \in Tasks PROVE ID(t) \in Builds /\ ID(t) = task[t].id
  BY DEF Types, TypeTask, TaskState, ID

\* Tasks without a token do not disturb one that runs an upload.
LEMMA AsideRuns ==
    ASSUME Aside, NEW u \in Tasks, task[u].at \in Running
    PROVE  StillRuns(u)
  <1>1. task[u].at \in Holding
    BY DEF Running, Holding
  <1> QED
    BY <1>1 DEF Aside, StillRuns

\* The task that runs an upload goes on with it, or its function returns.
LEMMA RunSteps ==
    ASSUME Types, NEW t \in Tasks, Recheck(t) \/ Initiate(t) \/ Send(t) \/ Mark(t)
    PROVE  /\ task[t].at \in Running /\ task[t].at \in Holding /\ UNCHANGED claimed
           /\ \/ \E a \in Running : Moved(t, a) /\ UNCHANGED uploads
              \/ \E e \in BOOLEAN : Uploaded(t, e)
  <1>1. task[t].at \in Running /\ task[t].at \in Holding /\ UNCHANGED claimed
    BY Zenon DEF Recheck, Initiate, Send, Mark, At, Running, Holding
  <1>2. \/ \E a \in Running : GoTo(t, a) /\ UNCHANGED uploads
        \/ \E e \in BOOLEAN : Uploaded(t, e)
    BY Zenon DEF Recheck, Initiate, Send, Mark, Running
  <1>3. ASSUME NEW a \in Running, GoTo(t, a) PROVE Moved(t, a)
    <2>1. a \in Ats /\ TypeTask
      BY DEF Running, Ats, Holding, Types
    <2> QED
      BY <1>3, <2>1, GoToEffect
  <1> QED
    BY <1>1, <1>2, <1>3, Zenon

\* Who else runs an upload when one returns.
LEMMA UploadedRuns ==
    ASSUME Types, NEW t \in Tasks, NEW e \in BOOLEAN, Uploaded(t, e), task[t].at \in Holding,
           NEW u \in Tasks, u # t, task[u].at \in Running
    PROVE  StillRuns(u)
  <1>1. Finished(t, "awaitUpload", "return", e)
    BY UploadedEffect, Zenon
  <1>2. u \notin Waiters(t, "awaitUpload") \cup {t}
    BY DEF Waiters, At, Running
  <1> QED
    BY <1>1, <1>2 DEF Finished, StillRuns

\* A flight is that of a task that runs an upload of the build ID, also after errors.
LEMMA NextFlight == ASSUME Types, FlightInv, [Next]_vars PROVE FlightInv'
  <1>0. uploads \in [Builds -> Tasks \cup {None}] /\ None \notin Tasks
    BY UploadAssumption DEF Types, TypeEnv
  <1>k. ASSUME \A b \in Builds : uploads'[b] # None => uploads'[b] = uploads[b] /\ StillRuns(uploads[b])
        PROVE  FlightInv'
    BY <1>k DEF FlightInv, StillRuns
  <1>1. ASSUME Aside PROVE FlightInv'
    <2>1. ASSUME NEW b \in Builds, uploads[b] # None PROVE StillRuns(uploads[b])
      BY <1>0, <1>1, <2>1, AsideRuns DEF FlightInv
    <2> QED
      BY <1>1, <1>k, <2>1 DEF Aside
  <1>2. ASSUME NEW t \in Tasks,
               \/ Check(t) \/ OpenSource(t) \/ Find(t) \/ OpenDebug(t) \/ Panic(t)
               \/ Extract(t) \/ Extracted(t) \/ ExtractFails(t) \/ NoExtract(t)
        PROVE  FlightInv'
    BY <1>1, <1>2, BeforeUpload
  <1>3. ASSUME NEW t \in Tasks, task[t].at \notin Running, UNCHANGED uploads,
               \A x \in Tasks : x # t => task'[x] = task[x]
        PROVE  FlightInv'
    BY <1>0, <1>3 DEF FlightInv
  <1>4. ASSUME NEW t \in Tasks, Acquire(t) PROVE FlightInv'
    <2>1. task[t].at \notin Running
      BY <1>4, AcquireEffect DEF Running
    <2>2. CASE Moved(t, "do") /\ UNCHANGED uploads
      BY <1>3, <2>1, <2>2 DEF Moved, Placed
    <2> QED
      BY <1>1, <1>4, <2>2, AcquireEffect, Zenon
  <1>5. ASSUME NEW t \in Tasks, Do(t) PROVE FlightInv'
    <2>0. /\ uploads' = Run(t, uploads) /\ task[t].at = "do" /\ TypeTask
          /\ "recheck" \in Ats /\ "awaitUpload" \in Ats /\ ID(t) \in Builds /\ ID(t) = task[t].id
      BY <1>5, Identified DEF Do, At, Types, Ats, Holding
    <2>1. Led(t, uploads, "recheck", "awaitUpload")
      BY <1>0, <1>5, <2>0, LeadEffect DEF Do
    <2>2. \A b \in Builds : uploads'[b] = IF b = ID(t) /\ uploads[b] = None THEN t ELSE uploads[b]
      BY <1>0, <2>0, FlightEffect
    <2>3. ASSUME NEW b \in Builds, uploads'[b] # None
          PROVE  task'[uploads'[b]].at \in Running /\ task'[uploads'[b]].id = b
      <3>1. CASE b = ID(t) /\ uploads[b] = None
        <4>1. task'[t].at = "recheck" /\ task'[t].id = task[t].id
          BY <2>1, <3>1 DEF Led
        <4> QED
          BY <2>0, <2>2, <3>1, <4>1 DEF Running
      <3>2. CASE ~(b = ID(t) /\ uploads[b] = None)
        <4>1. uploads'[b] = uploads[b] /\ uploads[b] \in Tasks /\ task[uploads[b]].at \in Running
          BY <1>0, <2>2, <2>3, <3>2 DEF FlightInv
        <4>2. uploads[b] # t
          BY <2>0, <4>1 DEF Running
        <4> QED
          BY <2>1, <2>3, <4>1, <4>2 DEF Led, FlightInv
      <3> QED
        BY <3>1, <3>2
    <2> QED
      BY <2>3 DEF FlightInv
  <1>6. ASSUME NEW t \in Tasks, Recheck(t) \/ Initiate(t) \/ Send(t) \/ Mark(t) PROVE FlightInv'
    <2>1. ASSUME NEW a \in Running, Moved(t, a), UNCHANGED uploads PROVE FlightInv'
      BY <1>0, <2>1 DEF FlightInv, Moved, Placed
    <2>2. ASSUME NEW e \in BOOLEAN, Uploaded(t, e) PROVE FlightInv'
      <3>1. \A b \in Builds : uploads'[b] = IF b = ID(t) /\ uploads[b] = t THEN None ELSE uploads[b]
        BY <1>0, <2>2, Identified, FlightEffect DEF Uploaded
      <3>2. ASSUME NEW b \in Builds, uploads'[b] # None
            PROVE  uploads'[b] = uploads[b] /\ StillRuns(uploads[b])
        <4>1. uploads'[b] = uploads[b] /\ uploads[b] \in Tasks /\ task[uploads[b]].at \in Running
          BY <1>0, <3>1, <3>2 DEF FlightInv
        <4>2. uploads[b] # t
          BY <3>1, <3>2, Identified DEF FlightInv
        <4>3. task[t].at \in Holding
          BY <1>6, RunSteps
        <4> QED
          BY <2>2, <4>1, <4>2, <4>3, UploadedRuns
      <3> QED
        BY <1>k, <3>2
    <2> QED
      BY <1>6, <2>1, <2>2, RunSteps, Zenon
  <1>7. ASSUME NEW t \in Tasks, Return(t) PROVE FlightInv'
    <2>1. /\ task[t].at \notin Running /\ \A x \in Tasks : x # t => task'[x] = task[x]
      BY <1>7, ReturnEffect DEF Running
    <2>2. \A b \in Builds : uploads'[b] # None => uploads'[b] = uploads[b]
      BY <1>0, <1>7, Identified DEF Return, Forget
    <2> QED
      BY <1>0, <2>1, <2>2 DEF FlightInv
  <1>8. CASE (\E t \in Tasks : Exit(t)) \/ (\E b \in Builds : Expire(b)) \/ UNCHANGED vars
    <2>1. UNCHANGED <<uploads, task>>
      BY <1>8, EnvironmentEffect
    <2> QED
      BY <2>1 DEF FlightInv
  <1> QED
    BY <1>2, <1>4, <1>5, <1>6, <1>7, <1>8, ZenonT(60) DEF Next, Step

\* Failures are never forgotten.
LEMMA NoFailure == ASSUME Types, [Next]_vars, failures' = 0 PROVE failures = 0 /\ ~Failure
  <1>0. TypeEnv
    BY DEF Types
  <1>1. ~Failure
    BY <1>0, FailureCounts
  <1>2. ASSUME NEW t \in Tasks, Step(t) PROVE UNCHANGED failures
    BY <1>1, <1>2, Zenon DEF Step, Check, OpenSource, Find, OpenDebug, Panic, Extract, Extracted,
         ExtractFails, NoExtract, Acquire, Do, Recheck, Initiate, Send, Mark, Return
  <1>3. ASSUME (\E t \in Tasks : Exit(t)) \/ (\E b \in Builds : Expire(b)) \/ UNCHANGED vars
        PROVE  UNCHANGED failures
    BY <1>3 DEF Exit, Expire, vars
  <1> QED
    BY <1>1, <1>2, <1>3 DEF Next

\* What was reported stays true.
LEMMA ClaimsKept == ASSUME Types, SuccessMeansUploaded, ServerKept, UNCHANGED claimed, claimed \subseteq Builds
                    PROVE  SuccessMeansUploaded'
  BY DEF SuccessMeansUploaded, ServerKept

\* A task that others leave alone stays healthy.
LEMMA HealthyKept ==
    ASSUME NEW x \in Tasks, ID(x) \in Builds, Healthy(x), task'[x] = task[x], ServerKept,
           task[x].at \in Running => uploads'[ID(x)] = uploads[ID(x)],
           task[x].at = "awaitUpload" => StillRuns(task[x].leader)
    PROVE  Healthy(x)'
  <1>1. ID(x)' = ID(x)
    BY DEF ID
  <1> QED
    BY <1>1 DEF Healthy, ServerKept, StillRuns

\* So it does when the flights and all who run uploads are left alone.
LEMMA OthersHealthy ==
    ASSUME Types, AllHealthy, ServerKept, NEW x \in Tasks, task'[x] = task[x], UNCHANGED uploads,
           \A u \in Tasks : task[u].at \in Running => StillRuns(u)
    PROVE  Healthy(x)'
  <1>1. Healthy(x) /\ ID(x) \in Builds
    BY Identified DEF AllHealthy
  <1>2. task[x].at = "awaitUpload" => StillRuns(task[x].leader)
    BY <1>1 DEF Healthy
  <1> QED
    BY <1>1, <1>2, HealthyKept

\* Steps without a token.
LEMMA AsideHealthy ==
    ASSUME Types, Aside, AllHealthy, ServerKept, failures' = 0
    PROVE  AllHealthy'
  <1>1. ASSUME NEW x \in Tasks PROVE Healthy(x)'
    <2>1. CASE task'[x] = task[x]
      BY <2>1, OthersHealthy, AsideRuns DEF Aside
    <2>2. CASE task'[x].at \notin Holding /\ (task'[x].err => task[x].err)
      BY <2>2 DEF AllHealthy, Healthy, Holding, Running
    <2> QED
      BY <2>1, <2>2 DEF Aside
  <1>2. SuccessMeansUploaded'
    BY DEF Aside, AllHealthy, SuccessMeansUploaded
  <1> QED
    BY <1>1, <1>2 DEF AllHealthy

\* The task that runs an upload takes its next step.
LEMMA MovedHealthy ==
    ASSUME Types, AllHealthy, ServerKept, NEW t \in Tasks, NEW a \in Running, Moved(t, a),
           task[t].at \in Running, UNCHANGED <<uploads, claimed>>, claimed \subseteq Builds
    PROVE  AllHealthy'
  <1>0. \A u \in Tasks : task[u].at \in Running => StillRuns(u)
    BY DEF Moved, Placed, StillRuns
  <1>1. ASSUME NEW x \in Tasks, x # t PROVE Healthy(x)'
    BY <1>0, <1>1, OthersHealthy DEF Moved, Placed
  <1>2. Healthy(t)'
    BY DEF Moved, Placed, AllHealthy, Healthy, Running, ID
  <1>3. SuccessMeansUploaded'
    BY ClaimsKept DEF AllHealthy
  <1> QED
    BY <1>1, <1>2, <1>3 DEF AllHealthy

\* An upload that the store has returns to all who waited for it.
LEMMA UploadedHealthy ==
    ASSUME Types, AllHealthy, ServerKept, NEW t \in Tasks, Uploaded(t, FALSE), task[t].at \in Running,
           server'[ID(t)] = "uploaded", UNCHANGED claimed, claimed \subseteq Builds
    PROVE  AllHealthy'
  <1>0. uploads \in [Builds -> Tasks \cup {None}] /\ task[t].at \in Holding /\ ID(t) \in Builds
    BY Identified DEF Types, TypeEnv, Running, Holding
  <1>1. Finished(t, "awaitUpload", "return", FALSE)
    BY <1>0, UploadedEffect, Zenon
  <1>2. ASSUME NEW x \in Tasks, x \in Waiters(t, "awaitUpload") \cup {t} PROVE Healthy(x)'
    <2>1. task[x].id = task[t].id
      BY <1>2 DEF Waiters, At, AllHealthy, Healthy
    <2>2. task'[x].at = "return" /\ task'[x].err = FALSE /\ task'[x].id = task[x].id
      BY <1>1, <1>2 DEF Finished
    <2>3. ID(x)' = ID(t)
      BY <2>1, <2>2 DEF ID
    <2> QED
      BY <2>2, <2>3 DEF Healthy, Running
  <1>3. ASSUME NEW x \in Tasks, x \notin Waiters(t, "awaitUpload") \cup {t} PROVE Healthy(x)'
    <2>1. task'[x] = task[x] /\ x # t /\ Healthy(x) /\ ID(x) \in Builds
      BY <1>1, <1>3, Identified DEF Finished, AllHealthy
    <2>2. task[x].at \in Running => uploads'[ID(x)] = uploads[ID(x)]
      BY <1>0, <2>1, FlightEffect DEF Healthy, Uploaded
    <2>3. ASSUME task[x].at = "awaitUpload" PROVE StillRuns(task[x].leader)
      <3>1. task[x].leader \in Tasks /\ task[task[x].leader].at \in Running
        BY <2>1, <2>3 DEF Healthy
      <3>2. task[x].leader # t
        BY <1>3, <2>3 DEF Waiters, At
      <3> QED
        BY <1>0, <3>1, <3>2, UploadedRuns
    <2> QED
      BY <2>1, <2>2, <2>3, HealthyKept
  <1>4. SuccessMeansUploaded'
    BY ClaimsKept DEF AllHealthy
  <1> QED
    BY <1>2, <1>3, <1>4 DEF AllHealthy

\* singleflight.Do: the task runs the upload, or waits for one of its build ID.
LEMMA DoHealthy ==
    ASSUME Types, AllHealthy, FlightInv, ServerKept, NEW t \in Tasks, Do(t), claimed \subseteq Builds
    PROVE  AllHealthy'
  <1>0. /\ uploads \in [Builds -> Tasks \cup {None}] /\ TypeTask /\ ID(t) \in Builds /\ ID(t) = task[t].id
        /\ "recheck" \in Ats /\ "awaitUpload" \in Ats /\ uploads' = Run(t, uploads)
        /\ task[t].at = "do" /\ UNCHANGED claimed
    BY Identified DEF Types, TypeEnv, Ats, Holding, Do, At
  <1>1. Led(t, uploads, "recheck", "awaitUpload")
    BY <1>0, LeadEffect DEF Do
  <1>r. ASSUME NEW u \in Tasks, task[u].at \in Running PROVE StillRuns(u)
    <2>1. u # t
      BY <1>0, <1>r DEF Running
    <2> QED
      BY <1>1, <1>r, <2>1 DEF Led, StillRuns
  <1>i. ID(t)' = ID(t)
    BY <1>1 DEF Led, ID
  <1>2. Healthy(t)'
    <2>1. ~task'[t].err
      BY <1>1 DEF Led, AllHealthy, Healthy
    <2>2. CASE uploads[ID(t)] = None /\ task'[t].at = "recheck"
      <3>1. uploads'[ID(t)] = t
        BY <1>0, <2>2, FlightEffect
      <3> QED
        BY <1>i, <2>1, <2>2, <3>1 DEF Healthy
    <2>3. CASE uploads[ID(t)] # None /\ task'[t].at = "awaitUpload" /\ task'[t].leader = uploads[ID(t)]
      <3>1. uploads[ID(t)] \in Tasks /\ task[uploads[ID(t)]].at \in Running /\ task[uploads[ID(t)]].id = ID(t)
        BY <1>0, <2>3 DEF FlightInv
      <3>2. StillRuns(uploads[ID(t)])
        BY <1>r, <3>1
      <3>3. task'[t].id = ID(t)
        BY <1>0, <1>1 DEF Led
      <3> QED
        BY <2>1, <2>3, <3>1, <3>2, <3>3 DEF Healthy, Running, StillRuns
    <2> QED
      BY <1>1, <2>2, <2>3 DEF Led
  <1>3. ASSUME NEW x \in Tasks, x # t PROVE Healthy(x)'
    <2>1. task'[x] = task[x] /\ Healthy(x) /\ ID(x) \in Builds /\ x # None
      BY <1>1, <1>3, UploadAssumption, Identified DEF Led, AllHealthy
    <2>2. task[x].at \in Running => uploads'[ID(x)] = uploads[ID(x)]
      BY <1>0, <2>1, FlightEffect DEF Healthy
    <2>3. task[x].at = "awaitUpload" => StillRuns(task[x].leader)
      BY <1>r, <2>1 DEF Healthy
    <2> QED
      BY <2>1, <2>2, <2>3, HealthyKept
  <1>4. SuccessMeansUploaded'
    BY <1>0, ClaimsKept DEF AllHealthy
  <1> QED
    BY <1>2, <1>3, <1>4 DEF AllHealthy

\* Steps of the task that runs an upload.
LEMMA RunHealthy ==
    ASSUME Types, AllHealthy, CacheIsTrue, ServerKept, ~Failure, NEW t \in Tasks, claimed \subseteq Builds,
           Recheck(t) \/ Initiate(t) \/ Send(t) \/ Mark(t)
    PROVE  AllHealthy'
  <1>0. /\ task[t].at \in Running /\ TypeTask /\ UNCHANGED claimed /\ ID(t) \in Builds
        /\ server \in [Builds -> {"none", "uploading", "uploaded"}]
    BY RunSteps, Identified, Zenon DEF Types, TypeEnv
  <1>1. ASSUME NEW a \in Running, GoTo(t, a), UNCHANGED uploads PROVE AllHealthy'
    <2>1. Moved(t, a)
      BY <1>0, <1>1, GoToEffect DEF Ats, Holding, Running
    <2> QED
      BY <1>0, <1>1, <2>1, MovedHealthy
  <1>2. ASSUME Uploaded(t, FALSE), server'[ID(t)] = "uploaded" PROVE AllHealthy'
    BY <1>0, <1>2, UploadedHealthy, Zenon
  <1>3. CASE Recheck(t)
    <2>1. ASSUME ~Wanted(ID(t)) PROVE server'[ID(t)] = "uploaded"
      BY <1>3, <2>1 DEF Recheck, Wanted, CacheIsTrue
    <2> QED
      BY <1>1, <1>2, <1>3, <2>1, Zenon DEF Recheck, Running
  <1>4. CASE Initiate(t)
    BY <1>1, <1>2, <1>4, Zenon DEF Initiate, Running
  <1>5. CASE Send(t)
    BY <1>1, <1>5, Zenon DEF Send, Running
  <1>6. CASE Mark(t)
    BY <1>0, <1>2, <1>6, Zenon DEF Mark
  <1> QED
    BY <1>3, <1>4, <1>5, <1>6

\* A task that returns without an error reports an upload that the store has.
LEMMA ReturnHealthy ==
    ASSUME Types, AllHealthy, ServerKept, NEW t \in Tasks, Return(t)
    PROVE  AllHealthy'
  <1>1. /\ task[t].at = "return" /\ ~task[t].err /\ server[ID(t)] = "uploaded"
        /\ UNCHANGED <<uploads, server>> /\ claimed' = claimed \cup {ID(t)}
    BY DEF Return, At, AllHealthy, Healthy
  <1>2. Healthy(t)'
    BY ReturnEffect, Zenon DEF Healthy, Running
  <1>0. ASSUME NEW u \in Tasks, task[u].at \in Running PROVE StillRuns(u)
    <2>1. u # t
      BY <1>0, <1>1 DEF Running
    <2> QED
      BY <1>0, <2>1, ReturnEffect, Zenon DEF StillRuns
  <1>3. ASSUME NEW x \in Tasks, x # t PROVE Healthy(x)'
    <2>1. task'[x] = task[x]
      BY <1>3, ReturnEffect, Zenon
    <2> QED
      BY <1>0, <1>1, <2>1, OthersHealthy
  <1>4. SuccessMeansUploaded'
    BY <1>1 DEF SuccessMeansUploaded, AllHealthy
  <1> QED
    BY <1>2, <1>3, <1>4 DEF AllHealthy

\* A task that has got its token is as healthy as before.
LEMMA AcquireHealthy ==
    ASSUME Types, AllHealthy, ServerKept, failures' = 0, NEW t \in Tasks, Acquire(t)
    PROVE  AllHealthy'
  <1>1. CASE Aside
    BY <1>1, AsideHealthy
  <1>2. CASE Moved(t, "do") /\ UNCHANGED <<uploads, server, claimed>>
    <2>0. \A u \in Tasks : task[u].at \in Running => StillRuns(u)
      <3>1. task[t].at \notin Running
        BY AcquireEffect DEF Running
      <3> QED
        BY <1>2, <3>1 DEF Moved, Placed, StillRuns
    <2>1. Healthy(t)'
      BY <1>2 DEF Moved, Placed, AllHealthy, Healthy, Running
    <2>2. ASSUME NEW x \in Tasks, x # t PROVE Healthy(x)'
      BY <1>2, <2>0, <2>2, OthersHealthy DEF Moved, Placed
    <2>3. SuccessMeansUploaded'
      BY <1>2 DEF SuccessMeansUploaded, AllHealthy
    <2> QED
      BY <2>1, <2>2, <2>3 DEF AllHealthy
  <1> QED
    BY <1>1, <1>2, AcquireEffect

\* Without failures, every step leaves the tasks healthy.
LEMMA NextHealthy ==
    ASSUME Types, CacheIsTrue, HealthyInv, [Next]_vars
    PROVE  HealthyInv'
  <1>1. FlightInv'
    BY NextFlight DEF HealthyInv
  <1>2. claimed' \subseteq Builds
    <2>1. ASSUME NEW t \in Tasks, Step(t) PROVE claimed' \subseteq claimed \cup {ID(t)}
      BY <2>1, Zenon DEF Step, Check, OpenSource, Find, OpenDebug, Panic, Extract, Extracted,
           ExtractFails, NoExtract, Acquire, Do, Recheck, Initiate, Send, Mark, Return
    <2>2. ASSUME (\E t \in Tasks : Exit(t)) \/ (\E b \in Builds : Expire(b)) \/ UNCHANGED vars
          PROVE  claimed' = claimed
      BY <2>2 DEF Exit, Expire, vars
    <2> QED
      BY <2>1, <2>2, Identified DEF Next, HealthyInv
  <1>3. ASSUME failures' = 0 PROVE AllHealthy'
    <2>0. AllHealthy /\ ~Failure /\ ServerKept /\ FlightInv /\ claimed \subseteq Builds
      BY <1>3, NoFailure, NextServer DEF HealthyInv
    <2>1. ASSUME NEW t \in Tasks,
                 \/ Check(t) \/ OpenSource(t) \/ Find(t) \/ OpenDebug(t) \/ Panic(t)
                 \/ Extract(t) \/ Extracted(t) \/ ExtractFails(t) \/ NoExtract(t)
          PROVE  AllHealthy'
      BY <1>3, <2>0, <2>1, BeforeUpload, AsideHealthy
    <2>2. ASSUME NEW t \in Tasks, Acquire(t) PROVE AllHealthy'
      BY <1>3, <2>0, <2>2, AcquireHealthy
    <2>3. ASSUME NEW t \in Tasks, Do(t) PROVE AllHealthy'
      BY <2>0, <2>3, DoHealthy
    <2>4. ASSUME NEW t \in Tasks, Recheck(t) \/ Initiate(t) \/ Send(t) \/ Mark(t) PROVE AllHealthy'
      BY <2>0, <2>4, RunHealthy
    <2>5. ASSUME NEW t \in Tasks, Return(t) PROVE AllHealthy'
      BY <2>0, <2>5, ReturnHealthy
    <2>6. ASSUME (\E t \in Tasks : Exit(t)) \/ (\E b \in Builds : Expire(b)) \/ UNCHANGED vars
          PROVE  AllHealthy'
      <3>1. UNCHANGED <<task, uploads, server, claimed>>
        BY <2>6, EnvironmentEffect
      <3> QED
        BY <2>0, <3>1 DEF AllHealthy, Healthy, SuccessMeansUploaded, ID
    <2> QED
      BY <2>1, <2>2, <2>3, <2>4, <2>5, <2>6, ZenonT(60) DEF Next, Step
  <1> QED
    BY <1>1, <1>2, <1>3 DEF HealthyInv

\* For every number of tasks, build IDs they share and tokens: as long as nothing has
\* failed, no two uploads of a build ID go on at once, although every task reads the store
\* before it joins the flight, and a success that was reported is an upload the store has.
THEOREM HealthyUploadsHold == Spec => []HealthyUploads
  <1>1. Init => HealthyInv
    <2> SUFFICES ASSUME Init PROVE HealthyInv
      OBVIOUS
    <2>1. ASSUME NEW t \in Tasks PROVE ~task[t].err /\ task[t].at = "idle"
      BY DEF Init, Idle
    <2>2. \A t \in Tasks : Healthy(t)
      BY <2>1 DEF Healthy, Running
    <2>3. FlightInv
      BY DEF Init, FlightInv
    <2>4. claimed \subseteq Builds /\ SuccessMeansUploaded
      BY DEF Init, SuccessMeansUploaded
    <2> QED
      BY <2>2, <2>3, <2>4, Zenon DEF HealthyInv, AllHealthy
  <1>2. Types /\ CacheIsTrue /\ HealthyInv /\ [Next]_vars => HealthyInv'
    BY NextHealthy
  <1>3. HealthyInv => HealthyUploads
    <2> SUFFICES ASSUME HealthyInv, failures = 0 PROVE UploadsExclusive /\ SuccessMeansUploaded
      BY DEF HealthyUploads
    <2>1. \A t \in Tasks : At(t, "send") => uploads[ID(t)] = t
      BY DEF HealthyInv, AllHealthy, Healthy, At, Running
    <2> QED
      BY <2>1 DEF HealthyInv, AllHealthy, UploadsExclusive
  <1> QED
    BY <1>1, <1>2, <1>3, InductiveTypes, CacheIsTrueHolds, PTL DEF Spec
=============================================================================
