----------------------------- MODULE EventLoop -----------------------------
(***************************************************************************)
(* The goroutines of the CPU profiler (src/pkg/profiler/cpu/cpu.go) that     *)
(* serve the requests of the BPF program: listenEvents takes them from the   *)
(* perf buffer, hands PIDs to onDemandUnwindInfoBatcher over an unbuffered   *)
(* channel, starts fetches of process information and refreshes mappings;    *)
(* the profiling loop asks for the information of each process it sampled.   *)
(* Composed with InfoManager (ProcessInfo).                                *)
(*                                                                         *)
(* Unwind tables are abstracted to how far the rows of a process have come   *)
(* (UnwindShards has the rest).                                            *)
(***************************************************************************)
EXTENDS ProcessInfo, Sequences

CONSTANTS FramePointers,    \* processes with frame pointers
          Modes,            \* bound: the requests and processes one behaviour is about
          MaxEvents         \* capacity of the perf buffer

Kinds == {"unwind", "mappings", "refresh"}

ASSUME ModesAssumption == \A m \in Modes : m.kinds \subseteq Kinds /\ m.pids \subseteq Pids
ASSUME CapacityAssumption == MaxEvents \in Nat \ {0}

VARIABLES mode,             \* the member of Modes this behaviour is about
          events,           \* the perf buffer: requests <<kind, pid>>
          lost,             \* the kernel has counted lost events
          listener,         \* listenEvents: waiting, sending a PID, or refreshing one
          batcher,          \* onDemandUnwindInfoBatcher: in its select, adding or persisting
          batch,            \* PIDs received since the last callback
          rest,             \* PIDs of the batch that the callback has still to add
          timerOn,
          rows,             \* rows[p]: none, in the in-flight shard only, or in the BPF map
          sampled,          \* processes sampled since the last round of profiling
          round,            \* processes of this round the loop has still to ask for
          owed              \* PIDs handed over whose turn, and PersistUnwindTable after it, is to come

loop_vars == <<sampled, round>>
batch_vars == <<batcher, batch, rest, timerOn, owed>>
vars == <<info_vars, mode, events, lost, listener, batch_vars, rows, loop_vars>>

Waiting == [at |-> "wait"]

TypeOK ==
    /\ InfoTypeOK
    /\ mode \in Modes
    /\ events \in Seq(Kinds \X Pids) /\ Len(events) <= MaxEvents
    /\ lost \in BOOLEAN
    /\ listener \in {Waiting} \cup [at : {"send", "refresh"}, pid : Pids]
    /\ batcher \in {"select", "adding", "persist"}
    /\ rest \subseteq batch /\ batch \subseteq Pids
    /\ timerOn = (batch # {})
    /\ rows \in [Pids -> {"none", "inflight", "persisted"}]
    /\ sampled \subseteq Pids /\ round \subseteq Pids
    /\ owed \subseteq Pids

Init ==
    /\ InfoInit
    /\ mode \in Modes
    /\ events = <<>> /\ lost = FALSE
    /\ listener = Waiting
    /\ batcher = "select" /\ batch = {} /\ rest = {} /\ timerOn = FALSE /\ owed = {}
    /\ rows = [p \in Pids |-> "none"]
    /\ sampled = {} /\ round = {}

-----------------------------------------------------------------------------
(* The BPF program.                                                        *)

\* bpf_perf_event_output; a request the buffer has no room for is lost.  So is one of a kind
\* this behaviour is not about.
Request(k, p) ==
    \/ k \notin mode.kinds /\ UNCHANGED <<events, lost>>
    \/ k \in mode.kinds /\ Len(events) < MaxEvents /\ events' = Append(events, <<k, p>>) /\ UNCHANGED lost
    \/ k \in mode.kinds /\ Len(events) >= MaxEvents /\ lost' = TRUE /\ UNCHANGED events

\* A sample is counted and asks for the mappings, or it asks for what the walk was missing.
SampleProcess(p) ==
    /\ p \in running
    /\ \/ /\ p \in FramePointers \/ rows[p] = "persisted"
          /\ "mappings" \in mode.kinds
          /\ sampled' = sampled \cup {p}
          /\ Request("mappings", p)
       \/ /\ p \notin FramePointers /\ rows[p] # "none"
          /\ Request("refresh", p)
          /\ UNCHANGED sampled
       \/ /\ p \notin FramePointers /\ rows[p] = "none"
          /\ Request("unwind", p)
          /\ UNCHANGED sampled
    /\ UNCHANGED <<info_vars, mode, listener, batch_vars, rows, round>>

-----------------------------------------------------------------------------
(* listenEvents.                                                           *)

Take(k) == listener = Waiting /\ events # <<>> /\ Head(events)[1] = k /\ events' = Tail(events)

TakeUnwind ==
    /\ Take("unwind")
    /\ listener' = [at |-> "send", pid |-> Head(events)[2]]
    /\ UNCHANGED <<info_vars, mode, lost, batch_vars, rows, loop_vars>>

\* go Fetch(pid).  Bound: one of Fetchers is idle.
TakeMappings ==
    /\ Take("mappings")
    /\ \E c \in Fetchers : StartFetch(c, Head(events)[2])
    /\ UNCHANGED <<cache, fetchInProgress, uploadInprogress, running>>
    /\ UNCHANGED <<mode, lost, listener, batch_vars, rows, loop_vars>>

TakeRefresh ==
    /\ Take("refresh")
    /\ listener' = [at |-> "refresh", pid |-> Head(events)[2]]
    /\ UNCHANGED <<info_vars, mode, lost, batch_vars, rows, loop_vars>>

TakeLost ==
    /\ listener = Waiting
    /\ lost
    /\ lost' = FALSE
    /\ UNCHANGED <<info_vars, mode, events, listener, batch_vars, rows, loop_vars>>

\* bpfMaps.addUnwindTableForProcess fails, adds rows to the in-flight shard or finds them in the
\* map already; when shards or process_info are used up it resets everything first or instead.
Added(p) ==
    LET empty == [q \in Pids |-> "none"]
    IN  {rows, empty} \cup {[old EXCEPT ![p] = r] : old \in {rows, empty}, r \in {"inflight", "persisted"}}

\* refreshProcessInfo: new rows only when the process runs and its mappings have changed.
Refresh ==
    /\ listener.at = "refresh"
    /\ listener' = Waiting
    /\ \/ UNCHANGED rows
       \/ /\ listener.pid \in running
          /\ rows' \in Added(listener.pid)
    /\ UNCHANGED <<info_vars, mode, events, lost, batch_vars, loop_vars>>

-----------------------------------------------------------------------------
(* onDemandUnwindInfoBatcher and its callback.                              *)

\* The unbuffered channel: both sides move.
Handover ==
    /\ listener.at = "send"
    /\ batcher = "select"
    /\ listener' = Waiting
    /\ batch' = batch \cup {listener.pid}
    /\ owed' = owed \cup {listener.pid}
    /\ timerOn' = TRUE
    /\ UNCHANGED <<info_vars, mode, events, lost, batcher, rest, rows, loop_vars>>

TimerFires ==
    /\ batcher = "select"
    /\ timerOn
    /\ batcher' = "adding"
    /\ rest' = batch
    /\ UNCHANGED <<info_vars, mode, events, lost, listener, batch, timerOn, owed, rows, loop_vars>>

\* Mutant of AddUnwindTable: the first process without new tables ends the callback.
AddGivesUp(p) ==
    /\ batcher = "adding"
    /\ p \in rest
    /\ \/ /\ p \in running
          /\ rows' = [rows EXCEPT ![p] = "inflight"]
          /\ rest' = rest \ {p}
          /\ UNCHANGED <<batcher, batch, timerOn>>
       \/ /\ UNCHANGED rows
          /\ rest' = {} /\ batch' = {} /\ timerOn' = FALSE
          /\ batcher' = "select"
    /\ UNCHANGED <<info_vars, mode, events, lost, listener, owed, loop_vars>>

\* Mutant of AddUnwindTable: a process is tried until it has tables.
AddRetries(p) ==
    /\ batcher = "adding"
    /\ p \in rest
    /\ p \in running
    /\ rest' = rest \ {p}
    /\ rows' = [rows EXCEPT ![p] = "inflight"]
    /\ UNCHANGED <<info_vars, mode, events, lost, listener, batcher, batch, timerOn, owed, loop_vars>>

\* CPU.addUnwindTableForProcess: nothing for a process with frame pointers, one that has ended or
\* one whose tables exist.
AddUnwindTable(p) ==
    /\ batcher = "adding"
    /\ p \in rest
    /\ rest' = rest \ {p}
    /\ IF p \in running \ FramePointers /\ rows[p] = "none"
       THEN rows' \in Added(p)
       ELSE UNCHANGED rows
    /\ UNCHANGED <<info_vars, mode, events, lost, listener, batcher, batch, timerOn, owed, loop_vars>>

AddingDone ==
    /\ batcher = "adding"
    /\ rest = {}
    /\ batcher' = "persist"
    /\ UNCHANGED <<info_vars, mode, events, lost, listener, batch, rest, timerOn, owed, rows, loop_vars>>

\* PersistUnwindTable writes the in-flight shard; it fails while a reset has to wait.
Persist ==
    /\ batcher = "persist"
    /\ batcher' = "select"
    /\ batch' = {}
    /\ timerOn' = FALSE
    /\ owed' = owed \ batch
    /\ rows' \in {rows, [p \in Pids |-> IF rows[p] = "inflight" THEN "persisted" ELSE rows[p]]}
    /\ UNCHANGED <<info_vars, mode, events, lost, listener, rest, loop_vars>>

-----------------------------------------------------------------------------
(* The profiling loop of Run.                                              *)

\* The ticker: obtainRawData.
Tick ==
    /\ call[Loop].at = "idle"
    /\ round = {}
    /\ sampled # {}
    /\ round' = sampled
    /\ sampled' = {}
    /\ UNCHANGED <<info_vars, mode, events, lost, listener, batch_vars, rows>>

AskInfo ==
    /\ \E p \in round : StartInfo(p)
    /\ UNCHANGED <<cache, fetchInProgress, uploadInprogress, running>>
    /\ UNCHANGED <<mode, events, lost, listener, batch_vars, rows, loop_vars>>

\* Without its information there is no profile.  With it, the profile is converted, labelled and
\* written, unless one of them fails or the labels drop it.
WriteProfile ==
    /\ call[Loop].at = "returned"
    /\ \E end \in {"written", "dropped", "error"} :
          /\ call[Loop].failed => end = "error"
          /\ Goto(Loop, end)
    /\ UNCHANGED <<cache, fetchInProgress, uploadInprogress, running>>
    /\ UNCHANGED <<mode, events, lost, listener, batch_vars, rows, loop_vars>>

NextProcess ==
    /\ call[Loop].at \in {"written", "dropped", "error"}
    /\ round' = round \ {call[Loop].pid}
    /\ call' = [call EXCEPT ![Loop] = Idle]
    /\ UNCHANGED <<cache, fetchInProgress, uploadInprogress, running>>
    /\ UNCHANGED <<mode, events, lost, listener, batch_vars, rows, sampled>>

-----------------------------------------------------------------------------
Others == UNCHANGED <<mode, events, lost, listener, batch_vars, rows, loop_vars>>

Listen == TakeUnwind \/ TakeMappings \/ TakeRefresh \/ TakeLost \/ Refresh \/ Handover
Callback == (\E p \in Pids : AddUnwindTable(p)) \/ AddingDone \/ Persist
Profile == Tick \/ AskInfo \/ WriteProfile \/ NextProcess
Fetch(c) == FetchStep(c) /\ Others
Upload(c, b) == UploadStep(c, b) /\ Others
Info == InfoStep /\ Others

\* A process ends, or is no longer sampled and expires.
Forget(p) == (EndProcess(p) \/ (Expire(p) /\ p \notin sampled \cup round)) /\ Others

Next ==
    \/ \E p \in mode.pids : SampleProcess(p)
    \/ Listen
    \/ TimerFires
    \/ Callback
    \/ Profile
    \/ \E c \in Callers : Fetch(c)
    \/ \E c \in Callers, b \in BuildIDs : Upload(c, b)
    \/ Info
    \/ \E p \in mode.pids : Forget(p)

Spec == Init /\ [][Next]_vars

\* Goroutines that can go on do, timers fire and the debuginfo manager answers (its calls have
\* deadlines); nothing is promised of samples, ends and expiry.
FairSpec ==
    /\ Spec
    /\ WF_vars(Listen)
    /\ WF_vars(TimerFires)
    /\ WF_vars(Callback)
    /\ WF_vars(Profile \/ Info)
    /\ \A c \in Callers : WF_vars(Fetch(c) \/ \E b \in BuildIDs : Upload(c, b))

-----------------------------------------------------------------------------
(* Properties.                                                             *)

\* The marks of InfoManager: no two goroutines are between LoadOrStore and Delete for one PID, in
\* Fetch or in ensureDebuginfoUploaded, and while one is there its mark stands.
OneAtATime ==
    \A c, d \in Callers :
        /\ Fetching(c) => call[c].pid \in fetchInProgress
        /\ Uploading(c) => call[c].pid \in uploadInprogress
        /\ c # d /\ call[c].pid = call[d].pid => ~(Fetching(c) /\ Fetching(d)) /\ ~(Uploading(c) /\ Uploading(d))

\* A PID that listenEvents handed to the batcher gets its call of addUnwindTableForProcess, with
\* one of PersistUnwindTable after it, whatever they return and however many requests keep coming.
RequestsServed == \A p \in Pids : p \in owed ~> p \notin owed

\* listenEvents always gets back to its channels: no request blocks it for good, though it waits
\* for the batcher, which waits for the callback.
ListenerReturns == []<>(listener = Waiting)

\* The files of a process cannot be opened, or its profile is not written though its information
\* is there: errors of the world, which say nothing of the marks and the cache.
OpenFails(p) == \E c \in Callers : call[c].pid = p /\ call[c].at = "unmark" /\ call[c].failed
WriteFails(p) ==
    call[Loop].pid = p /\ (call[Loop].at = "dropped" \/ (call[Loop].at = "error" /\ ~call[Loop].failed))

\* A process that runs on and is sampled in every round has its profiles written again and
\* again, once its files can be opened and its profiles be written: Info cannot fail for ever,
\* though it fails behind another fetch, and whatever failed before.
ProfilesAreWritten ==
    \A p \in Pids :
        <>[](p \in running /\ p \in sampled \cup round /\ ~OpenFails(p) /\ ~WriteFails(p))
            => []<>(call[Loop].at = "written" /\ call[Loop].pid = p)

\* Debug information is offered again with every request for the mappings of a process ("Always
\* try to upload debug information of the discovered object files"): no end of the uploads of
\* a process, and no earlier error, keeps later ones out.
UploadsKeepBeingTried ==
    \A p \in Pids :
        ([]<>(\E c \in Fetchers : call[c].pid = p /\ call[c].at = "fetch") /\ <>[](p \in running /\ ~OpenFails(p)))
            => []<>(\E c \in Callers : call[c].pid = p /\ Uploading(c))

\* "Fetch should have populated the cache" (info.go): when Fetch returns without an error to
\* Info, the process is in the cache.
FetchPopulatesCache == call[Loop].at = "again" => cache[call[Loop].pid] # Missing

\* "Any operation in this block will be executed only once for a given pid" (info.go): the maps of
\* a process whose information is cached are not read again.
FetchedOnce == \A c \in Callers : call[c].at = "maps" => cache[call[c].pid] = Missing
=============================================================================
