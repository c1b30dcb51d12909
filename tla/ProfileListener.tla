--------------------------- MODULE ProfileListener ---------------------------
(***************************************************************************)
(* profileListener (pkg/agent/matching_profile_listener.go): the profiling *)
(* loop writes profiles through WriteRaw, and the handlers of /query       *)
(* (cmd/parca-agent/main.go) wait in NextMatchingProfile for the next one  *)
(* that matches.                                                           *)
(*                                                                         *)
(* An observer sends on an unbuffered channel while the profiling loop     *)
(* holds the mutex, and a query needs that mutex to remove its observer.   *)
(***************************************************************************)
EXTENDS Naturals, Sequences, Functions

CONSTANTS
    Queries,    \* calls of NextMatchingProfile
    Profiles,   \* profiles the profiling loop writes
    Matching,   \* query |-> the profiles its matchers select
    MaxWriteRaws, \* bound: profiles written in a behaviour
    None

ASSUME ListenerAssumption ==
    /\ Matching \in [Queries -> SUBSET Profiles]
    /\ MaxWriteRaws \in Nat
    /\ None \notin Profiles

VARIABLES
    observers,  \* l.observers, as the queries they belong to
    writer,     \* WriteRaw: [at, profile, i]
    query,      \* NextMatchingProfile: query |-> [at, profile]
    \* History.
    writes,     \* profiles that observeProfile has begun to show, in order
    since       \* query |-> how many of them there were when its observer was added

listener_vars == <<observers, writer, query, writes, since>>

Idle == [at |-> "idle", profile |-> None, i |-> 0]

\* l.omtx: only the profiling loop keeps it over more than one step.
omtxFree == writer.at = "idle"

ListenerInit ==
    /\ observers = <<>>
    /\ writer = Idle
    /\ query = [q \in Queries |-> [at |-> "start", profile |-> None]]
    /\ writes = <<>>
    /\ since = [q \in Queries |-> 0]

-----------------------------------------------------------------------------
(* The profiling loop. *)

\* observeProfile takes the mutex.
ListenerWriteRaw(p) ==
    /\ omtxFree /\ Len(writes) < MaxWriteRaws
    /\ writer' = [at |-> "observe", profile |-> p, i |-> 1]
    /\ writes' = Append(writes, p)
    /\ UNCHANGED <<observers, query, since>>

\* Mutant: every observer is sent the profile.
CallEveryObserver ==
    /\ writer.at = "observe" /\ writer.i <= Len(observers)
    /\ writer' = [writer EXCEPT !.at = "send"]
    /\ UNCHANGED <<observers, query, writes, since>>

\* o.f of the next observer: a profile that matches is to be sent.
CallObserver ==
    /\ writer.at = "observe" /\ writer.i <= Len(observers)
    /\ writer' = IF writer.profile \in Matching[observers[writer.i]]
                 THEN [writer EXCEPT !.at = "send"]
                 ELSE [writer EXCEPT !.i = @ + 1]
    /\ UNCHANGED <<observers, query, writes, since>>

\* Mutant: the query goes on waiting.
SendAndWait ==
    /\ writer.at = "send"
    /\ LET q == observers[writer.i] IN
       /\ query[q].at = "wait"
       /\ query' = [query EXCEPT ![q].profile = writer.profile]
    /\ writer' = [writer EXCEPT !.at = "observe", !.i = @ + 1]
    /\ UNCHANGED <<observers, writes, since>>

\* pCh <- profile, when the query is in its select.
Send ==
    /\ writer.at = "send"
    /\ LET q == observers[writer.i] IN
       /\ query[q].at = "wait"
       /\ query' = [query EXCEPT ![q] = [at |-> "remove", profile |-> writer.profile]]
    /\ writer' = [writer EXCEPT !.at = "observe", !.i = @ + 1]
    /\ UNCHANGED <<observers, writes, since>>

\* All observers were called: the mutex is free and the profile goes on to the
\* batch writer.
FinishWrite ==
    /\ writer.at = "observe" /\ writer.i > Len(observers)
    /\ writer' = Idle
    /\ UNCHANGED <<observers, query, writes, since>>

-----------------------------------------------------------------------------
(* A query. *)

\* observe adds an observer under the mutex.
Observe(q) ==
    /\ query[q].at = "start" /\ omtxFree
    /\ observers' = Append(observers, q)
    /\ query' = [query EXCEPT ![q].at = "wait"]
    /\ since' = [since EXCEPT ![q] = Len(writes)]
    /\ UNCHANGED <<writer, writes>>

\* ctx.Done(): the timeout of the HTTP handler, or its client has gone.
Timeout(q) ==
    /\ query[q].at = "wait"
    /\ query' = [query EXCEPT ![q].at = "remove"]
    /\ UNCHANGED <<observers, writer, writes, since>>

\* Mutant: the channel is closed without removing the observer.
CloseOnly(q) ==
    /\ query[q].at = "remove"
    /\ query' = [query EXCEPT ![q].at = "done"]
    /\ UNCHANGED <<observers, writer, writes, since>>

\* l.observers without its first element that is q, if it has one.
Without(list, q) ==
    LET at == {i \in DOMAIN list : list[i] = q}
        first == CHOOSE i \in at : \A j \in at : i <= j
    IN IF at = {} THEN list ELSE SubSeq(list, 1, first - 1) \o SubSeq(list, first + 1, Len(list))

\* The deferred calls: removeObserver under the mutex, then close(pCh).
RemoveObserver(q) ==
    /\ query[q].at = "remove" /\ omtxFree
    /\ observers' = Without(observers, q)
    /\ query' = [query EXCEPT ![q].at = "done"]
    /\ UNCHANGED <<writer, writes, since>>

\* The handler has answered; the next query with these matchers.
Again(q) ==
    /\ query[q].at = "done"
    /\ query' = [query EXCEPT ![q] = [at |-> "start", profile |-> None]]
    /\ UNCHANGED <<observers, writer, writes, since>>

Write == CallObserver \/ Send \/ FinishWrite
Step(q) == Observe(q) \/ RemoveObserver(q)

ListenerNext ==
    \/ \E p \in Profiles : ListenerWriteRaw(p)
    \/ Write
    \/ \E q \in Queries : Step(q) \/ Timeout(q) \/ Again(q)

\* The profiling loop and the handlers go on, and every context ends.
ListenerFairness ==
    /\ WF_listener_vars(Write)
    /\ \A q \in Queries : SF_listener_vars(Step(q)) /\ WF_listener_vars(Timeout(q))

ListenerSpec == ListenerInit /\ [][ListenerNext]_listener_vars
FairListenerSpec == ListenerSpec /\ ListenerFairness

-----------------------------------------------------------------------------
(* Properties. *)

\* The observers, the call of WriteRaw and the queries have their types, and the loop
\* of observeProfile stays within the list it iterates over.
ListenerTypeOK ==
    /\ observers \in Seq(Queries)
    /\ writer \in [at : {"idle", "observe", "send"}, profile : Profiles \cup {None}, i : Nat]
    /\ query \in [Queries -> [at : {"start", "wait", "remove", "done"},
                              profile : Profiles \cup {None}]]
    /\ writer.i <= Len(observers) + 1
    /\ writer.at = "send" => writer.i \in DOMAIN observers
    /\ writes \in Seq(Profiles) /\ since \in [Queries -> Nat]

\* No observer outlives its call of NextMatchingProfile, so that none can send on a
\* closed channel (which panics) and none is left behind in the list.
ObserversAreOpen ==
    /\ \A i \in 1..Len(observers) : query[observers[i]].at \in {"wait", "remove"}
    /\ \A q \in Queries : query[q].at \in {"wait", "remove"} => q \in Range(observers)
    /\ IsInjective(observers)

\* What a query returns is the first matching profile written since its observer was
\* added: none is skipped, whatever the other queries do.
AnswerIsNextMatch ==
    \A q \in Queries : query[q].profile # None =>
      \E n \in (since[q] + 1)..Len(writes) :
        /\ writes[n] = query[q].profile /\ writes[n] \in Matching[q]
        /\ \A m \in (since[q] + 1)..(n - 1) : writes[m] \notin Matching[q]

\* A query that is still waiting has missed no match, but for the profile that is
\* being shown right now.
NoMatchMissed ==
    \A q \in Queries : query[q].at = "wait" =>
      \A n \in (since[q] + 1)..Len(writes) :
        writes[n] \in Matching[q] => n = Len(writes) /\ writer.at # "idle"

-----------------------------------------------------------------------------
(* A statement of the repository that the code does not live up to. *)

\* README.md:40: the profile "will be rendered once the collection finishes (this can
\* take up to 10 seconds)", and main.go gives every query a timeout: a query that
\* waits does end.
QueriesEnd == \A q \in Queries : query[q].at = "wait" ~> query[q].at = "done"
=============================================================================
