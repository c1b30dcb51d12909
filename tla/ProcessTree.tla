----------------------------- MODULE ProcessTree -----------------------------
(***************************************************************************)
(* The process tree (pkg/process/tree.go): a cache of parents that answers *)
(* FindAllAncestorProcessIDsInSameCgroup, filled by concurrent queries and *)
(* rebuilt by fullUpdate, while processes start and end and PIDs are used  *)
(* again.                                                                  *)
(*                                                                         *)
(* Every read of procfs is a step, so that processes change between any    *)
(* two of them. PID 1 is init and never ends.                              *)
(***************************************************************************)
EXTENDS Naturals, Sequences, FiniteSets, Functions

CONSTANTS
    PIDs,      \* PIDs, a subset of Nat \ {0} with 1 in it
    Cgroups,   \* container cgroups
    InitProc,  \* the processes when the agent starts
    Queries,   \* concurrent callers
    Asked,     \* PIDs that are asked for
    MaxStarts, \* bound: starttime of the last process that is forked
    MaxExits,  \* bound: processes that end
    MaxPath,   \* bound: steps up the tree that a query takes
    NilMap     \* t.tree after updateTree returned an error

Dead == [start |-> 0, parent |-> 0, cg |-> CHOOSE c \in Cgroups : TRUE]
Procs == [start : 0..MaxStarts, parent : PIDs \cup {0}, cg : Cgroups]
Entries == [start : 1..MaxStarts, parent : PIDs \cup {0}]

ASSUME TreeAssumption ==
    /\ PIDs \subseteq Nat \ {0} /\ 1 \in PIDs /\ Asked \subseteq PIDs
    /\ InitProc \in [PIDs -> Procs]
    /\ InitProc[1].start # 0 /\ InitProc[1].parent = 0
    /\ \A p \in PIDs : InitProc[p] = Dead \/ InitProc[p].start # 0
    /\ \A p \in PIDs \ {1} : InitProc[p].start # 0 =>
          InitProc[p].parent \in PIDs /\ InitProc[InitProc[p].parent].start # 0
    /\ \A D \in SUBSET PIDs : NilMap \notin [D -> Entries]
    /\ MaxStarts \in Nat /\ MaxExits \in Nat /\ MaxPath \in Nat

VARIABLES
    proc,       \* procfs: PID |-> [start, parent, cg], start 0 if there is none
    clock,      \* starttime of the last process
    exits,      \* processes that have ended
    tree,       \* t.tree: a partial function to [start, parent], or NilMap
    scheduled,  \* fullUpdateScheduleCh holds its one element
    update,     \* fullUpdate: [at, keys, pk, new]
    query,      \* FindAllAncestorProcessIDsInSameCgroup: caller |-> [at, pid, p, path, cg, i, res]
    crashed,    \* a panic ended the agent
    \* History.
    facts,      \* <<PID, starttime, parent>> that were true at some time
    outdated,   \* something that the agent had read became false while it had it
    truth       \* caller |-> the ancestors it had in its cgroup at some time of its query

world == <<proc, clock, exits>>
agent == <<tree, scheduled, update, query, crashed>>
tree_vars == <<proc, clock, exits, tree, scheduled, update, query, crashed, facts, outdated, truth>>

Known == IF tree = NilMap THEN {} ELSE DOMAIN tree
Alive(pid) == proc[pid].start # 0
Entry(pid) == [start |-> proc[pid].start, parent |-> proc[pid].parent]

\* All ancestors of a process: the least set that has its parent and theirs.
Above(ps, pid) ==
    {a \in PIDs : \A S \in SUBSET PIDs :
        (\A p \in S \cup {pid} : ps[p].parent \in S \cup {0}) => a \in S}

\* Those in its cgroup, each with the ones that are further up.
SameCgroup(ps, pid) ==
    LET same == {a \in Above(ps, pid) : ps[a].cg = ps[pid].cg}
    IN [a \in same |-> same \cap Above(ps, a)]

Facts(ps) == {<<pid, ps[pid].start, ps[pid].parent>> : pid \in {p \in PIDs : ps[p].start # 0}}

\* What the agent has read and will still use: the tree, the next tree, and what the
\* queries have found so far.
Has(map) == IF map = NilMap THEN {} ELSE {<<pid, map[pid].start, map[pid].parent>> : pid \in DOMAIN map}
Reads(q) == query[q].at \in {"check", "cached", "ancestors", "cgroups", "ancestorCgroups"}
Seen(q) ==
    {<<query[q].pid, query[q].p.start, query[q].p.parent>>} \cup
    {<<query[q].path[k].pid, query[q].path[k].start, query[q].path[k].parent>> : k \in DOMAIN query[q].path}
Held == Has(tree) \cup Has(update.new) \cup UNION {Seen(q) : q \in {q \in Queries : Reads(q)}}

NoQuery == [at |-> "idle", pid |-> 0, p |-> [start |-> 0, parent |-> 0], path |-> <<>>,
         cg |-> Dead.cg, i |-> 1, res |-> <<>>]
Over == {"idle", "done", "failed"}
Resting == [at |-> "wait", keys |-> {}, pk |-> 0, new |-> <<>>]

TreeInit ==
    /\ proc = InitProc
    /\ clock = 1 /\ exits = 0
    /\ tree = <<>>
    /\ scheduled = FALSE
    /\ update = Resting
    /\ query = [q \in Queries |-> NoQuery]
    /\ crashed = FALSE
    /\ facts = Facts(InitProc) /\ outdated = FALSE
    /\ truth = [q \in Queries |-> {}]

-----------------------------------------------------------------------------
(* The kernel. *)

TruthNow ==
    /\ facts' = facts \cup Facts(proc')
    /\ outdated' = (outdated \/ ~(Held \subseteq Facts(proc')))
    /\ truth' = [q \in Queries |->
         IF query[q].at \in Over \/ proc'[query[q].pid].start = 0 THEN truth[q]
         ELSE truth[q] \cup {SameCgroup(proc', query[q].pid)}]

Fork(parent, child, cg) ==
    /\ clock < MaxStarts /\ Alive(parent) /\ ~Alive(child)
    /\ proc' = [proc EXCEPT ![child] = [start |-> clock + 1, parent |-> parent, cg |-> cg]]
    /\ clock' = clock + 1
    /\ TruthNow
    /\ UNCHANGED <<exits, agent>>

\* The children of a process that ends become children of init.
Exit(pid) ==
    /\ pid # 1 /\ Alive(pid) /\ exits < MaxExits
    /\ proc' = [p \in PIDs |->
         IF p = pid THEN Dead
         ELSE IF proc[p].parent = pid THEN [proc[p] EXCEPT !.parent = 1] ELSE proc[p]]
    /\ exits' = exits + 1
    /\ TruthNow
    /\ UNCHANGED <<clock, agent>>

-----------------------------------------------------------------------------
(* A query. *)

Fail(q) == [query EXCEPT ![q] = [NoQuery EXCEPT !.at = "failed"]]

\* t.get: the fast path if the PID is known.
Find(q, pid) ==
    /\ query[q].at \in Over
    /\ query' = [query EXCEPT ![q] = [NoQuery EXCEPT !.pid = pid,
                   !.at = IF pid \in Known THEN "check" ELSE "read",
                   !.p = IF pid \in Known THEN tree[pid] ELSE @]]
    /\ truth' = [truth EXCEPT ![q] = IF Alive(pid) THEN {SameCgroup(proc, pid)} ELSE {}]
    /\ UNCHANGED <<world, tree, scheduled, update, crashed, facts, outdated>>

\* Mutant of Check: a reused PID is read again, and no update is scheduled.
CheckQuietly(q) ==
    /\ query[q].at = "check"
    /\ LET reused == Alive(query[q].pid) /\ proc[query[q].pid].start # query[q].p.start IN
       query' = IF ~Alive(query[q].pid) THEN Fail(q)
                ELSE [query EXCEPT ![q].at = IF reused THEN "read" ELSE "cached"]
    /\ UNCHANGED <<world, tree, scheduled, update, crashed, facts, outdated, truth>>

\* The fast path reads the process: if it started at another time its PID was reused,
\* and a full update is scheduled.
Check(q) ==
    /\ query[q].at = "check"
    /\ LET reused == Alive(query[q].pid) /\ proc[query[q].pid].start # query[q].p.start IN
       /\ query' = IF ~Alive(query[q].pid) THEN Fail(q)
                   ELSE [query EXCEPT ![q].at = IF reused THEN "read" ELSE "cached"]
       /\ scheduled' = (scheduled \/ reused)
    /\ UNCHANGED <<world, tree, update, crashed, facts, outdated, truth>>

\* The process whose parent is to be followed next: the last one found, or the first.
Parent(q) ==
    LET path == query[q].path IN
    IF path = <<>> THEN query[q].p.parent ELSE path[Len(path)].parent

\* An ancestor: its PID and, for the cache, its entry.
Found(pid, e) == [pid |-> pid, start |-> e.start, parent |-> e.parent]

\* ancestorsFromCache: one t.get, until the top or an unknown PID.
Cached(q) ==
    /\ query[q].at = "cached" /\ Len(query[q].path) < MaxPath
    /\ query' = IF Parent(q) \in Known
                THEN [query EXCEPT ![q].path = Append(@, Found(Parent(q), tree[Parent(q)]))]
                ELSE [query EXCEPT ![q].at = "cgroups"]
    /\ UNCHANGED <<world, tree, scheduled, update, crashed, facts, outdated, truth>>

\* The slow path: readProcess of the PID itself.
Read(q) ==
    /\ query[q].at = "read"
    /\ query' = IF Alive(query[q].pid)
                THEN [query EXCEPT ![q].at = "ancestors", ![q].p = Entry(query[q].pid)]
                ELSE Fail(q)
    /\ UNCHANGED <<world, tree, scheduled, update, crashed, facts, outdated, truth>>

\* readAncestors: one readProcess.
ReadAncestor(q) ==
    /\ query[q].at = "ancestors" /\ Parent(q) # 0 /\ Len(query[q].path) < MaxPath
    /\ query' = IF Alive(Parent(q))
                THEN [query EXCEPT ![q].path = Append(@, Found(Parent(q), Entry(Parent(q))))]
                ELSE Fail(q)
    /\ UNCHANGED <<world, tree, scheduled, update, crashed, facts, outdated, truth>>

\* Mutant: every ancestor gets the entry of the process.
RememberFirst(q) ==
    /\ query[q].at = "ancestors" /\ Parent(q) = 0 /\ tree # NilMap
    /\ LET read == {query[q].pid} \cup {query[q].path[i].pid : i \in DOMAIN query[q].path} IN
       tree' = [pid \in Known \cup read |-> IF pid \in read THEN query[q].p ELSE tree[pid]]
    /\ query' = [query EXCEPT ![q].at = "cgroups"]
    /\ UNCHANGED <<world, scheduled, update, crashed, facts, outdated, truth>>

\* readAncestors puts the process and then what it found, in order, in the tree under
\* the lock: the last element of a PID stays. Into a nil map that is a panic.
Remember(q) ==
    /\ query[q].at = "ancestors" /\ Parent(q) = 0
    /\ LET path == <<Found(query[q].pid, query[q].p)>> \o query[q].path
           read == {path[i].pid : i \in DOMAIN path}
       IN \/ tree = NilMap /\ crashed' = TRUE /\ UNCHANGED <<tree, query>>
          \/ /\ tree # NilMap /\ UNCHANGED crashed
             /\ \E last \in [read -> DOMAIN path] :
                  /\ \A pid \in read : path[last[pid]].pid = pid
                  /\ \A i \in DOMAIN path : i <= last[path[i].pid]
                  /\ tree' = [pid \in Known \cup read |->
                       IF pid \in read
                       THEN [start |-> path[last[pid]].start, parent |-> path[last[pid]].parent]
                       ELSE tree[pid]]
             /\ query' = [query EXCEPT ![q].at = "cgroups"]
    /\ UNCHANGED <<world, scheduled, update, facts, outdated, truth>>

\* findAncestorPIDsInSameCgroup: the cgroups of the process, which fails if it has ended.
OwnCgroup(q) ==
    /\ query[q].at = "cgroups"
    /\ query' = IF Alive(query[q].pid)
                THEN [query EXCEPT ![q].at = "ancestorCgroups", ![q].cg = proc[query[q].pid].cg]
                ELSE Fail(q)
    /\ UNCHANGED <<world, tree, scheduled, update, crashed, facts, outdated, truth>>

\* Mutant: the cgroups are not compared.
AncestorCgroupAll(q) ==
    /\ query[q].at = "ancestorCgroups"
    /\ LET a == query[q].path[query[q].i].pid IN
       query' = IF query[q].i > Len(query[q].path) THEN [query EXCEPT ![q].at = "done"]
                ELSE IF ~Alive(a) THEN Fail(q)
                ELSE [query EXCEPT ![q].i = @ + 1, ![q].res = Append(@, a)]
    /\ UNCHANGED <<world, tree, scheduled, update, crashed, facts, outdated, truth>>

\* The cgroups of one ancestor, or the answer.
AncestorCgroup(q) ==
    /\ query[q].at = "ancestorCgroups"
    /\ LET a == query[q].path[query[q].i].pid IN
       query' = IF query[q].i > Len(query[q].path) THEN [query EXCEPT ![q].at = "done"]
                ELSE IF ~Alive(a) THEN Fail(q)
                ELSE [query EXCEPT ![q].i = @ + 1,
                        ![q].res = IF proc[a].cg = query[q].cg THEN Append(@, a) ELSE @]
    /\ UNCHANGED <<world, tree, scheduled, update, crashed, facts, outdated, truth>>

-----------------------------------------------------------------------------
(* Run and fullUpdate. *)

\* After a tick and a request, the PIDs known now are read again.
FullUpdate ==
    /\ update.at = "wait" /\ scheduled
    /\ scheduled' = FALSE
    /\ update' = [at |-> "proc", keys |-> Known, pk |-> 0, new |-> <<>>]
    /\ UNCHANGED <<world, tree, query, crashed, facts, outdated, truth>>

\* updateTree, for the next PID in the order of the map: procfs.Proc.
UpdateProc(pk) ==
    /\ update.at = "proc" /\ pk \in update.keys
    /\ update' = [update EXCEPT !.keys = @ \ {pk}, !.pk = pk,
                                !.at = IF Alive(pk) THEN "stat" ELSE "proc"]
    /\ UNCHANGED <<world, tree, scheduled, query, crashed, facts, outdated, truth>>

\* updateTree: proc.Stat. If the process has ended since, there is an error and no tree.
UpdateStat ==
    /\ update.at = "stat"
    /\ update' = IF Alive(update.pk)
                 THEN [update EXCEPT !.at = "proc",
                        !.new = [p \in DOMAIN @ \cup {update.pk} |->
                                  IF p = update.pk THEN Entry(p) ELSE @[p]]]
                 ELSE [update EXCEPT !.at = "proc", !.keys = {}, !.new = NilMap]
    /\ UNCHANGED <<world, tree, scheduled, query, crashed, facts, outdated, truth>>

StoreTree ==
    /\ update.at = "proc" /\ update.keys = {}
    /\ tree' = update.new
    /\ update' = Resting
    /\ UNCHANGED <<world, scheduled, query, crashed, facts, outdated, truth>>

Answer(q) == Check(q) \/ Cached(q) \/ Read(q) \/ ReadAncestor(q) \/ Remember(q)
               \/ OwnCgroup(q) \/ AncestorCgroup(q)
Update == FullUpdate \/ (\E pk \in PIDs : UpdateProc(pk)) \/ UpdateStat \/ StoreTree

TreeNext ==
    /\ ~crashed
    /\ \/ \E p, c \in PIDs, cg \in Cgroups : Fork(p, c, cg)
       \/ \E p \in PIDs : Exit(p)
       \/ \E q \in Queries : Answer(q) \/ \E pid \in Asked : Find(q, pid)
       \/ Update

\* Run goes on, and so does every query.
Fairness == WF_tree_vars(~crashed /\ Update) /\ \A q \in Queries : WF_tree_vars(~crashed /\ Answer(q))

TreeSpec == TreeInit /\ [][TreeNext]_tree_vars
FairTreeSpec == TreeSpec /\ Fairness

-----------------------------------------------------------------------------
(* Properties. *)

\* The tree, the update and the queries have their types; a panic is the only way to
\* stop, and only without a tree.
TreeTypeOK ==
    /\ tree = NilMap \/ (Known \subseteq PIDs /\ \A p \in Known : tree[p] \in Entries)
    /\ update.at \in {"wait", "proc", "stat"} /\ update.keys \subseteq PIDs
    /\ \A q \in Queries :
         /\ query[q].at \in Over \cup {"check", "cached", "read", "ancestors", "cgroups", "ancestorCgroups"}
         /\ query[q].i \in 1..(Len(query[q].path) + 1)
    /\ crashed => tree = NilMap

\* What the tree says of a PID was true of that PID, with that starttime, at some time:
\* no entry mixes two processes that had the same PID, whichever queries and updates
\* write it.
EntriesWereTrue == \A pid \in Known : <<pid, tree[pid].start, tree[pid].parent>> \in facts

\* An answer is exactly the ancestors in the cgroup of the process, nearest first, as they
\* were at some time during the query.
IsAncestors(q) ==
    \E up \in truth[q] : /\ Range(query[q].res) = DOMAIN up
                         /\ \A i, j \in DOMAIN query[q].res :
                               i < j => query[q].res[j] \in up[query[q].res[i]]

\* An answer is picked from a way up of which every step was true when it was read.
FollowsFacts(q) ==
    LET r == query[q]
        Below(k) == IF k = 1 THEN r.p.parent ELSE r.path[k - 1].parent
    IN /\ <<r.pid, r.p.start, r.p.parent>> \in facts
       /\ \A k \in DOMAIN r.path : /\ <<r.path[k].pid, r.path[k].start, r.path[k].parent>> \in facts
                                   /\ r.path[k].pid = Below(k)
       /\ Range(r.res) \subseteq {r.path[k].pid : k \in DOMAIN r.path}

\* Whatever processes end and PIDs are reused, an answer consists of ancestors that were
\* true when they were cached or read, each of the process it was found from; and until
\* something that the agent has read becomes false it is exactly the ancestors, though
\* other processes start, end and are replaced meanwhile.
AnswersFollowFacts ==
    \A q \in Queries : query[q].at = "done" => FollowsFacts(q) /\ (~outdated => IsAncestors(q))

\* When a query finds that a PID was reused, the entry of the process that is gone
\* leaves the tree: a request that comes while an update is under way is not lost.  This is
\* for one query at a time: another may put back an entry that it read before.
StaleEntriesLeave ==
    \A q \in Queries, pid \in Asked, s \in 1..MaxStarts :
      (query[q].at = "read" /\ query[q].pid = pid /\ query[q].p.start = s)
        ~> (crashed \/ pid \notin Known \/ tree[pid].start # s)

-----------------------------------------------------------------------------
(* Statements of the repository that the code does not live up to. *)

\* tree.go:143: FindAllAncestorProcessIDsInSameCgroup "returns all ancestor process IDs",
\* though the cache may be out of date.
AnswersAreAncestors == \A q \in Queries : query[q].at = "done" => IsAncestors(q)

\* tree.go:113: a full update "cleans up the terminated processes", so a process that
\* terminates does not bring the agent down.
TerminatedAreCleanedUp == ~crashed

\* tree.go:143: FindAllAncestorProcessIDsInSameCgroup "returns": its walk up the cached
\* tree ends, after no more steps than there are PIDs.
WalksEnd == \A q \in Queries : query[q].at = "cached" => Len(query[q].path) <= Cardinality(PIDs)
=============================================================================
