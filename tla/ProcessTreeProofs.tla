------------------------- MODULE ProcessTreeProofs --------------------------
(***************************************************************************)
(* Proofs about ProcessTree, for all PIDs, cgroups, queries and bounds: what *)
(* the tree holds was true (FactInv), and queries answer with what they found *)
(* on the way up (WayInv). AncestorProofs goes on with this module's StillInv: *)
(* until something that the agent has read becomes false an answer is right. *)
(***************************************************************************)
EXTENDS ProcessTree, WellFoundedInduction, TLAPS

-----------------------------------------------------------------------------
(* The tree holds facts: the inductive invariant. *)

\* Where a query is until it is over, and what its variables hold.
Stages == {"check", "cached", "read", "ancestors", "cgroups", "ancestorCgroups"}
Ancestor == [pid : PIDs, start : 1..MaxStarts, parent : PIDs \cup {0}]
QueryRecord == [at : Over \cup Stages, pid : PIDs \cup {0},
                p : [start : 0..MaxStarts, parent : PIDs \cup {0}],
                path : Seq(Ancestor), cg : Cgroups, i : Nat \ {0}, res : Seq(PIDs)]
TreeMaps == UNION {[D -> Entries] : D \in SUBSET PIDs}
UpdateRecord == [at : {"wait", "proc", "stat"}, keys : SUBSET PIDs, pk : PIDs \cup {0},
                 new : TreeMaps \cup {NilMap}]

\* An entry that was true at some time, and a map of such entries.
WasTrue(pid, e) == <<pid, e.start, e.parent>> \in facts
MapOfFacts(map) ==
    /\ DOMAIN map \in SUBSET PIDs /\ map \in [DOMAIN map -> Entries]
    /\ \A p \in DOMAIN map : WasTrue(p, map[p])

WorldInv ==
    /\ proc \in [PIDs -> Procs] /\ clock \in Nat /\ exits \in Nat
    /\ Facts(proc) \subseteq facts

UpdateInv ==
    /\ update \in UpdateRecord
    /\ update.at = "stat" => update.pk \in PIDs
    /\ update.new = NilMap \/ MapOfFacts(update.new)
    /\ update.new = NilMap => update.keys = {} /\ update.at = "proc"

\* What a query has, and will put in the tree, was read from procfs or from the tree.
QueryInv(r) ==
    /\ r \in QueryRecord
    /\ r.at \in Stages => r.pid \in PIDs
    /\ r.at \in {"check", "cached", "ancestors"} => r.p \in Entries /\ WasTrue(r.pid, r.p)
    /\ \A k \in DOMAIN r.path : WasTrue(r.path[k].pid, r.path[k])
    /\ r.i <= Len(r.path) + 1

FactInv ==
    /\ WorldInv /\ UpdateInv
    /\ tree = NilMap \/ MapOfFacts(tree)
    /\ query \in [Queries -> QueryRecord] /\ \A q \in Queries : QueryInv(query[q])
    /\ crashed => tree = NilMap

-----------------------------------------------------------------------------
(* Answers: the inductive invariants. *)

\* A process in a state of procfs, and how a walk finds it.
LiveIn(ps, pid) == ps[pid].start # 0
Step(ps, pid) == [pid |-> pid, start |-> ps[pid].start, parent |-> ps[pid].parent]

\* The PID that the walk of a query comes to next, and the one that it came to as its k-th.
Top(r) == IF r.path = <<>> THEN r.p.parent ELSE r.path[Len(r.path)].parent
Before(r, k) == IF k = 1 THEN r.p.parent ELSE r.path[k - 1].parent

\* A query has what it found on the way up from its process, and picks from it.
OnTheWay(r) ==
    /\ r.at \in {"check", "read"} => r.path = <<>>
    /\ r.at \in Stages \ {"ancestorCgroups"} => r.res = <<>>
    /\ r.at \in (Stages \ {"read"}) \cup {"done"} => WasTrue(r.pid, r.p)
    /\ r.at \in Stages \cup {"done"} =>
         /\ \A k \in DOMAIN r.path : r.path[k].pid = Before(r, k)
         /\ Range(r.res) \subseteq {r.path[k].pid : k \in DOMAIN r.path}
WayInv == \A q \in Queries : OnTheWay(query[q])

\* A walk goes from each process to its parent.
Links(ps, r) ==
    \A k \in DOMAIN r.path :
       /\ LiveIn(ps, r.path[k].pid) /\ r.path[k] = Step(ps, r.path[k].pid)
       /\ r.path[k].pid = Before(r, k)

\* So it comes to all the ancestors, one above the other.
PathUp(ps, r) ==
    \A k \in DOMAIN r.path :
       /\ LiveIn(ps, r.path[k].pid) /\ r.path[k] = Step(ps, r.path[k].pid)
       /\ r.path[k].pid = Before(r, k)
       /\ r.path[k].pid \in Above(ps, r.pid)
       /\ \A j \in DOMAIN r.path : j < k => r.path[k].pid \in Above(ps, r.path[j].pid)

\* PIDs in the order of the path that they come from, before its n-th element.
Ordered(res, path, n) ==
    \A i, j \in DOMAIN res : i < j =>
      \E k, m \in DOMAIN path : k < m /\ m < n /\ res[i] = path[k].pid /\ res[j] = path[m].pid

\* findAncestorPIDsInSameCgroup has looked at the ancestors before r.i.
Picked(ps, r) ==
    /\ \A a : a \in Range(r.res) <=>
         \E k \in DOMAIN r.path : k < r.i /\ a = r.path[k].pid /\ ps[a].cg = r.cg
    /\ Ordered(r.res, r.path, r.i)

\* The answer of IsAncestors.
Answered(r, T) ==
    \E up \in T : /\ Range(r.res) = DOMAIN up
                  /\ \A i, j \in DOMAIN r.res : i < j => r.res[j] \in up[r.res[i]]

\* A query in a state of procfs, with the PIDs in the tree and the answers that were right.
StillQuery(ps, known, r, T) ==
    /\ r.at \in {"check", "read"} => r.path = <<>>
    /\ r.at \in Stages \ {"ancestorCgroups"} => r.i = 1 /\ r.res = <<>>
    /\ r.at \in {"check", "cached"} => r.pid \in known
    /\ r.at \in Stages \ {"read"} => /\ LiveIn(ps, r.pid)
                                      /\ r.p = [start |-> ps[r.pid].start, parent |-> ps[r.pid].parent]
    /\ r.at \in Stages => PathUp(ps, r)
    /\ r.at = "cached" => \A k \in DOMAIN r.path : r.path[k].pid \in known
    /\ r.at \in {"cgroups", "ancestorCgroups"} => Top(r) = 0
    /\ r.at = "ancestorCgroups" => r.cg = ps[r.pid].cg /\ Picked(ps, r)
    /\ r.at \in Stages /\ LiveIn(ps, r.pid) => SameCgroup(ps, r.pid) \in T
    /\ r.at = "done" => Answered(r, T)

\* Every parent is running, and the tree is up to date.
StillWorld ==
    /\ Alive(1)
    /\ \A p \in PIDs : Alive(p) => proc[p].parent = 0 \/ Alive(proc[p].parent)
    /\ \A p \in PIDs : ~Alive(p) => proc[p].parent = 0
StillTree ==
    /\ tree # NilMap /\ scheduled = FALSE /\ update = Resting
    /\ \A p \in Known : /\ Alive(p) /\ tree[p] = Entry(p)
                        /\ proc[p].parent \in Known \cup {0}

StillNow ==
    /\ StillWorld /\ StillTree /\ DOMAIN truth = Queries
    /\ \A q \in Queries : StillQuery(proc, Known, query[q], truth[q])

StillInv == ~outdated => StillNow

-----------------------------------------------------------------------------
(* Values. *)

\* There is a cgroup and a record of a process that has ended, the tree starts as a map,
\* and 0, which stands for no parent, is no PID.
LEMMA TreeConstants ==
    /\ Dead.cg \in Cgroups /\ Dead \in Procs /\ Dead.start = 0 /\ Dead.parent = 0
    /\ 0 \notin PIDs /\ MaxStarts \in Nat
    /\ NoQuery \in QueryRecord /\ Resting \in UpdateRecord /\ <<>> \in TreeMaps
  <1>1. InitProc[1] \in Procs /\ 1 \in PIDs
    BY TreeAssumption
  <1>2. \E c : c \in Cgroups
    BY <1>1 DEF Procs
  <1>3. Dead.cg \in Cgroups
    BY <1>2 DEF Dead
  <1>4. Dead \in Procs
    BY <1>3, TreeAssumption DEF Dead, Procs
  <1>5. <<>> \in TreeMaps
    <2>1. <<>> \in [{} -> Entries] /\ {} \in SUBSET PIDs
      OBVIOUS
    <2> QED
      BY <2>1 DEF TreeMaps
  <1>6. NoQuery \in QueryRecord
    BY <1>3, TreeAssumption DEF NoQuery, QueryRecord, Over
  <1>7. Resting \in UpdateRecord
    BY <1>5 DEF Resting, UpdateRecord
  <1> QED
    BY <1>3, <1>4, <1>5, <1>6, <1>7, TreeAssumption DEF Dead

\* NilMap, which updateTree returns with an error, is no map.
LEMMA MapIsNotNil == ASSUME NEW map, MapOfFacts(map) PROVE map # NilMap
  BY TreeAssumption DEF MapOfFacts

\* What procfs says of a process is a fact.
LEMMA EntryWasTrue ==
    ASSUME WorldInv, NEW pid \in PIDs, Alive(pid)
    PROVE  Entry(pid) \in Entries /\ WasTrue(pid, Entry(pid)) /\ Found(pid, Entry(pid)) \in Ancestor
  <1>1. proc[pid] \in Procs /\ proc[pid].start # 0
    BY DEF WorldInv, Alive
  <1>2. proc[pid].start \in 1..MaxStarts /\ proc[pid].parent \in PIDs \cup {0}
    BY <1>1, TreeConstants DEF Procs
  <1>3. <<pid, proc[pid].start, proc[pid].parent>> \in Facts(proc)
    BY <1>1 DEF Facts
  <1> QED
    BY <1>2, <1>3 DEF Entry, Entries, WorldInv, WasTrue, Found, Ancestor

\* A query moves on: the others keep theirs.
LEMMA QueryMoves ==
    ASSUME FactInv, NEW q \in Queries, NEW r, QueryInv(r),
           query' = [query EXCEPT ![q] = r],
           UNCHANGED <<world, tree, update, crashed, facts>>
    PROVE  FactInv'
  <1>1. r \in QueryRecord
    BY DEF QueryInv
  <1>2. query' \in [Queries -> QueryRecord]
    BY <1>1 DEF FactInv
  <1>3. ASSUME NEW d \in Queries PROVE QueryInv(query[d])'
    <2>1. QueryInv(query'[d])
      BY DEF FactInv
    <2> QED
      BY <2>1 DEF QueryInv, WasTrue
  <1>4. WorldInv' /\ UpdateInv'
    BY DEF FactInv, WorldInv, UpdateInv, world, MapOfFacts, WasTrue, Facts
  <1>5. (tree = NilMap \/ MapOfFacts(tree))' /\ (crashed => tree = NilMap)'
    BY DEF FactInv, MapOfFacts, WasTrue
  <1> QED
    BY <1>2, <1>3, <1>4, <1>5, ZenonT(60) DEF FactInv

\* A query that fails.
LEMMA FailedQuery == QueryInv([NoQuery EXCEPT !.at = "failed"])
  <1>1. [NoQuery EXCEPT !.at = "failed"] \in QueryRecord
    BY TreeConstants, Zenon DEF QueryRecord, NoQuery, Over
  <1> QED
    BY <1>1 DEF QueryInv, NoQuery, Stages

\* A query that goes to another stage with what it has.
LEMMA NextStage ==
    ASSUME NEW r, QueryInv(r), r.at \in Stages, NEW a \in Over \cup Stages,
           a \in {"check", "cached", "ancestors"} => r.p \in Entries /\ WasTrue(r.pid, r.p)
    PROVE  QueryInv([r EXCEPT !.at = a])
  <1>1. PICK s : s = [r EXCEPT !.at = a]
    BY Zenon
  <1>2. /\ s \in QueryRecord /\ s.at = a /\ s.pid = r.pid /\ s.p = r.p
        /\ s.path = r.path /\ s.i = r.i
    BY <1>1 DEF QueryInv, QueryRecord
  <1>3. QueryInv(s)
    BY <1>2 DEF QueryInv
  <1> QED
    BY <1>1, <1>3

\* find takes an entry of the tree.
LEMMA FindKeepsFacts ==
    ASSUME FactInv, NEW q \in Queries, NEW pid \in Asked, Find(q, pid)
    PROVE  FactInv'
  <1>1. PICK r : r = [NoQuery EXCEPT !.pid = pid,
                   !.at = IF pid \in Known THEN "check" ELSE "read",
                   !.p = IF pid \in Known THEN tree[pid] ELSE @]
    OBVIOUS
  <1>2. pid \in PIDs
    BY TreeAssumption
  <1>3. pid \in Known => tree[pid] \in Entries /\ WasTrue(pid, tree[pid])
    BY DEF Known, FactInv, MapOfFacts
  <1>4. /\ r.at = IF pid \in Known THEN "check" ELSE "read"
        /\ r.pid = pid /\ r.path = <<>> /\ r.i = 1
        /\ r.p = IF pid \in Known THEN tree[pid] ELSE [start |-> 0, parent |-> 0]
    BY <1>1 DEF NoQuery
  <1>5. r.p \in [start : 0..MaxStarts, parent : PIDs \cup {0}]
    BY <1>3, <1>4, TreeConstants DEF Entries
  <1>6. r \in QueryRecord
    BY <1>1, <1>2, <1>5, TreeConstants, Zenon DEF NoQuery, QueryRecord, Stages
  <1>7. QueryInv(r)
    BY <1>2, <1>3, <1>4, <1>6 DEF QueryInv
  <1> QED
    BY <1>1, <1>7, QueryMoves, Zenon DEF Find

\* findAncestorPIDs compares the entry with procfs, and asks for an update when they differ.
LEMMA CheckKeepsFacts ==
    ASSUME FactInv, NEW q \in Queries, Check(q)
    PROVE  FactInv'
  <1> DEFINE a == IF Alive(query[q].pid) /\ proc[query[q].pid].start # query[q].p.start
                  THEN "read" ELSE "cached"
  <1>1. CASE ~Alive(query[q].pid)
    BY <1>1, FailedQuery, QueryMoves, Zenon DEF Check, Fail
  <1>2. CASE Alive(query[q].pid)
    <2>1. query' = [query EXCEPT ![q] = [query[q] EXCEPT !.at = a]]
      BY <1>2 DEF Check, FactInv
    <2>2. QueryInv([query[q] EXCEPT !.at = a])
      <3>1. QueryInv(query[q]) /\ query[q].at = "check"
        BY DEF FactInv, Check
      <3>2. a \in Stages
        BY DEF Stages
      <3>3. query[q].p \in Entries /\ WasTrue(query[q].pid, query[q].p) /\ query[q].at \in Stages
        BY <3>1 DEF QueryInv, Stages
      <3> HIDE DEF a
      <3> QED
        BY <3>1, <3>2, <3>3, NextStage
    <2> HIDE DEF a
    <2> QED
      BY <2>1, <2>2, QueryMoves, Zenon DEF Check
  <1> QED
    BY <1>1, <1>2

\* The PID whose process is read or looked up next.
LEMMA ParentIsPid ==
    ASSUME FactInv, NEW q \in Queries
    PROVE  Parent(q) \in PIDs \cup {0}
  <1>1. query[q].path \in Seq(Ancestor) /\ query[q].p.parent \in PIDs \cup {0}
    BY DEF FactInv, QueryRecord
  <1>2. CASE query[q].path # <<>>
    <2>1. query[q].path[Len(query[q].path)] \in Ancestor
      BY <1>1, <1>2
    <2> QED
      BY <1>2, <2>1 DEF Parent, Ancestor
  <1> QED
    BY <1>1, <1>2 DEF Parent

\* A query that finds one more ancestor.
LEMMA LongerPath ==
    ASSUME NEW r, QueryInv(r), r.at \in Stages, NEW f \in Ancestor, WasTrue(f.pid, f)
    PROVE  QueryInv([r EXCEPT !.path = Append(@, f)])
  <1>1. PICK s : s = [r EXCEPT !.path = Append(@, f)]
    BY Zenon
  <1>2. r \in QueryRecord /\ r.path \in Seq(Ancestor) /\ r.i \in Nat /\ r.i <= Len(r.path) + 1
    BY DEF QueryInv, QueryRecord
  <1>3. /\ Append(r.path, f) \in Seq(Ancestor) /\ r.i <= Len(Append(r.path, f)) + 1
        /\ \A k \in DOMAIN Append(r.path, f) :
              Append(r.path, f)[k] = f \/ (k \in DOMAIN r.path /\ Append(r.path, f)[k] = r.path[k])
    BY <1>2
  <1>4. /\ s \in QueryRecord /\ s.at = r.at /\ s.pid = r.pid /\ s.p = r.p
        /\ s.path = Append(r.path, f) /\ s.i = r.i
    BY <1>1, <1>2, <1>3, Zenon DEF QueryRecord
  <1>5. \A k \in DOMAIN s.path : WasTrue(s.path[k].pid, s.path[k])
    BY <1>3, <1>4 DEF QueryInv
  <1>6. QueryInv(s)
    BY <1>3, <1>4, <1>5 DEF QueryInv
  <1> QED
    BY <1>1, <1>6

\* findAncestors takes the next process of the walk from the tree.
LEMMA CachedKeepsFacts ==
    ASSUME FactInv, NEW q \in Queries, Cached(q)
    PROVE  FactInv'
  <1>0. QueryInv(query[q]) /\ query[q].at \in Stages
    BY DEF FactInv, Cached, Stages
  <1>1. CASE Parent(q) \in Known
    <2> DEFINE f == Found(Parent(q), tree[Parent(q)])
    <2>1. Parent(q) \in PIDs /\ tree[Parent(q)] \in Entries /\ WasTrue(Parent(q), tree[Parent(q)])
      BY <1>1 DEF Known, FactInv, MapOfFacts
    <2>2. f \in Ancestor /\ WasTrue(f.pid, f)
      BY <2>1 DEF Found, Ancestor, Entries, WasTrue
    <2>3. query' = [query EXCEPT ![q] = [query[q] EXCEPT !.path = Append(@, f)]]
      BY <1>1 DEF Cached, FactInv
    <2> HIDE DEF f
    <2>4. QueryInv([query[q] EXCEPT !.path = Append(@, f)])
      BY <1>0, <2>2, LongerPath
    <2> QED
      BY <2>3, <2>4, QueryMoves, Zenon DEF Cached
  <1>2. CASE Parent(q) \notin Known
    <2>1. query' = [query EXCEPT ![q] = [query[q] EXCEPT !.at = "cgroups"]]
      BY <1>2 DEF Cached, FactInv
    <2>2. QueryInv([query[q] EXCEPT !.at = "cgroups"])
      BY <1>0, NextStage DEF Stages
    <2> QED
      BY <2>1, <2>2, QueryMoves, Zenon DEF Cached
  <1> QED
    BY <1>1, <1>2

\* A process that the tree does not have is read from procfs.
LEMMA ReadKeepsFacts ==
    ASSUME FactInv, NEW q \in Queries, Read(q)
    PROVE  FactInv'
  <1>0. QueryInv(query[q]) /\ query[q].at \in Stages
    BY DEF FactInv, Read, Stages
  <1>1. CASE ~Alive(query[q].pid)
    BY <1>1, FailedQuery, QueryMoves, Zenon DEF Read, Fail
  <1>2. CASE Alive(query[q].pid)
    <2> DEFINE e == Entry(query[q].pid)
    <2>1. query[q].pid \in PIDs
      BY <1>0 DEF QueryInv
    <2>2. e \in Entries /\ WasTrue(query[q].pid, e)
      BY <1>2, <2>1, EntryWasTrue DEF FactInv
    <2>3. query' = [query EXCEPT ![q] = [query[q] EXCEPT !.at = "ancestors", !.p = e]]
      BY <1>2, Zenon DEF Read, FactInv
    <2>4. PICK r : r = [query[q] EXCEPT !.at = "ancestors", !.p = e]
      OBVIOUS
    <2> HIDE DEF e
    <2>5. /\ r \in QueryRecord /\ r.at = "ancestors" /\ r.pid = query[q].pid /\ r.p = e
          /\ r.path = query[q].path /\ r.i = query[q].i
      <3>1. e \in [start : 0..MaxStarts, parent : PIDs \cup {0}]
        BY <2>2, TreeConstants DEF Entries
      <3> QED
        BY <1>0, <2>4, <3>1, Zenon DEF QueryInv, QueryRecord, Stages
    <2>6. QueryInv(r)
      BY <1>0, <2>1, <2>2, <2>5 DEF QueryInv
    <2> QED
      BY <2>3, <2>4, <2>6, QueryMoves, Zenon DEF Read
  <1> QED
    BY <1>1, <1>2

\* readAncestors reads the next process of the walk from procfs.
LEMMA ReadAncestorKeepsFacts ==
    ASSUME FactInv, NEW q \in Queries, ReadAncestor(q)
    PROVE  FactInv'
  <1>0. QueryInv(query[q]) /\ query[q].at \in Stages
    BY DEF FactInv, ReadAncestor, Stages
  <1>1. CASE ~Alive(Parent(q))
    BY <1>1, FailedQuery, QueryMoves, Zenon DEF ReadAncestor, Fail
  <1>2. CASE Alive(Parent(q))
    <2> DEFINE f == Found(Parent(q), Entry(Parent(q)))
    <2>1. Parent(q) \in PIDs
      BY ParentIsPid DEF ReadAncestor
    <2>2. f \in Ancestor /\ WasTrue(Parent(q), Entry(Parent(q)))
      BY <1>2, <2>1, EntryWasTrue DEF FactInv
    <2>3. WasTrue(f.pid, f)
      BY <2>2 DEF WasTrue, Found, Entry
    <2>4. query' = [query EXCEPT ![q] = [query[q] EXCEPT !.path = Append(@, f)]]
      BY <1>2 DEF ReadAncestor, FactInv
    <2> HIDE DEF f
    <2>5. QueryInv([query[q] EXCEPT !.path = Append(@, f)])
      BY <1>0, <2>2, <2>3, LongerPath
    <2> QED
      BY <2>4, <2>5, QueryMoves, Zenon DEF ReadAncestor
  <1> QED
    BY <1>1, <1>2

\* findAncestorPIDsInSameCgroup reads the cgroups of the process.
LEMMA OwnCgroupKeepsFacts ==
    ASSUME FactInv, NEW q \in Queries, OwnCgroup(q)
    PROVE  FactInv'
  <1>0. QueryInv(query[q]) /\ query[q].at \in Stages
    BY DEF FactInv, OwnCgroup, Stages
  <1>1. CASE ~Alive(query[q].pid)
    BY <1>1, FailedQuery, QueryMoves, Zenon DEF OwnCgroup, Fail
  <1>2. CASE Alive(query[q].pid)
    <2> DEFINE g == proc[query[q].pid].cg
    <2>1. query[q].pid \in PIDs
      BY <1>0 DEF QueryInv
    <2>2. g \in Cgroups
      BY <2>1 DEF FactInv, WorldInv, Procs
    <2>3. query' = [query EXCEPT ![q] = [query[q] EXCEPT !.at = "ancestorCgroups", !.cg = g]]
      BY <1>2, Zenon DEF OwnCgroup, FactInv
    <2> HIDE DEF g
    <2>4. PICK r : r = [query[q] EXCEPT !.at = "ancestorCgroups", !.cg = g]
      OBVIOUS
    <2>5. /\ r \in QueryRecord /\ r.at = "ancestorCgroups" /\ r.pid = query[q].pid
          /\ r.path = query[q].path /\ r.i = query[q].i
      BY <1>0, <2>2, <2>4, Zenon DEF QueryInv, QueryRecord, Stages
    <2>6. QueryInv(r)
      BY <1>0, <2>1, <2>5 DEF QueryInv
    <2> QED
      BY <2>3, <2>4, <2>6, QueryMoves, Zenon DEF OwnCgroup
  <1> QED
    BY <1>1, <1>2

\* findAncestorPIDsInSameCgroup reads the cgroups of one ancestor after the other.
LEMMA AncestorCgroupKeepsFacts ==
    ASSUME FactInv, NEW q \in Queries, AncestorCgroup(q)
    PROVE  FactInv'
  <1> DEFINE a == query[q].path[query[q].i].pid
             done == query[q].i > Len(query[q].path)
  <1>0. QueryInv(query[q]) /\ query[q].at = "ancestorCgroups" /\ query[q].at \in Stages
    BY Zenon DEF FactInv, AncestorCgroup, Stages
  <1>9. UNCHANGED <<world, tree, update, crashed, facts>>
    BY Zenon DEF AncestorCgroup
  <1>1. CASE done
    <2>1. query' = [query EXCEPT ![q] = [query[q] EXCEPT !.at = "done"]]
      BY <1>1 DEF AncestorCgroup, FactInv
    <2>2. QueryInv([query[q] EXCEPT !.at = "done"])
      BY <1>0, NextStage DEF Over
    <2> QED
      BY <1>9, <2>1, <2>2, QueryMoves, Zenon
  <1>2. CASE ~done /\ ~Alive(a)
    <2>1. query' = [query EXCEPT ![q] = [NoQuery EXCEPT !.at = "failed"]]
      BY <1>2 DEF AncestorCgroup, Fail
    <2> QED
      BY <1>9, <2>1, FailedQuery, QueryMoves, Zenon
  <1>3. CASE ~done /\ Alive(a)
    <2> DEFINE res == IF proc[a].cg = query[q].cg THEN Append(query[q].res, a) ELSE query[q].res
    <2>1. /\ query[q].path \in Seq(Ancestor) /\ query[q].i \in Nat \ {0}
          /\ query[q].i <= Len(query[q].path) /\ query[q].res \in Seq(PIDs)
      BY <1>0, <1>3 DEF QueryInv, QueryRecord
    <2>2. a \in PIDs
      <3>1. query[q].i \in 1..Len(query[q].path) /\ query[q].i + 1 \in Nat \ {0}
        BY <2>1
      <3>2. query[q].path[query[q].i] \in Ancestor
        BY <2>1, <3>1
      <3> QED
        BY <3>2 DEF Ancestor
    <2>3. res \in Seq(PIDs)
      <3> HIDE DEF a
      <3>1. Append(query[q].res, a) \in Seq(PIDs)
        BY <2>1, <2>2
      <3> QED
        BY <2>1, <3>1
    <2>4. query' = [query EXCEPT ![q] = [query[q] EXCEPT !.i = @ + 1, !.res = res]]
      BY <1>3, Zenon DEF AncestorCgroup, FactInv
    <2>5. PICK r : r = [query[q] EXCEPT !.i = @ + 1, !.res = res]
      OBVIOUS
    <2> HIDE DEF res
    <2> DEFINE n == query[q].i + 1
    <2>9. n \in Nat \ {0}
      BY <2>1
    <2>10. r = [query[q] EXCEPT !.i = n, !.res = res]
      BY <2>5
    <2> HIDE DEF n
    <2>6. /\ r \in QueryRecord /\ r.at = query[q].at /\ r.pid = query[q].pid
          /\ r.path = query[q].path /\ r.i = n
      BY <1>0, <2>1, <2>3, <2>9, <2>10, Zenon DEF QueryInv, QueryRecord
    <2>7. n <= Len(query[q].path) + 1
      BY <2>1 DEF n
    <2>8. QueryInv(r)
      BY <1>0, <2>6, <2>7 DEF QueryInv
    <2> QED
      BY <1>9, <2>4, <2>5, <2>8, QueryMoves, ZenonT(60)
  <1> QED
    BY <1>1, <1>2, <1>3

\* A path has the elements of another one, and one more.
OneMoreThan(path, f, up) ==
    /\ path \in Seq(Ancestor)
    /\ \A k \in DOMAIN path : path[k] = f \/ \E m \in DOMAIN up : path[k] = up[m]
    /\ \E k \in DOMAIN path : path[k] = f
    /\ \A m \in DOMAIN up : \E k \in DOMAIN path : path[k] = up[m]

\* The path that readAncestors puts in the tree has the process and what it found.
LEMMA OneInFront ==
    ASSUME NEW f \in Ancestor, NEW up \in Seq(Ancestor)
    PROVE  OneMoreThan(<<f>> \o up, f, up)
  <1> DEFINE path == <<f>> \o up
  <1>1. path \in Seq(Ancestor) /\ Len(up) \in Nat /\ DOMAIN up = 1..Len(up)
    OBVIOUS
  <1>2. Len(path) = 1 + Len(up) /\ DOMAIN path = 1..(1 + Len(up))
    BY <1>1
  <1>3. path[1] = f /\ 1 \in DOMAIN path
    BY <1>1, <1>2
  <1>4. \A m \in DOMAIN up : m + 1 \in DOMAIN path /\ path[m + 1] = up[m]
    BY <1>1, <1>2
  <1>5. \A k \in 1..(1 + Len(up)) : k = 1 \/ (k - 1 \in 1..Len(up) /\ (k - 1) + 1 = k)
    BY <1>1
  <1> HIDE DEF path
  <1>6. ASSUME NEW k \in DOMAIN path PROVE path[k] = f \/ \E m \in DOMAIN up : path[k] = up[m]
    <2>1. CASE k = 1
      BY <1>3, <2>1
    <2>2. CASE k # 1
      <3>1. k - 1 \in DOMAIN up /\ (k - 1) + 1 = k
        BY <1>1, <1>2, <1>5, <2>2
      <3>2. path[(k - 1) + 1] = up[k - 1]
        BY <1>4, <3>1, Zenon
      <3> QED
        BY <3>1, <3>2
    <2> QED
      BY <2>1, <2>2
  <1> QED
    BY <1>1, <1>3, <1>4, <1>6, Zenon DEF path, OneMoreThan

\* What readAncestors puts in the tree was read by it.
LEMMA RememberKeepsFacts ==
    ASSUME FactInv, NEW q \in Queries, Remember(q)
    PROVE  FactInv' /\ (tree # NilMap => tree' # NilMap)
  <1> DEFINE path == <<Found(query[q].pid, query[q].p)>> \o query[q].path
             read == {path[i].pid : i \in DOMAIN path}
  <1>0. QueryInv(query[q]) /\ query[q].at = "ancestors" /\ query[q].at \in Stages
    BY Zenon DEF FactInv, Remember, Stages
  <1>1. CASE tree = NilMap
    <2>1. UNCHANGED <<world, tree, query, update, facts>>
      BY <1>1 DEF Remember
    <2> QED
      BY <1>1, <2>1 DEF FactInv, WorldInv, UpdateInv, world, QueryInv, MapOfFacts, WasTrue
  <1>2. CASE tree # NilMap
    <2>0. PICK last \in [read -> DOMAIN path] :
            /\ \A pid \in read : path[last[pid]].pid = pid
            /\ tree' = [pid \in Known \cup read |->
                 IF pid \in read
                 THEN [start |-> path[last[pid]].start, parent |-> path[last[pid]].parent]
                 ELSE tree[pid]]
      BY <1>2, ZenonT(30) DEF Remember
    <2> DEFINE entry(pid) == [start |-> path[last[pid]].start, parent |-> path[last[pid]].parent]
    <2>1. /\ tree' = [pid \in Known \cup read |-> IF pid \in read THEN entry(pid) ELSE tree[pid]]
          /\ query' = [query EXCEPT ![q].at = "cgroups"]
          /\ UNCHANGED <<world, update, crashed, facts>>
      BY <1>2, <2>0, ZenonT(30) DEF Remember
    <2>2. path \in Seq(Ancestor) /\ \A k \in DOMAIN path : WasTrue(path[k].pid, path[k])
      <3> DEFINE f == Found(query[q].pid, query[q].p)
                 up == query[q].path
      <3>1. query[q].pid \in PIDs /\ query[q].p \in Entries /\ WasTrue(query[q].pid, query[q].p)
        BY <1>0 DEF QueryInv
      <3>2. f \in Ancestor /\ WasTrue(f.pid, f)
        BY <3>1 DEF Found, Ancestor, Entries, WasTrue
      <3>3. up \in Seq(Ancestor) /\ \A k \in DOMAIN up : WasTrue(up[k].pid, up[k])
        BY <1>0 DEF QueryInv, QueryRecord
      <3> HIDE DEF f, up
      <3>4. <<f>> \o up \in Seq(Ancestor)
        BY <3>2, <3>3, OneInFront DEF OneMoreThan
      <3>5. \A k \in DOMAIN (<<f>> \o up) :
              (<<f>> \o up)[k] = f \/ \E m \in DOMAIN up : (<<f>> \o up)[k] = up[m]
        BY <3>2, <3>3, OneInFront DEF OneMoreThan
      <3>6. ASSUME NEW k \in DOMAIN (<<f>> \o up) PROVE WasTrue((<<f>> \o up)[k].pid, (<<f>> \o up)[k])
        BY <3>2, <3>3, <3>5
      <3> QED
        BY <3>4, <3>6 DEF f, up
    <2> HIDE DEF path
    <2>3. ASSUME NEW pid \in read
          PROVE  pid \in PIDs /\ entry(pid) \in Entries /\ WasTrue(pid, entry(pid))
      <3>1. last[pid] \in DOMAIN path /\ path[last[pid]].pid = pid
        BY <2>0
      <3>2. path[last[pid]] \in Ancestor /\ WasTrue(pid, path[last[pid]])
        BY <2>2, <3>1
      <3> QED
        BY <3>1, <3>2 DEF Ancestor, Entries, WasTrue
    <2>4. Known = DOMAIN tree /\ MapOfFacts(tree)
      BY <1>2 DEF FactInv, Known
    <2> HIDE DEF entry
    <2>5. Known \cup read \in SUBSET PIDs
      BY <2>3, <2>4 DEF MapOfFacts
    <2>6. ASSUME NEW pid \in Known \cup read
          PROVE  tree'[pid] \in Entries /\ WasTrue(pid, tree'[pid])
      <3> HIDE DEF read
      <3>1. CASE pid \in read
        BY <2>1, <2>3, <3>1
      <3>2. CASE pid \notin read
        BY <2>1, <2>4, <3>2 DEF MapOfFacts
      <3> QED
        BY <3>1, <3>2
    <2>7. DOMAIN tree' = Known \cup read /\ tree' \in [Known \cup read -> Entries]
      <3> HIDE DEF read
      <3> QED
        BY <2>1, <2>6, Zenon
    <2> HIDE DEF read
    <2>8. MapOfFacts(tree)'
      BY <2>1, <2>5, <2>6, <2>7, Zenon DEF MapOfFacts, WasTrue
    <2>9. QueryInv([query[q] EXCEPT !.at = "cgroups"])
      BY <1>0, NextStage DEF Stages
    <2>10. query' = [query EXCEPT ![q] = [query[q] EXCEPT !.at = "cgroups"]]
      BY <2>1 DEF FactInv
    <2>11. ~crashed
      BY <1>2 DEF FactInv
    <2>12. query' \in [Queries -> QueryRecord] /\ \A d \in Queries : QueryInv(query'[d])
      BY <2>9, <2>10 DEF FactInv, QueryInv
    <2>13. \A d \in Queries : QueryInv(query[d])'
      BY <2>1, <2>12, ZenonT(60) DEF QueryInv, WasTrue
    <2>14. WorldInv' /\ UpdateInv'
      BY <2>1 DEF FactInv, WorldInv, UpdateInv, world, MapOfFacts, WasTrue, Facts
    <2>15. FactInv'
      BY <2>1, <2>8, <2>11, <2>12, <2>13, <2>14, ZenonT(60) DEF FactInv
    <2>16. MapOfFacts(tree')
      BY <2>5, <2>6, <2>7 DEF MapOfFacts
    <2> QED
      BY <2>15, <2>16, MapIsNotNil
  <1> QED
    BY <1>1, <1>2, Zenon

\* A map with one more fact, as updateTree makes it.
LEMMA MapWithFact ==
    ASSUME NEW map, MapOfFacts(map), NEW pid \in PIDs, NEW e \in Entries, WasTrue(pid, e)
    PROVE  MapOfFacts([p \in DOMAIN map \cup {pid} |-> IF p = pid THEN e ELSE map[p]])
  <1> DEFINE new == [p \in DOMAIN map \cup {pid} |-> IF p = pid THEN e ELSE map[p]]
  <1>1. DOMAIN new = DOMAIN map \cup {pid} /\ DOMAIN new \in SUBSET PIDs
    BY DEF MapOfFacts
  <1>2. ASSUME NEW p \in DOMAIN new PROVE new[p] \in Entries /\ WasTrue(p, new[p])
    BY DEF MapOfFacts
  <1>3. new = [p \in DOMAIN new |-> new[p]]
    OBVIOUS
  <1> HIDE DEF new
  <1>4. new \in [DOMAIN new -> Entries]
    BY <1>2, <1>3
  <1>5. MapOfFacts(new)
    BY <1>1, <1>2, <1>4 DEF MapOfFacts
  <1> QED
    BY <1>5 DEF new

\* fullUpdate leaves the queries and procfs alone.
LEMMA UpdateMoves ==
    ASSUME FactInv, UpdateInv', UNCHANGED <<world, query, facts>>,
           (tree = NilMap \/ MapOfFacts(tree))', (crashed => tree = NilMap)'
    PROVE  FactInv'
  <1>1. WorldInv'
    BY DEF FactInv, WorldInv, world, Facts
  <1>2. ASSUME NEW q \in Queries PROVE QueryInv(query[q])'
    <2>1. QueryInv(query[q])
      BY DEF FactInv
    <2> QED
      BY <2>1 DEF QueryInv, WasTrue
  <1>3. (query \in [Queries -> QueryRecord])'
    BY DEF FactInv
  <1> QED
    BY <1>1, <1>2, <1>3, ZenonT(60) DEF FactInv

\* The map that updateTree starts with.
LEMMA EmptyMapOfFacts == MapOfFacts(<<>>)
  BY DEF MapOfFacts

\* updateTree reads procfs process by process, and then stores what it has read.
LEMMA UpdateKeepsFacts ==
    ASSUME FactInv, ~crashed, Update
    PROVE  FactInv'
  <1>0. UpdateInv /\ WorldInv /\ (tree = NilMap \/ MapOfFacts(tree))
    BY DEF FactInv
  <1>1. CASE FullUpdate
    <2>1. UNCHANGED <<world, tree, query, crashed, facts>>
      BY <1>1 DEF FullUpdate
    <2>2. update' = [at |-> "proc", keys |-> Known, pk |-> 0, new |-> <<>>]
      BY <1>1 DEF FullUpdate
    <2>3. Known \subseteq PIDs
      BY <1>0 DEF Known, MapOfFacts
    <2>5. update' \in UpdateRecord
      BY <2>2, <2>3, TreeConstants DEF UpdateRecord
    <2>6. MapOfFacts(update.new)'
      BY <2>2 DEF MapOfFacts
    <2>7. update'.new # NilMap
      BY <2>2, EmptyMapOfFacts, MapIsNotNil
    <2>8. UpdateInv'
      BY <2>2, <2>5, <2>6, <2>7 DEF UpdateInv
    <2>9. (tree = NilMap \/ MapOfFacts(tree))'
      BY <1>0, <2>1 DEF MapOfFacts, WasTrue
    <2> QED
      BY <2>1, <2>8, <2>9, UpdateMoves
  <1>2. ASSUME NEW pk \in PIDs, UpdateProc(pk) PROVE FactInv'
    <2>1. UNCHANGED <<world, tree, query, crashed, facts>>
      BY <1>2 DEF UpdateProc
    <2>2. /\ update' \in UpdateRecord /\ update'.pk = pk /\ update'.new = update.new
          /\ update.keys # {}
      BY <1>0, <1>2, Zenon DEF UpdateProc, UpdateInv, UpdateRecord
    <2>3. update.new # NilMap /\ MapOfFacts(update.new)
      BY <1>0, <2>2 DEF UpdateInv
    <2>4. MapOfFacts(update.new)'
      BY <2>1, <2>2, <2>3 DEF MapOfFacts, WasTrue
    <2>5. UpdateInv'
      BY <1>2, <2>2, <2>3, <2>4 DEF UpdateInv
    <2>6. (tree = NilMap \/ MapOfFacts(tree))'
      BY <1>0, <2>1 DEF MapOfFacts, WasTrue
    <2> QED
      BY <2>1, <2>5, <2>6, UpdateMoves
  <1>3. CASE UpdateStat
    <2>1. UNCHANGED <<world, tree, query, crashed, facts>>
      BY <1>3 DEF UpdateStat
    <2>2. update.pk \in PIDs /\ MapOfFacts(update.new) /\ update \in UpdateRecord
      BY <1>0, <1>3 DEF UpdateStat, UpdateInv
    <2>3. (tree = NilMap \/ MapOfFacts(tree))'
      BY <1>0, <2>1 DEF MapOfFacts, WasTrue
    <2>4. CASE Alive(update.pk)
      <3> DEFINE new == [p \in DOMAIN update.new \cup {update.pk} |->
                           IF p = update.pk THEN Entry(update.pk) ELSE update.new[p]]
      <3>1. update' = [update EXCEPT !.at = "proc", !.new = new]
        BY <1>3, <2>4, Zenon DEF UpdateStat
      <3>2. MapOfFacts(new)
        <4>1. Entry(update.pk) \in Entries /\ WasTrue(update.pk, Entry(update.pk))
          BY <1>0, <2>2, <2>4, EntryWasTrue
        <4> QED
          BY <2>2, <4>1, MapWithFact
      <3> HIDE DEF new
      <3>3. new \in TreeMaps /\ new # NilMap
        BY <3>2, MapIsNotNil DEF MapOfFacts, TreeMaps
      <3>4. update' \in UpdateRecord /\ update'.at = "proc" /\ update'.new = new
        BY <2>2, <3>1, <3>3, Zenon DEF UpdateRecord
      <3>5. MapOfFacts(update.new)'
        BY <2>1, <3>2, <3>4 DEF MapOfFacts, WasTrue
      <3>6. UpdateInv'
        BY <3>3, <3>4, <3>5 DEF UpdateInv
      <3> QED
        BY <2>1, <2>3, <3>6, UpdateMoves
    <2>5. CASE ~Alive(update.pk)
      <3>1. update' = [update EXCEPT !.at = "proc", !.keys = {}, !.new = NilMap]
        BY <1>3, <2>5 DEF UpdateStat
      <3>2. /\ update' \in UpdateRecord /\ update'.at = "proc"
            /\ update'.keys = {} /\ update'.new = NilMap
        BY <2>2, <3>1, Zenon DEF UpdateRecord
      <3>3. UpdateInv'
        BY <3>2 DEF UpdateInv
      <3> QED
        BY <2>1, <2>3, <3>3, UpdateMoves
    <2> QED
      BY <2>4, <2>5
  <1>4. CASE StoreTree
    <2>1. UNCHANGED <<world, query, crashed, facts>> /\ tree' = update.new /\ update' = Resting
      BY <1>4 DEF StoreTree
    <2>2. (tree = NilMap \/ MapOfFacts(tree))'
      BY <1>0, <2>1 DEF UpdateInv, MapOfFacts, WasTrue
    <2>3. Resting.new # NilMap /\ Resting.at = "wait" /\ Resting.new = <<>>
      BY EmptyMapOfFacts, MapIsNotNil DEF Resting
    <2>4. MapOfFacts(update.new)'
      BY <2>1, <2>3 DEF MapOfFacts
    <2>5. UpdateInv'
      BY <2>1, <2>3, <2>4, TreeConstants DEF UpdateInv
    <2> QED
      BY <2>1, <2>2, <2>5, UpdateMoves
  <1> QED
    BY <1>1, <1>2, <1>3, <1>4 DEF Update

\* Facts stay facts.
LEMMA MoreFacts ==
    ASSUME FactInv, WorldInv', facts \subseteq facts', UNCHANGED agent
    PROVE  FactInv'
  <1>1. \A pid, e : WasTrue(pid, e) => WasTrue(pid, e)'
    BY DEF WasTrue
  <1>2. \A map : MapOfFacts(map) => MapOfFacts(map)'
    BY DEF MapOfFacts, WasTrue
  <1>3. UpdateInv'
    BY DEF FactInv, UpdateInv, agent, MapOfFacts, WasTrue
  <1>4. (tree = NilMap \/ MapOfFacts(tree))' /\ (crashed => tree = NilMap)'
    BY DEF FactInv, agent, MapOfFacts, WasTrue
  <1>5. ASSUME NEW q \in Queries PROVE QueryInv(query[q])'
    <2>1. QueryInv(query[q]) /\ query' = query
      BY DEF FactInv, agent
    <2> QED
      BY <2>1 DEF QueryInv, WasTrue
  <1>6. (query \in [Queries -> QueryRecord])'
    BY DEF FactInv, agent
  <1> QED
    BY <1>3, <1>4, <1>5, <1>6, ZenonT(60) DEF FactInv

\* A process starts: what was true stays among the facts.
LEMMA ForkKeepsFacts ==
    ASSUME FactInv, NEW parent \in PIDs, NEW child \in PIDs, NEW cg \in Cgroups,
           Fork(parent, child, cg)
    PROVE  FactInv'
  <1> DEFINE new == [start |-> clock + 1, parent |-> parent, cg |-> cg]
  <1>1. WorldInv /\ clock < MaxStarts /\ clock \in Nat
    BY DEF FactInv, WorldInv, Fork
  <1>2. new \in Procs
    BY <1>1, TreeConstants DEF Procs
  <1>3. proc' = [proc EXCEPT ![child] = new]
    BY Zenon DEF Fork
  <1> HIDE DEF new
  <1>4. proc' \in [PIDs -> Procs]
    BY <1>1, <1>2, <1>3 DEF WorldInv
  <1>5. facts' = facts \cup Facts(proc') /\ clock' = clock + 1 /\ exits' = exits /\ UNCHANGED agent
    BY DEF Fork, TruthNow
  <1>6. clock' \in Nat /\ exits' \in Nat
    BY <1>1, <1>5 DEF WorldInv
  <1>7. WorldInv' /\ facts \subseteq facts'
    BY <1>4, <1>5, <1>6 DEF WorldInv
  <1> QED
    BY <1>5, <1>7, MoreFacts

\* A process ends, and its children go to init.
LEMMA ExitKeepsFacts ==
    ASSUME FactInv, NEW pid \in PIDs, Exit(pid)
    PROVE  FactInv'
  <1>1. WorldInv
    BY DEF FactInv
  <1>2. proc' = [p \in PIDs |->
         IF p = pid THEN Dead
         ELSE IF proc[p].parent = pid THEN [proc[p] EXCEPT !.parent = 1] ELSE proc[p]]
    BY DEF Exit
  <1>3. ASSUME NEW p \in PIDs PROVE Dead \in Procs /\ proc[p] \in Procs /\ [proc[p] EXCEPT !.parent = 1] \in Procs
    BY <1>1, TreeConstants, TreeAssumption, Zenon DEF WorldInv, Procs
  <1>4. proc' \in [PIDs -> Procs]
    BY <1>2, <1>3
  <1>5. facts' = facts \cup Facts(proc') /\ exits' = exits + 1 /\ clock' = clock /\ UNCHANGED agent
    BY DEF Exit, TruthNow
  <1>6. clock' \in Nat /\ exits' \in Nat
    BY <1>1, <1>5 DEF WorldInv
  <1>7. WorldInv' /\ facts \subseteq facts'
    BY <1>4, <1>5, <1>6 DEF WorldInv
  <1> QED
    BY <1>5, <1>7, MoreFacts

\* The tree starts empty.
LEMMA InitFacts == TreeInit => FactInv
  <1> SUFFICES ASSUME TreeInit PROVE FactInv
    OBVIOUS
  <1>1. WorldInv
    BY TreeAssumption DEF TreeInit, WorldInv
  <1>2. tree = <<>> /\ MapOfFacts(tree) /\ update = Resting /\ crashed = FALSE
    BY EmptyMapOfFacts DEF TreeInit
  <1>3. UpdateInv
    BY <1>2, EmptyMapOfFacts, MapIsNotNil, TreeConstants DEF UpdateInv, Resting
  <1>4. QueryInv(NoQuery)
    BY TreeConstants DEF QueryInv, NoQuery, Stages
  <1>5. query \in [Queries -> QueryRecord] /\ \A q \in Queries : QueryInv(query[q])
    BY <1>4, TreeConstants DEF TreeInit
  <1> QED
    BY <1>1, <1>2, <1>3, <1>5 DEF FactInv

\* Every step of the queries, the update and the processes keeps to the facts.
LEMMA NextFacts == FactInv /\ [TreeNext]_tree_vars => FactInv'
  <1> SUFFICES ASSUME FactInv, [TreeNext]_tree_vars PROVE FactInv'
    OBVIOUS
  <1>1. CASE UNCHANGED tree_vars
    <2>1. WorldInv' /\ UNCHANGED agent /\ facts \subseteq facts'
      BY <1>1 DEF FactInv, WorldInv, Facts, tree_vars, agent
    <2> QED
      BY <2>1, MoreFacts
  <1>2. ASSUME NEW p \in PIDs, NEW c \in PIDs, NEW cg \in Cgroups, Fork(p, c, cg) PROVE FactInv'
    BY <1>2, ForkKeepsFacts
  <1>3. ASSUME NEW p \in PIDs, Exit(p) PROVE FactInv'
    BY <1>3, ExitKeepsFacts
  <1>4. ASSUME NEW q \in Queries, Answer(q) PROVE FactInv'
    BY <1>4, CheckKeepsFacts, CachedKeepsFacts, ReadKeepsFacts, ReadAncestorKeepsFacts,
       RememberKeepsFacts, OwnCgroupKeepsFacts, AncestorCgroupKeepsFacts DEF Answer
  <1>5. ASSUME NEW q \in Queries, NEW pid \in Asked, Find(q, pid) PROVE FactInv'
    BY <1>5, FindKeepsFacts
  <1>6. CASE ~crashed /\ Update
    BY <1>6, UpdateKeepsFacts
  <1> QED
    BY <1>1, <1>2, <1>3, <1>4, <1>5, <1>6 DEF TreeNext

\* EntriesWereTrue: whichever queries and updates write the tree, at whatever time they read
\* what they write, no entry mixes two processes that had the same PID.
THEOREM TreeHoldsFacts == TreeSpec => []EntriesWereTrue
  <1>1. FactInv => EntriesWereTrue
    BY DEF FactInv, EntriesWereTrue, Known, MapOfFacts, WasTrue
  <1> QED
    BY <1>1, InitFacts, NextFacts, PTL DEF TreeSpec

\* TreeTypeOK: the tree, the update and the queries have their types.
THEOREM TreeTypeCorrect == TreeSpec => []TreeTypeOK
  <1>1. ASSUME FactInv PROVE TreeTypeOK
    <2>1. tree = NilMap \/ (Known \subseteq PIDs /\ \A p \in Known : tree[p] \in Entries)
      BY <1>1 DEF FactInv, MapOfFacts, Known
    <2>2. update.at \in {"wait", "proc", "stat"} /\ update.keys \subseteq PIDs
      BY <1>1 DEF FactInv, UpdateInv, UpdateRecord
    <2>3. ASSUME NEW q \in Queries
          PROVE  query[q].at \in Over \cup Stages /\ query[q].i \in 1..(Len(query[q].path) + 1)
      <3>1. QueryInv(query[q]) /\ query[q] \in QueryRecord
        BY <1>1 DEF FactInv
      <3> QED
        BY <3>1 DEF QueryInv, QueryRecord
    <2> QED
      BY <1>1, <2>1, <2>2, <2>3 DEF FactInv, TreeTypeOK, Stages
  <1> QED
    BY <1>1, InitFacts, NextFacts, PTL DEF TreeSpec

-----------------------------------------------------------------------------
(* Ancestors. *)

\* The parent of a process and their parents are its ancestors, in any state of procfs.
LEMMA ParentIsAbove ==
    ASSUME NEW ps, NEW pid, ps[pid].parent \in PIDs
    PROVE  ps[pid].parent \in Above(ps, pid)
  BY TreeConstants DEF Above

\* The parent of an ancestor is an ancestor.
LEMMA ParentOfAbove ==
    ASSUME NEW ps, NEW pid, NEW a \in Above(ps, pid), ps[a].parent \in PIDs
    PROVE  ps[a].parent \in Above(ps, pid)
  BY TreeConstants DEF Above

\* A set that has the parents of a process and of its members has all its ancestors.
LEMMA AboveIsLeast ==
    ASSUME NEW ps, NEW pid, NEW S \in SUBSET PIDs,
           \A p \in S \cup {pid} : ps[p].parent \in S \cup {0}
    PROVE  Above(ps, pid) \subseteq S
  BY DEF Above

-----------------------------------------------------------------------------
(* Walks in one state of procfs. *)

\* Of some indices of a path one is the first.
LEMMA FirstIndex ==
    ASSUME NEW S, S \subseteq Nat, S # {}
    PROVE  \E x \in S : \A y \in S : x <= y
  <1>1. \E x \in S : \A y \in S : ~(<<y, x>> \in OpToRel(<, Nat))
    BY WFMin, NatLessThanWellFounded, Zenon
  <1>2. PICK x \in S : \A y \in S : ~(<<y, x>> \in OpToRel(<, Nat))
    BY <1>1, Zenon
  <1>3. ASSUME NEW y \in S PROVE x <= y
    <2>1. OpToRel(<, Nat) = {xy \in Nat \X Nat : xy[1] < xy[2]}
      BY DEF OpToRel
    <2>2. x \in Nat /\ y \in Nat
      OBVIOUS
    <2>3. ~(y < x)
      BY <1>2, <2>1, <2>2, Zenon
    <2> QED
      BY <2>2, <2>3
  <1> QED
    BY <1>3

\* From a process on, here the j-th of the walk or the first one of all, every link leads to
\* an ancestor.
LEMMA LinksGoUp ==
    ASSUME NEW ps, NEW r \in QueryRecord, Links(ps, r),
           NEW j \in Nat, NEW b, Before(r, j + 1) = ps[b].parent,
           NEW k \in DOMAIN r.path, j < k
    PROVE  r.path[k].pid \in Above(ps, b)
  <1>1. r.path \in Seq(Ancestor) /\ DOMAIN r.path = 1..Len(r.path) /\ Len(r.path) \in Nat
    BY DEF QueryRecord
  <1>2. \A m \in DOMAIN r.path : r.path[m].pid \in PIDs
    <2>1. \A m \in DOMAIN r.path : r.path[m] \in Ancestor
      BY <1>1
    <2> QED
      BY <2>1 DEF Ancestor
  <1> SUFFICES ASSUME NEW S \in SUBSET PIDs, \A p \in S \cup {b} : ps[p].parent \in S \cup {0},
                      r.path[k].pid \notin S
               PROVE  FALSE
    BY <1>2 DEF Above
  <1> DEFINE Out == {m \in DOMAIN r.path : j < m /\ r.path[m].pid \notin S}
  <1>3. Out \subseteq Nat /\ Out # {}
    BY <1>1
  <1>4. PICK m \in Out : \A n \in Out : m <= n
    <2> HIDE DEF Out
    <2> QED
      BY <1>3, FirstIndex, Zenon
  <1>5. m \in DOMAIN r.path /\ j < m /\ r.path[m].pid \notin S /\ r.path[m].pid \in PIDs /\ m \in Nat
    BY <1>1, <1>2
  <1>6. r.path[m].pid = Before(r, m) /\ r.path[m].pid # 0
    BY <1>5, TreeConstants DEF Links
  <1>7. CASE m = j + 1
    BY <1>5, <1>6, <1>7
  <1>8. CASE m # j + 1
    <2>1. m - 1 \in DOMAIN r.path /\ j < m - 1 /\ ~(m <= m - 1) /\ m # 1
      BY <1>1, <1>5, <1>8
    <2>2. m - 1 \notin Out
      BY <1>4, <2>1
    <2>3. r.path[m - 1].pid \in S
      BY <2>1, <2>2
    <2>4. r.path[m - 1] = Step(ps, r.path[m - 1].pid)
      BY <2>1 DEF Links
    <2>5. r.path[m - 1].parent = ps[r.path[m - 1].pid].parent
      BY <2>4 DEF Step
    <2>6. Before(r, m) = r.path[m - 1].parent
      BY <2>1 DEF Before
    <2> QED
      BY <1>5, <1>6, <2>3, <2>5, <2>6
  <1> QED
    BY <1>7, <1>8

\* A walk that follows the parents goes up.
LEMMA WalkGoesUp ==
    ASSUME NEW ps, NEW r \in QueryRecord, Links(ps, r), r.p.parent = ps[r.pid].parent
    PROVE  PathUp(ps, r)
  <1>1. r.path \in Seq(Ancestor) /\ DOMAIN r.path = 1..Len(r.path) /\ Len(r.path) \in Nat
    BY DEF QueryRecord
  <1>2. Before(r, 0 + 1) = ps[r.pid].parent
    BY DEF Before
  <1>3. ASSUME NEW k \in DOMAIN r.path PROVE r.path[k].pid \in Above(ps, r.pid)
    <2>1. 0 < k /\ 0 \in Nat
      BY <1>1
    <2> QED
      BY <1>2, <2>1, LinksGoUp
  <1>4. ASSUME NEW k \in DOMAIN r.path, NEW j \in DOMAIN r.path, j < k
        PROVE  r.path[k].pid \in Above(ps, r.path[j].pid)
    <2>1. j \in Nat /\ j + 1 # 1 /\ (j + 1) - 1 = j
      BY <1>1
    <2>2. r.path[j] = Step(ps, r.path[j].pid)
      BY DEF Links
    <2>3. Before(r, j + 1) = ps[r.path[j].pid].parent
      BY <2>1, <2>2 DEF Before, Step
    <2> QED
      BY <1>4, <2>1, <2>3, LinksGoUp
  <1> QED
    BY <1>3, <1>4 DEF PathUp, Links

\* A walk is what it is whatever the query does next.
LEMMA SameWalk ==
    ASSUME NEW ps, NEW r, NEW s, s.pid = r.pid, s.p = r.p, s.path = r.path, PathUp(ps, r)
    PROVE  PathUp(ps, s) /\ Top(s) = Top(r)
  <1>1. Top(s) = Top(r)
    BY DEF Top
  <1>2. \A k : Before(s, k) = Before(r, k)
    BY DEF Before
  <1> QED
    BY <1>1, <1>2, Zenon DEF PathUp

\* The last process of a walk, whose parent is next.
LEMMA LastStep ==
    ASSUME NEW ps, NEW r \in QueryRecord, PathUp(ps, r), r.path # <<>>
    PROVE  LET n == Len(r.path)
           IN  n \in DOMAIN r.path /\ n \in Nat /\ DOMAIN r.path = 1..n
               /\ Top(r) = ps[r.path[n].pid].parent
  <1>1. r.path \in Seq(Ancestor)
    BY DEF QueryRecord
  <1>2. Len(r.path) \in DOMAIN r.path /\ Len(r.path) \in Nat /\ DOMAIN r.path = 1..Len(r.path)
    BY <1>1
  <1>3. r.path[Len(r.path)] = Step(ps, r.path[Len(r.path)].pid)
    BY <1>2 DEF PathUp
  <1>4. r.path[Len(r.path)].parent = ps[r.path[Len(r.path)].pid].parent
    BY <1>3 DEF Step
  <1> QED
    BY <1>2, <1>4 DEF Top

\* The parent of the last process is above all others.
LEMMA TopIsAbove ==
    ASSUME NEW ps, NEW r \in QueryRecord, PathUp(ps, r), r.p.parent = ps[r.pid].parent,
           Top(r) \in PIDs
    PROVE  /\ Top(r) \in Above(ps, r.pid)
           /\ \A j \in DOMAIN r.path : Top(r) \in Above(ps, r.path[j].pid)
  <1>1. CASE r.path = <<>>
    BY <1>1, ParentIsAbove DEF Top
  <1>2. CASE r.path # <<>>
    <2> DEFINE n == Len(r.path)
    <2>1. n \in DOMAIN r.path /\ n \in Nat /\ DOMAIN r.path = 1..n /\ Top(r) = ps[r.path[n].pid].parent
      BY <1>2, LastStep
    <2>2. r.path[n].pid \in Above(ps, r.pid)
      BY <2>1 DEF PathUp
    <2>3. Top(r) \in Above(ps, r.pid)
      BY <2>1, <2>2, ParentOfAbove
    <2>4. ASSUME NEW j \in DOMAIN r.path PROVE Top(r) \in Above(ps, r.path[j].pid)
      <3>1. CASE j = n
        BY <2>1, <3>1, ParentIsAbove
      <3>2. CASE j # n
        <4>1. j < n
          BY <2>1, <3>2
        <4> HIDE DEF n
        <4>2. r.path[n].pid \in Above(ps, r.path[j].pid)
          BY <2>1, <4>1 DEF PathUp
        <4> QED
          BY <2>1, <4>2, ParentOfAbove
      <3> QED
        BY <3>1, <3>2
    <2> QED
      BY <2>3, <2>4
  <1> QED
    BY <1>1, <1>2

\* Elements of a longer path.
LEMMA AppendedPath ==
    ASSUME NEW path \in Seq(Ancestor), NEW f \in Ancestor
    PROVE  LET new == Append(path, f)
               n == Len(path)
           IN  /\ new \in Seq(Ancestor) /\ n \in Nat /\ DOMAIN path = 1..n /\ DOMAIN new = 1..(n + 1)
               /\ new[n + 1] = f /\ \A k \in DOMAIN path : new[k] = path[k]
               /\ new # <<>>
               /\ \A k \in DOMAIN new : k = n + 1 \/ k \in DOMAIN path
               /\ \A j, k \in DOMAIN new : j < k => j \in DOMAIN path
  <1>1. Append(path, f) \in Seq(Ancestor) /\ Len(path) \in Nat /\ DOMAIN path = 1..Len(path)
    OBVIOUS
  <1>2. Len(Append(path, f)) = Len(path) + 1 /\ DOMAIN Append(path, f) = 1..(Len(path) + 1)
    BY <1>1
  <1>3. Append(path, f)[Len(path) + 1] = f /\ \A k \in DOMAIN path : Append(path, f)[k] = path[k]
    BY <1>1
  <1>4. Append(path, f) # <<>>
    BY <1>1, <1>2
  <1>5. \A k \in 1..(Len(path) + 1) : k = Len(path) + 1 \/ k \in 1..Len(path)
    BY <1>1
  <1>6. \A j, k \in 1..(Len(path) + 1) : j < k => j \in 1..Len(path)
    BY <1>1
  <1> QED
    BY <1>1, <1>2, <1>3, <1>4, <1>5, <1>6

\* Where the processes of a longer path were found.
LEMMA LongerBefore ==
    ASSUME NEW r \in QueryRecord, NEW f \in Ancestor, NEW s, s.p = r.p, s.path = Append(r.path, f)
    PROVE  /\ Before(s, Len(r.path) + 1) = Top(r)
           /\ \A k \in DOMAIN r.path : Before(s, k) = Before(r, k)
  <1> DEFINE n == Len(r.path)
  <1>1. r.path \in Seq(Ancestor)
    BY DEF QueryRecord
  <1>2. /\ n \in Nat /\ DOMAIN r.path = 1..n /\ DOMAIN s.path = 1..(n + 1)
        /\ s.path[n + 1] = f /\ \A k \in DOMAIN r.path : s.path[k] = r.path[k]
    BY <1>1, AppendedPath
  <1>5. Before(s, n + 1) = Top(r)
    <2>1. CASE r.path = <<>>
      <3>1. n + 1 = 1
        BY <2>1
      <3> QED
        BY <2>1, <3>1 DEF Before, Top
    <2>2. CASE r.path # <<>>
      <3>1. n \in DOMAIN r.path /\ Top(r) = r.path[n].parent
        BY <1>1, <2>2 DEF Top
      <3>2. n + 1 # 1 /\ (n + 1) - 1 = n
        BY <1>2, <3>1
      <3> QED
        BY <1>2, <3>1, <3>2 DEF Before
    <2> QED
      BY <2>1, <2>2
  <1>6. ASSUME NEW k \in DOMAIN r.path PROVE Before(s, k) = Before(r, k)
    <2>1. CASE k = 1
      BY <2>1 DEF Before
    <2>2. CASE k # 1
      <3>1. k - 1 \in DOMAIN r.path
        BY <1>2, <2>2
      <3> QED
        BY <1>2, <2>2, <3>1 DEF Before
    <2> QED
      BY <2>1, <2>2
  <1> QED
    BY <1>5, <1>6

\* A walk that takes one more step.
LEMMA LongerWalk ==
    ASSUME NEW ps, NEW r \in QueryRecord, PathUp(ps, r), r.p.parent = ps[r.pid].parent,
           Top(r) \in PIDs, LiveIn(ps, Top(r)), Step(ps, Top(r)) \in Ancestor,
           NEW s, s.pid = r.pid, s.p = r.p, s.path = Append(r.path, Step(ps, Top(r)))
    PROVE  PathUp(ps, s)
  <1> DEFINE n == Len(r.path)
             f == Step(ps, Top(r))
  <1>1. r.path \in Seq(Ancestor)
    BY DEF QueryRecord
  <1>2. /\ n \in Nat /\ DOMAIN r.path = 1..n /\ DOMAIN s.path = 1..(n + 1)
        /\ s.path[n + 1] = f /\ \A k \in DOMAIN r.path : s.path[k] = r.path[k]
        /\ \A k \in DOMAIN s.path : k = n + 1 \/ k \in DOMAIN r.path
        /\ \A j, k \in DOMAIN s.path : j < k => j \in DOMAIN r.path
    BY <1>1, AppendedPath
  <1>3. f.pid = Top(r) /\ f = Step(ps, f.pid)
    BY DEF Step
  <1>4. /\ Top(r) \in Above(ps, r.pid)
        /\ \A j \in DOMAIN r.path : Top(r) \in Above(ps, r.path[j].pid)
    BY TopIsAbove
  <1>5. Before(s, n + 1) = Top(r) /\ \A k \in DOMAIN r.path : Before(s, k) = Before(r, k)
    <2> HIDE DEF f
    <2> QED
      BY LongerBefore DEF f
  <1>6. \A k \in DOMAIN r.path : Before(s, k) = Before(r, k)
    BY <1>5, Zenon
  <1> HIDE DEF n, f
  <1> SUFFICES ASSUME NEW k \in DOMAIN s.path
               PROVE  /\ LiveIn(ps, s.path[k].pid) /\ s.path[k] = Step(ps, s.path[k].pid)
                      /\ s.path[k].pid = Before(s, k)
                      /\ s.path[k].pid \in Above(ps, s.pid)
                      /\ \A j \in DOMAIN s.path : j < k => s.path[k].pid \in Above(ps, s.path[j].pid)
    BY DEF PathUp
  <1>7. CASE k = n + 1
    <2>1. s.path[k] = f /\ s.path[k].pid = Top(r)
      BY <1>2, <1>3, <1>7
    <2>2. \A j \in DOMAIN s.path : j < k => s.path[k].pid \in Above(ps, s.path[j].pid)
      BY <1>2, <1>4, <2>1
    <2> QED
      BY <1>3, <1>4, <1>5, <1>7, <2>1, <2>2 DEF f
  <1>8. CASE k \in DOMAIN r.path
    <2>1. s.path[k] = r.path[k]
      BY <1>2, <1>8
    <2>2. /\ LiveIn(ps, r.path[k].pid) /\ r.path[k] = Step(ps, r.path[k].pid)
          /\ r.path[k].pid = Before(r, k)
          /\ r.path[k].pid \in Above(ps, r.pid)
          /\ \A j \in DOMAIN r.path : j < k => r.path[k].pid \in Above(ps, r.path[j].pid)
      BY <1>8 DEF PathUp
    <2>3. \A j \in DOMAIN s.path : j < k => s.path[k].pid \in Above(ps, s.path[j].pid)
      BY <1>2, <2>1, <2>2
    <2> QED
      BY <1>6, <1>8, <2>1, <2>2, <2>3
  <1> QED
    BY <1>2, <1>7, <1>8

\* At the top, the path has all ancestors.
LEMMA PathIsAbove ==
    ASSUME NEW ps, NEW r \in QueryRecord, PathUp(ps, r), r.p.parent = ps[r.pid].parent, Top(r) = 0
    PROVE  \A a : a \in Above(ps, r.pid) <=> \E k \in DOMAIN r.path : a = r.path[k].pid
  <1> DEFINE S == {r.path[k].pid : k \in DOMAIN r.path}
             n == Len(r.path)
  <1>1. r.path \in Seq(Ancestor) /\ n \in Nat /\ DOMAIN r.path = 1..n
    BY DEF QueryRecord
  <1>2. S \in SUBSET PIDs
    <2>1. \A k \in DOMAIN r.path : r.path[k] \in Ancestor
      BY <1>1
    <2> QED
      BY <2>1 DEF Ancestor
  <1>3. r.path # <<>> => n \in DOMAIN r.path /\ 1 \in DOMAIN r.path /\ ps[r.path[n].pid].parent = 0
    BY <1>1, LastStep
  <1>4. ps[r.pid].parent \in S \cup {0}
    <2>1. CASE r.path = <<>>
      BY <2>1 DEF Top
    <2>2. CASE r.path # <<>>
      <3>1. r.path[1].pid = r.p.parent
        BY <1>3, <2>2 DEF PathUp, Before
      <3> QED
        BY <1>3, <2>2, <3>1
    <2> QED
      BY <2>1, <2>2
  <1>5. ASSUME NEW k \in DOMAIN r.path PROVE ps[r.path[k].pid].parent \in S \cup {0}
    <2>1. CASE k = n
      BY <1>1, <1>3, <2>1
    <2>2. CASE k # n
      <3>1. k + 1 \in DOMAIN r.path /\ k + 1 # 1 /\ (k + 1) - 1 = k
        BY <1>1, <2>2
      <3>2. r.path[k + 1].pid = r.path[k].parent
        BY <3>1 DEF PathUp, Before
      <3>3. r.path[k] = Step(ps, r.path[k].pid)
        BY DEF PathUp
      <3>4. r.path[k].parent = ps[r.path[k].pid].parent
        BY <3>3 DEF Step
      <3> QED
        BY <3>1, <3>2, <3>4
    <2> QED
      BY <2>1, <2>2
  <1>6. Above(ps, r.pid) \subseteq S
    <2>1. \A p \in S \cup {r.pid} : ps[p].parent \in S \cup {0}
      BY <1>4, <1>5
    <2> HIDE DEF S
    <2> QED
      BY <1>2, <2>1, AboveIsLeast
  <1>7. S \subseteq Above(ps, r.pid)
    BY DEF PathUp
  <1> QED
    BY <1>6, <1>7

\* findAncestorPIDsInSameCgroup, at the end of a whole walk: the answer of this state.
LEMMA WholeAnswer ==
    ASSUME NEW ps, NEW r \in QueryRecord, PathUp(ps, r), r.p.parent = ps[r.pid].parent, Top(r) = 0,
           r.cg = ps[r.pid].cg, Picked(ps, r), r.i > Len(r.path),
           NEW T, SameCgroup(ps, r.pid) \in T
    PROVE  Answered(r, T)
  <1> DEFINE same == {a \in Above(ps, r.pid) : ps[a].cg = ps[r.pid].cg}
             up == SameCgroup(ps, r.pid)
  <1>1. DOMAIN up = same /\ \A a \in same : up[a] = same \cap Above(ps, a)
    BY DEF SameCgroup
  <1>2. \A k \in DOMAIN r.path : k < r.i
    <2>1. r.path \in Seq(Ancestor) /\ r.i \in Nat
      BY DEF QueryRecord
    <2> QED
      BY <2>1
  <1>3. \A a : a \in Above(ps, r.pid) <=> \E k \in DOMAIN r.path : a = r.path[k].pid
    BY PathIsAbove, Zenon
  <1> HIDE DEF up
  <1>4. ASSUME NEW a PROVE a \in Range(r.res) <=> a \in same
    <2>1. a \in Range(r.res) <=> \E k \in DOMAIN r.path : k < r.i /\ a = r.path[k].pid /\ ps[a].cg = r.cg
      BY DEF Picked
    <2> QED
      BY <1>2, <1>3, <2>1
  <1>5. Range(r.res) = same
    <2> HIDE DEF same
    <2> QED
      BY <1>4, Zenon
  <1>6. ASSUME NEW i \in DOMAIN r.res, NEW j \in DOMAIN r.res, i < j PROVE r.res[j] \in up[r.res[i]]
    <2>1. r.res[i] \in Range(r.res) /\ r.res[j] \in Range(r.res)
      BY DEF Range
    <2>3. PICK k \in DOMAIN r.path, m \in DOMAIN r.path :
             k < m /\ m < r.i /\ r.res[i] = r.path[k].pid /\ r.res[j] = r.path[m].pid
      <3>1. Ordered(r.res, r.path, r.i)
        BY DEF Picked
      <3> QED
        BY <1>6, <3>1, Zenon DEF Ordered
    <2>2. r.res[j] \in Above(ps, r.res[i])
      BY <2>3 DEF PathUp
    <2> HIDE DEF same
    <2> QED
      BY <1>1, <1>5, <2>1, <2>2
  <1> HIDE DEF same
  <1>7. up \in T
    BY DEF up
  <1> QED
    BY <1>1, <1>5, <1>6, <1>7 DEF Answered

\* A sequence with one more element, which has some index n.
OneLonger(new, res, a) ==
    \E n : /\ new[n] = a /\ \A k \in DOMAIN res : new[k] = res[k]
           /\ \A b : b \in Range(new) <=> b \in Range(res) \/ b = a
           /\ \A k \in DOMAIN new : k = n \/ k \in DOMAIN res
           /\ \A j, k \in DOMAIN new : j < k => j \in DOMAIN res

\* The answer with one more PID at its end.
LEMMA AppendedRes ==
    ASSUME NEW res \in Seq(PIDs), NEW a \in PIDs
    PROVE  OneLonger(Append(res, a), res, a)
  <1>1. Append(res, a) \in Seq(PIDs) /\ Len(res) \in Nat /\ DOMAIN res = 1..Len(res)
    OBVIOUS
  <1>2. Len(Append(res, a)) = Len(res) + 1 /\ DOMAIN Append(res, a) = 1..(Len(res) + 1)
    BY <1>1
  <1>3. Append(res, a)[Len(res) + 1] = a /\ \A k \in DOMAIN res : Append(res, a)[k] = res[k]
    BY <1>1
  <1>4. \A k \in 1..(Len(res) + 1) : k = Len(res) + 1 \/ k \in 1..Len(res)
    BY <1>1
  <1>5. \A j, k \in 1..(Len(res) + 1) : j < k => j \in 1..Len(res)
    BY <1>1
  <1>6. Len(res) + 1 \in 1..(Len(res) + 1) /\ \A k \in DOMAIN res : k \in 1..(Len(res) + 1)
    BY <1>1
  <1> DEFINE n == Len(res) + 1
             new == Append(res, a)
  <1>7. /\ new[n] = a /\ \A k \in DOMAIN res : new[k] = res[k]
        /\ \A k \in DOMAIN new : k = n \/ k \in DOMAIN res
        /\ n \in DOMAIN new /\ \A k \in DOMAIN res : k \in DOMAIN new
        /\ \A j, k \in DOMAIN new : j < k => j \in DOMAIN res
    BY <1>1, <1>2, <1>3, <1>4, <1>5, <1>6
  <1> HIDE DEF n, new
  <1>8. ASSUME NEW b PROVE b \in Range(new) <=> b \in Range(res) \/ b = a
    BY <1>7 DEF Range
  <1> QED
    BY <1>7, <1>8 DEF new, OneLonger

\* Facts about numbers.
LEMMA BelowNextIndex ==
    ASSUME NEW k \in Nat, NEW i \in Nat PROVE (k < i + 1 <=> k < i \/ k = i) /\ (i + 1 <= k => i < k)
  OBVIOUS

\* One ancestor is looked at.
LEMMA OnePicked ==
    ASSUME NEW ps, NEW r \in QueryRecord, PathUp(ps, r), Picked(ps, r), r.i \in DOMAIN r.path,
           NEW s, s.path = r.path, s.pid = r.pid, s.cg = r.cg, s.i = r.i + 1,
           s.res = IF ps[r.path[r.i].pid].cg = r.cg THEN Append(r.res, r.path[r.i].pid) ELSE r.res
    PROVE  Picked(ps, s)
  <1> DEFINE a == r.path[r.i].pid
  <1>1. r.path \in Seq(Ancestor) /\ r.res \in Seq(PIDs) /\ r.i \in Nat
    BY DEF QueryRecord
  <1>2. a \in PIDs
    <2>1. r.path[r.i] \in Ancestor
      BY <1>1
    <2> QED
      BY <2>1 DEF Ancestor
  <1>3. \A k \in DOMAIN r.path : (k < s.i <=> k < r.i \/ k = r.i) /\ (s.i <= k => r.i < k /\ r.i <= k)
    <2>1. \A k \in DOMAIN r.path : k \in Nat
      BY <1>1
    <2> QED
      BY <1>1, <2>1, BelowNextIndex
  <1>4. \A b : b \in Range(r.res) <=>
            \E k \in DOMAIN r.path : k < r.i /\ b = r.path[k].pid /\ ps[b].cg = r.cg
    BY DEF Picked
  <1>5. Ordered(r.res, r.path, r.i)
    BY DEF Picked
  <1>6. Ordered(r.res, s.path, s.i)
    BY <1>3, <1>5 DEF Ordered
  <1> HIDE DEF a
  <1>8. CASE ps[a].cg # r.cg
    <2>1. s.res = r.res
      BY <1>8 DEF a
    <2>2. ASSUME NEW b
          PROVE  b \in Range(s.res) <=> \E k \in DOMAIN s.path : k < s.i /\ b = s.path[k].pid /\ ps[b].cg = s.cg
      BY <1>3, <1>4, <1>8, <2>1 DEF a
    <2>3. Ordered(s.res, s.path, s.i)
      BY <1>6, <2>1, Zenon
    <2> QED
      BY <2>2, <2>3, Zenon DEF Picked
  <1>9. CASE ps[a].cg = r.cg
    <2>1. s.res = Append(r.res, a)
      BY <1>9 DEF a
    <2>2. PICK n : /\ s.res[n] = a /\ \A k \in DOMAIN r.res : s.res[k] = r.res[k]
                   /\ \A b : b \in Range(s.res) <=> b \in Range(r.res) \/ b = a
                   /\ \A k \in DOMAIN s.res : k = n \/ k \in DOMAIN r.res
                   /\ \A j, k \in DOMAIN s.res : j < k => j \in DOMAIN r.res
      <3>1. OneLonger(s.res, r.res, a)
        BY <1>1, <1>2, <2>1, AppendedRes, ZenonT(60)
      <3> QED
        BY <3>1, ZenonT(60) DEF OneLonger
    <2>3. ASSUME NEW b
          PROVE  b \in Range(s.res) <=> \E k \in DOMAIN s.path : k < s.i /\ b = s.path[k].pid /\ ps[b].cg = s.cg
      BY <1>3, <1>4, <1>9, <2>2 DEF a
    <2>5. ASSUME NEW i \in DOMAIN s.res, NEW j \in DOMAIN s.res, i < j
          PROVE  \E k, m \in DOMAIN s.path :
                   k < m /\ m < s.i /\ s.res[i] = s.path[k].pid /\ s.res[j] = s.path[m].pid
      <3>1. i \in DOMAIN r.res /\ s.res[i] = r.res[i]
        BY <2>2, <2>5, ZenonT(60)
      <3>2. CASE j = n
        <4>1. r.res[i] \in Range(r.res)
          BY <3>1 DEF Range
        <4>2. PICK k \in DOMAIN r.path : k < r.i /\ r.res[i] = r.path[k].pid
          BY <1>4, <4>1, Zenon
        <4>3. r.i \in DOMAIN s.path /\ r.i < s.i
          BY <1>1
        <4>4. s.res[j] = s.path[r.i].pid
          BY <2>2, <3>2, Zenon DEF a
        <4> QED
          BY <3>1, <4>2, <4>3, <4>4
      <3>3. CASE j \in DOMAIN r.res
        <4>1. s.res[j] = r.res[j]
          BY <2>2, <3>3, Zenon
        <4>2. PICK k \in DOMAIN s.path, m \in DOMAIN s.path :
                k < m /\ m < s.i /\ r.res[i] = s.path[k].pid /\ r.res[j] = s.path[m].pid
          BY <1>6, <2>5, <3>1, <3>3, Zenon DEF Ordered
        <4> QED
          BY <3>1, <4>1, <4>2, Zenon
      <3> QED
        BY <2>2, <3>2, <3>3, ZenonT(60)
    <2>6. Ordered(s.res, s.path, s.i)
      BY <2>5, Zenon DEF Ordered
    <2> QED
      BY <2>3, <2>6, Zenon DEF Picked
  <1> QED
    BY <1>8, <1>9

\* A query stays right when other processes than those it has found start and end.
LEMMA OthersChange ==
    ASSUME NEW ps, NEW ps2, NEW known, NEW r \in QueryRecord, NEW T, NEW T2, StillQuery(ps, known, r, T),
           r.at \in Stages \ {"read"} =>
             ps2[r.pid] = ps[r.pid] /\ \A k \in DOMAIN r.path : ps2[r.path[k].pid] = ps[r.path[k].pid],
           r.at \notin Stages => T2 = T,
           r.at \in Stages /\ LiveIn(ps2, r.pid) => SameCgroup(ps2, r.pid) \in T2
    PROVE  StillQuery(ps2, known, r, T2)
  <1>1. CASE r.at \notin Stages
    BY <1>1 DEF StillQuery, Stages
  <1>2. CASE r.at = "read"
    <2>1. r.path = <<>> /\ r.i = 1 /\ r.res = <<>>
      BY <1>2 DEF StillQuery, Stages
    <2>2. PathUp(ps2, r)
      BY <2>1 DEF PathUp
    <2> QED
      BY <1>2, <2>1, <2>2 DEF StillQuery, Stages
  <1>3. CASE r.at \in Stages \ {"read"}
    <2>1. /\ LiveIn(ps, r.pid) /\ PathUp(ps, r)
          /\ r.p = [start |-> ps[r.pid].start, parent |-> ps[r.pid].parent]
      BY <1>3 DEF StillQuery
    <2>2. ps2[r.pid] = ps[r.pid] /\ LiveIn(ps2, r.pid)
      BY <1>3, <2>1 DEF LiveIn
    <2>3. Links(ps2, r)
      <3>1. ASSUME NEW k \in DOMAIN r.path
            PROVE  /\ LiveIn(ps2, r.path[k].pid) /\ r.path[k] = Step(ps2, r.path[k].pid)
                   /\ r.path[k].pid = Before(r, k)
        <4>1. ps2[r.path[k].pid] = ps[r.path[k].pid]
          BY <1>3
        <4>2. /\ LiveIn(ps, r.path[k].pid) /\ r.path[k] = Step(ps, r.path[k].pid)
              /\ r.path[k].pid = Before(r, k)
          BY <2>1 DEF PathUp
        <4> QED
          BY <4>1, <4>2 DEF LiveIn, Step
      <3> QED
        BY <3>1 DEF Links
    <2>4. r.p.parent = ps2[r.pid].parent
      BY <2>1, <2>2
    <2>5. PathUp(ps2, r)
      BY <2>3, <2>4, WalkGoesUp
    <2>6. ASSUME Picked(ps, r) PROVE Picked(ps2, r)
      <3>1. \A k \in DOMAIN r.path : ps2[r.path[k].pid] = ps[r.path[k].pid]
        BY <1>3
      <3>2. ASSUME NEW a
            PROVE  a \in Range(r.res) <=>
                     \E k \in DOMAIN r.path : k < r.i /\ a = r.path[k].pid /\ ps2[a].cg = r.cg
        BY <2>6, <3>1 DEF Picked
      <3> QED
        BY <2>6, <3>2, Zenon DEF Picked
    <2> QED
      BY <1>3, <2>2, <2>5, <2>6 DEF StillQuery, Stages
  <1> QED
    BY <1>1, <1>2, <1>3

-----------------------------------------------------------------------------
(* What queries find on the way up. *)

\* A query moves on, and the others keep theirs.
LEMMA WayMoves ==
    ASSUME FactInv, WayInv, NEW q \in Queries, NEW r, OnTheWay(r),
           query' = [query EXCEPT ![q] = r], facts' = facts
    PROVE  WayInv'
  <1> SUFFICES ASSUME NEW d \in Queries PROVE OnTheWay(query[d])'
    BY DEF WayInv
  <1>1. OnTheWay(query'[d])
    BY DEF FactInv, WayInv
  <1> QED
    BY <1>1 DEF OnTheWay, WasTrue, Before

\* A query that fails has found nothing.
LEMMA FailedWay == OnTheWay([NoQuery EXCEPT !.at = "failed"])
  BY DEF OnTheWay, NoQuery, Stages

\* A query goes to another stage.
LEMMA StageWay ==
    ASSUME NEW r, OnTheWay(r), r.at \in Stages \ {"read"},
           NEW s, s.pid = r.pid, s.p = r.p, s.path = r.path, s.res = r.res,
           s.at \in {"cached", "cgroups", "ancestorCgroups", "done"},
           s.at \in {"cached", "cgroups"} => r.at # "ancestorCgroups"
    PROVE  OnTheWay(s)
  <1>1. \A k : Before(s, k) = Before(r, k)
    BY DEF Before
  <1>2. /\ WasTrue(r.pid, r.p) /\ \A k \in DOMAIN r.path : r.path[k].pid = Before(r, k)
        /\ Range(r.res) \subseteq {r.path[k].pid : k \in DOMAIN r.path}
        /\ r.at # "ancestorCgroups" => r.res = <<>>
    BY DEF OnTheWay
  <1> QED
    BY <1>1, <1>2 DEF OnTheWay, Stages

\* A walk takes one more step, to the parent of the last one.
LEMMA LongerWay ==
    ASSUME NEW r \in QueryRecord, OnTheWay(r), r.at \in {"cached", "ancestors"},
           NEW f \in Ancestor, f.pid = Top(r)
    PROVE  OnTheWay([r EXCEPT !.path = Append(@, f)])
  <1> DEFINE n == Len(r.path)
  <1>1. PICK s : s = [r EXCEPT !.path = Append(@, f)]
    BY Zenon
  <1>2. s.at = r.at /\ s.pid = r.pid /\ s.p = r.p /\ s.path = Append(r.path, f) /\ s.res = r.res
    BY <1>1 DEF QueryRecord
  <1>3. r.path \in Seq(Ancestor)
    BY DEF QueryRecord
  <1>4. /\ s.path[n + 1] = f /\ \A k \in DOMAIN r.path : s.path[k] = r.path[k]
        /\ \A k \in DOMAIN s.path : k = n + 1 \/ k \in DOMAIN r.path
    <2>1. /\ Append(r.path, f)[n + 1] = f /\ \A k \in DOMAIN r.path : Append(r.path, f)[k] = r.path[k]
          /\ \A k \in DOMAIN Append(r.path, f) : k = n + 1 \/ k \in DOMAIN r.path
      BY <1>3, AppendedPath, Zenon
    <2> QED
      BY <1>2, <2>1, Zenon
  <1>5. Before(s, n + 1) = Top(r) /\ \A k \in DOMAIN r.path : Before(s, k) = Before(r, k)
    BY <1>2, LongerBefore
  <1>6. /\ WasTrue(r.pid, r.p) /\ \A k \in DOMAIN r.path : r.path[k].pid = Before(r, k)
        /\ r.res = <<>>
    BY DEF OnTheWay, Stages
  <1> HIDE DEF n
  <1>7. \A k \in DOMAIN s.path : s.path[k].pid = Before(s, k)
    BY <1>4, <1>5, <1>6
  <1>8. Range(s.res) = {}
    BY <1>2, <1>6 DEF Range
  <1>9. OnTheWay(s)
    BY <1>2, <1>6, <1>7, <1>8 DEF OnTheWay
  <1> QED
    BY <1>1, <1>9

\* A query starts with the entry of the tree, or with nothing.
LEMMA FindWay ==
    ASSUME FactInv, WayInv, NEW q \in Queries, NEW pid \in Asked, Find(q, pid)
    PROVE  WayInv'
  <1>1. PICK r : r = [NoQuery EXCEPT !.pid = pid,
                   !.at = IF pid \in Known THEN "check" ELSE "read",
                   !.p = IF pid \in Known THEN tree[pid] ELSE @]
    OBVIOUS
  <1>2. pid \in Known => WasTrue(pid, tree[pid])
    BY DEF Known, FactInv, MapOfFacts
  <1>3. /\ r.at = IF pid \in Known THEN "check" ELSE "read"
        /\ r.pid = pid /\ r.path = <<>> /\ r.res = <<>>
        /\ pid \in Known => r.p = tree[pid]
    BY <1>1 DEF NoQuery
  <1>4. Range(r.res) = {}
    BY <1>3 DEF Range
  <1>5. OnTheWay(r)
    BY <1>2, <1>3, <1>4 DEF OnTheWay, Stages
  <1> QED
    BY <1>1, <1>5, WayMoves, Zenon DEF Find

\* A process is read: it is the first of a new walk.
LEMMA ReadWay ==
    ASSUME FactInv, WayInv, NEW q \in Queries, Read(q)
    PROVE  WayInv'
  <1>0. /\ query[q] \in QueryRecord /\ query[q].pid \in PIDs /\ OnTheWay(query[q])
        /\ query[q].at = "read" /\ facts' = facts
    BY DEF FactInv, QueryInv, WayInv, Read, Stages
  <1>1. CASE ~Alive(query[q].pid)
    BY <1>0, <1>1, FailedWay, WayMoves, Zenon DEF Read, Fail
  <1>2. CASE Alive(query[q].pid)
    <2>1. PICK r : r = [query[q] EXCEPT !.at = "ancestors", !.p = Entry(query[q].pid)]
      OBVIOUS
    <2>2. query' = [query EXCEPT ![q] = r]
      BY <1>2, <2>1, Zenon DEF Read, FactInv
    <2>3. /\ r.at = "ancestors" /\ r.pid = query[q].pid /\ r.p = Entry(query[q].pid)
          /\ r.path = query[q].path /\ r.res = query[q].res
      BY <1>0, <2>1 DEF QueryRecord
    <2>4. WasTrue(query[q].pid, Entry(query[q].pid))
      BY <1>0, <1>2, EntryWasTrue DEF FactInv
    <2>5. query[q].path = <<>> /\ query[q].res = <<>>
      BY <1>0 DEF OnTheWay, Stages
    <2>6. Range(r.res) = {} /\ r.path = <<>> /\ r.res = <<>> /\ WasTrue(r.pid, r.p)
      BY <2>3, <2>4, <2>5 DEF Range
    <2>7. OnTheWay(r)
      BY <2>3, <2>6 DEF OnTheWay
    <2> QED
      BY <1>0, <2>2, <2>7, WayMoves, Zenon
  <1> QED
    BY <1>1, <1>2

\* A step of the walk, in the tree or in procfs.
LEMMA WalkWay ==
    ASSUME FactInv, WayInv, NEW q \in Queries, Cached(q) \/ ReadAncestor(q)
    PROVE  WayInv'
  <1>0. /\ query[q] \in QueryRecord /\ OnTheWay(query[q]) /\ facts' = facts
        /\ query[q].at \in {"cached", "ancestors"} /\ query[q].at \in Stages \ {"read"}
        /\ Top(query[q]) = Parent(q)
    BY DEF FactInv, WayInv, Cached, ReadAncestor, Stages, Top, Parent
  <1>1. ASSUME NEW e, Found(Parent(q), e) \in Ancestor,
               query' = [query EXCEPT ![q] = [query[q] EXCEPT !.path = Append(@, Found(Parent(q), e))]]
        PROVE  WayInv'
    <2>1. Found(Parent(q), e).pid = Top(query[q])
      BY <1>0 DEF Found
    <2>2. OnTheWay([query[q] EXCEPT !.path = Append(@, Found(Parent(q), e))])
      BY <1>0, <1>1, <2>1, LongerWay, Zenon
    <2> QED
      BY <1>0, <1>1, <2>2, WayMoves, Zenon
  <1>2. CASE Cached(q) /\ Parent(q) \in Known
    <2>1. Parent(q) \in PIDs /\ tree[Parent(q)] \in Entries
      BY <1>2 DEF Known, FactInv, MapOfFacts
    <2>2. Found(Parent(q), tree[Parent(q)]) \in Ancestor
      BY <2>1 DEF Found, Ancestor, Entries
    <2>3. query' = [query EXCEPT ![q] = [query[q] EXCEPT !.path = Append(@, Found(Parent(q), tree[Parent(q)]))]]
      BY <1>2 DEF Cached, FactInv
    <2> QED
      BY <1>1, <2>2, <2>3, Zenon
  <1>3. CASE Cached(q) /\ Parent(q) \notin Known
    <2>1. PICK s : s = [query[q] EXCEPT !.at = "cgroups"]
      BY Zenon
    <2>2. query' = [query EXCEPT ![q] = s]
      BY <1>3, <2>1 DEF Cached, FactInv
    <2>3. /\ s.at = "cgroups" /\ s.pid = query[q].pid /\ s.p = query[q].p
          /\ s.path = query[q].path /\ s.res = query[q].res
      BY <1>0, <2>1 DEF QueryRecord
    <2>4. OnTheWay(s)
      BY <1>0, <2>3, StageWay
    <2> QED
      BY <1>0, <2>2, <2>4, WayMoves, Zenon
  <1>4. CASE ReadAncestor(q) /\ Alive(Parent(q))
    <2>1. Parent(q) \in PIDs
      BY <1>4, ParentIsPid DEF ReadAncestor
    <2>2. Found(Parent(q), Entry(Parent(q))) \in Ancestor
      BY <1>4, <2>1, EntryWasTrue DEF FactInv
    <2>3. query' = [query EXCEPT ![q] = [query[q] EXCEPT !.path = Append(@, Found(Parent(q), Entry(Parent(q))))]]
      BY <1>4 DEF ReadAncestor, FactInv
    <2> QED
      BY <1>1, <2>2, <2>3, Zenon
  <1>5. CASE ReadAncestor(q) /\ ~Alive(Parent(q))
    BY <1>0, <1>5, FailedWay, WayMoves, Zenon DEF ReadAncestor, Fail
  <1> QED
    BY <1>2, <1>3, <1>4, <1>5

\* Check, Remember and OwnCgroup leave the walk as it is.
LEMMA RestWay ==
    ASSUME FactInv, WayInv, NEW q \in Queries, Check(q) \/ Remember(q) \/ OwnCgroup(q)
    PROVE  WayInv'
  <1>0. /\ query[q] \in QueryRecord /\ OnTheWay(query[q]) /\ facts' = facts
        /\ query[q].at \in {"check", "ancestors", "cgroups"} /\ query[q].at \in Stages \ {"read"}
    BY DEF FactInv, WayInv, Check, Remember, OwnCgroup, Stages
  <1>1. ASSUME NEW s, query' = [query EXCEPT ![q] = s], s.pid = query[q].pid, s.p = query[q].p,
               s.path = query[q].path, s.res = query[q].res, s.at \in {"cached", "cgroups", "ancestorCgroups"}
        PROVE  WayInv'
    <2>1. OnTheWay(s)
      BY <1>0, <1>1, StageWay
    <2> QED
      BY <1>0, <1>1, <2>1, WayMoves, Zenon
  <1>2. ASSUME query' = Fail(q) PROVE WayInv'
    BY <1>0, <1>2, FailedWay, WayMoves, Zenon DEF Fail
  <1>3. CASE Check(q)
    <2>1. CASE ~Alive(query[q].pid)
      BY <1>2, <1>3, <2>1 DEF Check
    <2>2. CASE Alive(query[q].pid) /\ proc[query[q].pid].start # query[q].p.start
      <3>1. PICK s : s = [query[q] EXCEPT !.at = "read"]
        BY Zenon
      <3>2. query' = [query EXCEPT ![q] = s]
        BY <1>3, <2>2, <3>1 DEF Check, FactInv
      <3>3. s.at = "read" /\ s.path = query[q].path /\ s.res = query[q].res
        BY <1>0, <3>1 DEF QueryRecord
      <3>4. query[q].path = <<>> /\ query[q].res = <<>>
        BY <1>0, <1>3 DEF OnTheWay, Stages, Check
      <3>5. Range(s.res) = {} /\ s.path = <<>> /\ s.res = <<>>
        BY <3>3, <3>4 DEF Range
      <3>6. OnTheWay(s)
        BY <3>3, <3>5 DEF OnTheWay
      <3> QED
        BY <1>0, <3>2, <3>6, WayMoves, Zenon
    <2>3. CASE Alive(query[q].pid) /\ proc[query[q].pid].start = query[q].p.start
      <3>1. PICK s : s = [query[q] EXCEPT !.at = "cached"]
        BY Zenon
      <3>2. query' = [query EXCEPT ![q] = s]
        BY <1>3, <2>3, <3>1 DEF Check, FactInv
      <3>3. /\ s.at = "cached" /\ s.pid = query[q].pid /\ s.p = query[q].p
            /\ s.path = query[q].path /\ s.res = query[q].res
        BY <1>0, <3>1 DEF QueryRecord
      <3> QED
        BY <1>1, <3>2, <3>3
    <2> QED
      BY <2>1, <2>2, <2>3
  <1>4. CASE Remember(q)
    <2>1. CASE query' = query
      <3> SUFFICES ASSUME NEW d \in Queries PROVE OnTheWay(query[d])'
        BY DEF WayInv
      <3>1. OnTheWay(query'[d])
        BY <2>1 DEF WayInv
      <3> QED
        BY <1>0, <3>1 DEF OnTheWay, WasTrue, Before
    <2>2. CASE query' = [query EXCEPT ![q].at = "cgroups"]
      <3>1. PICK s : s = [query[q] EXCEPT !.at = "cgroups"]
        BY Zenon
      <3>2. query' = [query EXCEPT ![q] = s]
        BY <2>2, <3>1 DEF FactInv
      <3>3. /\ s.at = "cgroups" /\ s.pid = query[q].pid /\ s.p = query[q].p
            /\ s.path = query[q].path /\ s.res = query[q].res
        BY <1>0, <3>1 DEF QueryRecord
      <3> QED
        BY <1>1, <3>2, <3>3
    <2> QED
      BY <1>4, <2>1, <2>2, Zenon DEF Remember
  <1>5. CASE OwnCgroup(q)
    <2>1. CASE ~Alive(query[q].pid)
      BY <1>2, <1>5, <2>1 DEF OwnCgroup
    <2>2. CASE Alive(query[q].pid)
      <3>1. PICK s : s = [query[q] EXCEPT !.at = "ancestorCgroups", !.cg = proc[query[q].pid].cg]
        OBVIOUS
      <3>2. query' = [query EXCEPT ![q] = s]
        BY <1>5, <2>2, <3>1, Zenon DEF OwnCgroup, FactInv
      <3>3. /\ s.at = "ancestorCgroups" /\ s.pid = query[q].pid /\ s.p = query[q].p
            /\ s.path = query[q].path /\ s.res = query[q].res
        BY <1>0, <3>1 DEF QueryRecord
      <3> QED
        BY <1>1, <3>2, <3>3
    <2> QED
      BY <2>1, <2>2
  <1> QED
    BY <1>3, <1>4, <1>5

\* An ancestor that is picked is one of the walk.
LEMMA AncestorCgroupWay ==
    ASSUME FactInv, WayInv, NEW q \in Queries, AncestorCgroup(q)
    PROVE  WayInv'
  <1> DEFINE r == query[q]
             a == r.path[r.i].pid
             res == IF proc[a].cg = r.cg THEN Append(r.res, a) ELSE r.res
  <1>0. r \in QueryRecord /\ OnTheWay(r) /\ facts' = facts /\ r.at = "ancestorCgroups"
    BY Zenon DEF FactInv, WayInv, AncestorCgroup
  <1>1. CASE r.i > Len(r.path)
    <2>1. PICK s : s = [r EXCEPT !.at = "done"]
      BY Zenon
    <2>2. query' = [query EXCEPT ![q] = s]
      BY <1>1, <2>1 DEF AncestorCgroup, FactInv
    <2>3. s.at = "done" /\ s.pid = r.pid /\ s.p = r.p /\ s.path = r.path /\ s.res = r.res
      BY <1>0, <2>1 DEF QueryRecord
    <2> HIDE DEF r
    <2>4. OnTheWay(s)
      BY <1>0, <2>3, StageWay DEF Stages
    <2> QED
      BY <1>0, <2>2, <2>4, WayMoves, Zenon
  <1>2. CASE ~(r.i > Len(r.path)) /\ ~Alive(a)
    <2>1. query' = Fail(q)
      BY <1>2 DEF AncestorCgroup
    <2> QED
      BY <1>0, <2>1, FailedWay, WayMoves, Zenon DEF Fail
  <1>3. CASE ~(r.i > Len(r.path)) /\ Alive(a)
    <2>1. PICK s : s = [r EXCEPT !.i = @ + 1, !.res = res]
      OBVIOUS
    <2>2. query' = [query EXCEPT ![q] = s]
      BY <1>3, <2>1, Zenon DEF AncestorCgroup, FactInv
    <2>3. r.path \in Seq(Ancestor) /\ r.i \in DOMAIN r.path /\ r.res \in Seq(PIDs) /\ a \in PIDs
      <3>1. r.path \in Seq(Ancestor) /\ r.i \in Nat \ {0} /\ r.res \in Seq(PIDs)
        BY <1>0 DEF QueryRecord
      <3>2. r.i \in DOMAIN r.path
        BY <1>3, <3>1
      <3>3. r.path[r.i] \in Ancestor
        BY <3>1, <3>2
      <3> QED
        BY <3>1, <3>2, <3>3 DEF Ancestor
    <2> HIDE DEF res
    <2>4. s.at = r.at /\ s.pid = r.pid /\ s.p = r.p /\ s.path = r.path /\ s.res = res
      BY <1>0, <2>1 DEF QueryRecord
    <2> HIDE DEF r
    <2>5. /\ WasTrue(r.pid, r.p) /\ \A k \in DOMAIN r.path : r.path[k].pid = Before(r, k)
          /\ Range(r.res) \subseteq {r.path[k].pid : k \in DOMAIN r.path}
      BY <1>0 DEF OnTheWay, Stages
    <2>6. Range(res) \subseteq Range(r.res) \cup {a}
      <3> HIDE DEF a
      <3>1. OneLonger(Append(r.res, a), r.res, a)
        BY <2>3, AppendedRes
      <3>2. Range(Append(r.res, a)) \subseteq Range(r.res) \cup {a}
        BY <3>1, ZenonT(60) DEF OneLonger
      <3> QED
        BY <3>2 DEF res
    <2>7. a \in {r.path[k].pid : k \in DOMAIN r.path}
      BY <2>3
    <2>8. \A k : Before(s, k) = Before(r, k)
      BY <2>4 DEF Before
    <2> HIDE DEF a
    <2>9. OnTheWay(s)
      BY <1>0, <2>4, <2>5, <2>6, <2>7, <2>8 DEF OnTheWay, Stages
    <2> QED
      BY <1>0, <2>2, <2>9, WayMoves, Zenon
  <1> QED
    BY <1>1, <1>2, <1>3

\* Every step leaves what queries have found, and facts stay facts.
LEMMA NextWay == FactInv /\ WayInv /\ [TreeNext]_tree_vars => WayInv'
  <1> SUFFICES ASSUME FactInv, WayInv, [TreeNext]_tree_vars PROVE WayInv'
    OBVIOUS
  <1>1. ASSUME query' = query, facts \subseteq facts' PROVE WayInv'
    <2> SUFFICES ASSUME NEW d \in Queries PROVE OnTheWay(query[d])'
      BY DEF WayInv
    <2>1. OnTheWay(query[d]) /\ query'[d] = query[d]
      BY <1>1 DEF WayInv
    <2> QED
      BY <1>1, <2>1 DEF OnTheWay, WasTrue, Before
  <1>2. CASE UNCHANGED tree_vars
    BY <1>1, <1>2 DEF tree_vars
  <1>3. ASSUME NEW p \in PIDs, NEW c \in PIDs, NEW cg \in Cgroups, Fork(p, c, cg) PROVE WayInv'
    BY <1>1, <1>3 DEF Fork, TruthNow, agent
  <1>4. ASSUME NEW p \in PIDs, Exit(p) PROVE WayInv'
    BY <1>1, <1>4 DEF Exit, TruthNow, agent
  <1>5. ASSUME NEW q \in Queries, Answer(q) PROVE WayInv'
    BY <1>5, ReadWay, WalkWay, RestWay, AncestorCgroupWay DEF Answer
  <1>6. ASSUME NEW q \in Queries, NEW pid \in Asked, Find(q, pid) PROVE WayInv'
    BY <1>6, FindWay
  <1>7. CASE Update
    BY <1>1, <1>7, Zenon DEF Update, FullUpdate, UpdateProc, UpdateStat, StoreTree
  <1> QED
    BY <1>2, <1>3, <1>4, <1>5, <1>6, <1>7 DEF TreeNext
=============================================================================
