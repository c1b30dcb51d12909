--------------------------- MODULE AncestorProofs ---------------------------
(***************************************************************************)
(* Answers of ProcessTree, for all PIDs, cgroups, queries and bounds: they   *)
(* follow facts (WayInv), and until something that the agent has read         *)
(* becomes false they are the ancestors (StillInv). The invariants, and what  *)
(* walks up find, are in ProcessTreeProofs.                                  *)
(***************************************************************************)
EXTENDS ProcessTreeProofs

-----------------------------------------------------------------------------
(* Steps while what the agent has read is true. *)

\* A query moves on: procfs and the tree stay, and so do the others.
LEMMA StillMoves ==
    ASSUME FactInv, StillNow, NEW q \in Queries, NEW r, NEW T,
           query' = [query EXCEPT ![q] = r], UNCHANGED <<world, tree, scheduled, update>>,
           DOMAIN truth' = Queries, truth'[q] = T, \A d \in Queries \ {q} : truth'[d] = truth[d],
           StillQuery(proc, Known, r, T)
    PROVE  StillNow'
  <1>1. StillWorld' /\ StillTree'
    BY DEF StillNow, StillWorld, StillTree, world, Known, Alive, Entry
  <1>2. proc' = proc /\ Known' = Known
    BY DEF world, Known
  <1>3. ASSUME NEW d \in Queries PROVE StillQuery(proc', Known', query'[d], truth'[d])
    <2>1. CASE d = q
      <3>1. query'[d] = r /\ truth'[d] = T
        BY <2>1 DEF FactInv
      <3> QED
        BY <1>2, <3>1
    <2>2. CASE d # q
      <3>1. query'[d] = query[d] /\ truth'[d] = truth[d]
        BY <2>2 DEF FactInv
      <3> QED
        BY <1>2, <3>1 DEF StillNow
    <2> QED
      BY <2>1, <2>2
  <1> QED
    BY <1>1, <1>3 DEF StillNow

\* The same for a query that goes on.
LEMMA StillAnswers ==
    ASSUME FactInv, StillNow, NEW q \in Queries, NEW r,
           query' = [query EXCEPT ![q] = r], UNCHANGED <<world, tree, scheduled, update, truth>>,
           StillQuery(proc, Known, r, truth[q])
    PROVE  StillNow'
  <1>1. DOMAIN truth = Queries
    BY DEF StillNow
  <1> QED
    BY <1>1, StillMoves, Zenon

\* A query that fails says nothing.
LEMMA StillFails ==
    ASSUME FactInv, StillNow, NEW q \in Queries,
           query' = Fail(q), UNCHANGED <<world, tree, scheduled, update, truth>>
    PROVE  StillNow'
  <1>1. StillQuery(proc, Known, [NoQuery EXCEPT !.at = "failed"], truth[q])
    BY DEF StillQuery, NoQuery, Stages
  <1> QED
    BY <1>1, StillAnswers, Zenon DEF Fail

\* What a process looks like to a query.
LEMMA StillProcess ==
    ASSUME FactInv, NEW pid \in PIDs
    PROVE  /\ Alive(pid) <=> LiveIn(proc, pid)
           /\ Entry(pid) = [start |-> proc[pid].start, parent |-> proc[pid].parent]
           /\ Entry(pid).parent = proc[pid].parent
           /\ Found(pid, Entry(pid)) = Step(proc, pid)
           /\ Alive(pid) => Step(proc, pid) \in Ancestor
  <1>1. Alive(pid) => Found(pid, Entry(pid)) \in Ancestor
    BY EntryWasTrue DEF FactInv
  <1>2. Found(pid, Entry(pid)) = Step(proc, pid)
    BY DEF Found, Entry, Step
  <1> QED
    BY <1>1, <1>2 DEF Alive, LiveIn, Entry

\* find gives the process as it is.
LEMMA FindStill ==
    ASSUME FactInv, StillNow, NEW q \in Queries, NEW pid \in Asked, Find(q, pid)
    PROVE  StillNow'
  <1> DEFINE T == IF Alive(pid) THEN {SameCgroup(proc, pid)} ELSE {}
  <1>1. PICK r : r = [NoQuery EXCEPT !.pid = pid,
                   !.at = IF pid \in Known THEN "check" ELSE "read",
                   !.p = IF pid \in Known THEN tree[pid] ELSE @]
    OBVIOUS
  <1>2. pid \in PIDs
    BY TreeAssumption
  <1>3. /\ r.at = IF pid \in Known THEN "check" ELSE "read"
        /\ r.pid = pid /\ r.path = <<>> /\ r.i = 1 /\ r.res = <<>>
        /\ r.p = IF pid \in Known THEN tree[pid] ELSE [start |-> 0, parent |-> 0]
    BY <1>1 DEF NoQuery
  <1>4. pid \in Known => LiveIn(proc, pid) /\ tree[pid] = [start |-> proc[pid].start, parent |-> proc[pid].parent]
    BY <1>2, StillProcess DEF StillNow, StillTree
  <1>5. LiveIn(proc, pid) => SameCgroup(proc, pid) \in T
    BY <1>2, StillProcess
  <1> HIDE DEF T
  <1>6. PathUp(proc, r)
    BY <1>3 DEF PathUp
  <1>7. StillQuery(proc, Known, r, T)
    BY <1>3, <1>4, <1>5, <1>6 DEF StillQuery, Stages
  <1>8. truth' = [truth EXCEPT ![q] = T] /\ DOMAIN truth = Queries
    BY DEF Find, StillNow, T
  <1>9. DOMAIN truth' = Queries /\ truth'[q] = T /\ \A d \in Queries \ {q} : truth'[d] = truth[d]
    BY <1>8
  <1>10. query' = [query EXCEPT ![q] = r] /\ UNCHANGED <<world, tree, scheduled, update>>
    BY <1>1 DEF Find
  <1> QED
    BY <1>7, <1>9, <1>10, StillMoves, Zenon

\* An entry of the tree, process in tree.go.
LEMMA EntryIs ==
    \A p, a, b : p = [start |-> a, parent |-> b] => p.start = a /\ p.parent = b
  OBVIOUS

\* The entry is that of the process, so that no update is asked for.
LEMMA CheckStill ==
    ASSUME FactInv, StillNow, NEW q \in Queries, Check(q)
    PROVE  StillNow'
  <1> DEFINE r == query[q]
  <1>0. r \in QueryRecord /\ r.pid \in PIDs /\ r.at = "check" /\ StillQuery(proc, Known, r, truth[q])
    BY DEF FactInv, QueryInv, StillNow, Check, Stages
  <1>1. LiveIn(proc, r.pid) /\ r.p = [start |-> proc[r.pid].start, parent |-> proc[r.pid].parent]
    BY <1>0 DEF StillQuery, Stages
  <1>2. Alive(r.pid) /\ r.p.start = proc[r.pid].start
    <2>1. Alive(r.pid)
      BY <1>0, <1>1, StillProcess, Zenon
    <2>2. PICK p, a, b : p = r.p /\ a = proc[r.pid].start /\ b = proc[r.pid].parent
      BY Zenon
    <2>3. p = [start |-> a, parent |-> b]
      BY <1>1, <2>2, Zenon
    <2>4. p.start = a
      BY <2>3, EntryIs, Zenon
    <2> QED
      BY <2>1, <2>2, <2>4, Zenon
  <1>3. query' = [query EXCEPT ![q] = [r EXCEPT !.at = "cached"]] /\ scheduled' = FALSE
    BY <1>2, Zenon DEF Check, FactInv, StillNow, StillTree
  <1>4. UNCHANGED <<world, tree, scheduled, update, truth>>
    BY <1>3, Zenon DEF Check, StillNow, StillTree
  <1>5. PICK s : s = [r EXCEPT !.at = "cached"]
    BY Zenon
  <1>6. /\ s.at = "cached" /\ s.pid = r.pid /\ s.p = r.p /\ s.path = r.path /\ s.i = r.i /\ s.res = r.res
    BY <1>0, <1>5 DEF QueryRecord
  <1> HIDE DEF r
  <1>7. r.path = <<>> /\ r.i = 1 /\ r.res = <<>> /\ r.pid \in Known /\ SameCgroup(proc, r.pid) \in truth[q]
    BY <1>0, <1>1 DEF StillQuery, Stages
  <1>8. PathUp(proc, s)
    BY <1>6, <1>7 DEF PathUp
  <1>9. StillQuery(proc, Known, s, truth[q])
    <2>1. s.path = <<>> /\ s.i = 1 /\ s.res = <<>> /\ s.pid \in Known /\ LiveIn(proc, s.pid)
      BY <1>1, <1>6, <1>7, Zenon
    <2>2. s.p = [start |-> proc[s.pid].start, parent |-> proc[s.pid].parent]
      BY <1>1, <1>6, Zenon
    <2>3. SameCgroup(proc, s.pid) \in truth[q]
      BY <1>6, <1>7, Zenon
    <2>4. \A k \in DOMAIN s.path : s.path[k].pid \in Known
      BY <2>1
    <2>5. s.at \notin {"cgroups", "ancestorCgroups"} /\ s.at # "ancestorCgroups" /\ s.at # "done"
      BY <1>6
    <2> QED
      BY <1>8, <2>1, <2>2, <2>3, <2>4, <2>5, ZenonT(60) DEF StillQuery
  <1> QED
    BY <1>3, <1>4, <1>5, <1>9, StillAnswers, Zenon

\* The next process of a walk runs and, if the walk is in the tree, is in the tree.
LEMMA StillTop ==
    ASSUME FactInv, StillNow, NEW q \in Queries, query[q].at \in Stages \ {"read"}
    PROVE  LET r == query[q]
           IN  /\ r \in QueryRecord /\ r.pid \in PIDs /\ LiveIn(proc, r.pid)
               /\ PathUp(proc, r) /\ r.p.parent = proc[r.pid].parent
               /\ StillQuery(proc, Known, r, truth[q])
               /\ Top(r) = Parent(q) /\ Top(r) \in PIDs \cup {0}
               /\ Top(r) # 0 => Alive(Top(r)) /\ LiveIn(proc, Top(r))
               /\ r.at = "cached" => Top(r) \in Known \cup {0}
  <1> DEFINE r == query[q]
             n == Len(r.path)
  <1>1. r \in QueryRecord /\ r.pid \in PIDs /\ StillQuery(proc, Known, r, truth[q])
    BY DEF FactInv, QueryInv, StillNow
  <1>2. /\ LiveIn(proc, r.pid) /\ PathUp(proc, r)
        /\ r.p = [start |-> proc[r.pid].start, parent |-> proc[r.pid].parent]
    BY <1>1 DEF StillQuery
  <1>3. r.p.parent = proc[r.pid].parent
    <2>1. PICK p, a, b : p = r.p /\ a = proc[r.pid].start /\ b = proc[r.pid].parent
      BY Zenon
    <2>2. p = [start |-> a, parent |-> b]
      BY <1>2, <2>1, Zenon
    <2>3. p.parent = b
      BY <2>2, EntryIs, Zenon
    <2> QED
      BY <2>1, <2>3, Zenon
  <1>4. Top(r) = Parent(q) /\ Top(r) \in PIDs \cup {0}
    <2>1. Top(r) = Parent(q)
      BY DEF Top, Parent
    <2> QED
      BY <2>1, ParentIsPid
  <1> HIDE DEF r
  <1>5. \E p \in PIDs : LiveIn(proc, p) /\ Top(r) = proc[p].parent /\ (r.at = "cached" => p \in Known)
    <2>1. CASE r.path = <<>>
      <3>1. r.at = "cached" => r.pid \in Known
        BY <1>1 DEF StillQuery
      <3> QED
        BY <1>1, <1>2, <1>3, <2>1, <3>1 DEF Top
    <2>2. CASE r.path # <<>>
      <3>1. n \in DOMAIN r.path /\ Top(r) = proc[r.path[n].pid].parent
        BY <1>1, <1>2, <2>2, LastStep
      <3>2. r.path[n].pid \in PIDs
        <4>1. r.path \in Seq(Ancestor)
          BY <1>1 DEF QueryRecord
        <4>2. r.path[n] \in Ancestor
          BY <3>1, <4>1
        <4> QED
          BY <4>2 DEF Ancestor
      <3>3. LiveIn(proc, r.path[n].pid) /\ (r.at = "cached" => r.path[n].pid \in Known)
        BY <1>1, <1>2, <3>1 DEF PathUp, StillQuery
      <3> QED
        BY <3>1, <3>2, <3>3
    <2> QED
      BY <2>1, <2>2
  <1>6. PICK p \in PIDs : LiveIn(proc, p) /\ Top(r) = proc[p].parent /\ (r.at = "cached" => p \in Known)
    BY <1>5
  <1>7. Top(r) # 0 => Alive(Top(r)) /\ LiveIn(proc, Top(r))
    <2>1. Alive(p)
      BY <1>6, StillProcess
    <2>2. Top(r) # 0 => Alive(Top(r))
      BY <1>6, <2>1 DEF StillNow, StillWorld
    <2> QED
      BY <2>2 DEF Alive, LiveIn
  <1>8. r.at = "cached" => Top(r) \in Known \cup {0}
    BY <1>6 DEF StillNow, StillTree
  <1> QED
    BY <1>1, <1>2, <1>3, <1>4, <1>7, <1>8 DEF r

\* A walk takes one more step, in the tree or in procfs.
LEMMA StillLonger ==
    ASSUME FactInv, StillNow, NEW q \in Queries, query[q].at \in {"cached", "ancestors"},
           Parent(q) # 0, query[q].at = "cached" => Parent(q) \in Known,
           NEW s, s = [query[q] EXCEPT !.path = Append(@, Step(proc, Parent(q)))]
    PROVE  StillQuery(proc, Known, s, truth[q])
  <1> DEFINE r == query[q]
             t == Parent(q)
  <1>0. query[q].at \in Stages \ {"read"}
    BY DEF Stages
  <1>1. /\ r \in QueryRecord /\ r.pid \in PIDs /\ LiveIn(proc, r.pid)
        /\ PathUp(proc, r) /\ r.p.parent = proc[r.pid].parent
        /\ StillQuery(proc, Known, r, truth[q])
        /\ Top(r) = t /\ t \in PIDs /\ Alive(t) /\ LiveIn(proc, t)
    BY <1>0, StillTop
  <1>2. Step(proc, t) \in Ancestor /\ Step(proc, t).pid = t
    BY <1>1, StillProcess DEF Step
  <1>3. /\ s.at = r.at /\ s.pid = r.pid /\ s.p = r.p /\ s.path = Append(r.path, Step(proc, t))
        /\ s.i = r.i /\ s.res = r.res /\ r.path \in Seq(Ancestor)
    BY <1>1 DEF QueryRecord
  <1>4. r.at \in {"cached", "ancestors"} /\ (r.at = "cached" => t \in Known)
    OBVIOUS
  <1> HIDE DEF r, t
  <1>5. PathUp(proc, s)
    <2>1. /\ Top(r) \in PIDs /\ LiveIn(proc, Top(r)) /\ Step(proc, Top(r)) \in Ancestor
          /\ s.path = Append(r.path, Step(proc, Top(r))) /\ s.pid = r.pid /\ s.p = r.p
          /\ r \in QueryRecord /\ PathUp(proc, r) /\ r.p.parent = proc[r.pid].parent
      BY <1>1, <1>2, <1>3
    <2> QED
      BY <2>1, LongerWalk, ZenonT(30)
  <1>6. s.at = "cached" => \A k \in DOMAIN s.path : s.path[k].pid \in Known
    <2>1. SUFFICES ASSUME s.at = "cached", NEW k \in DOMAIN s.path PROVE s.path[k].pid \in Known
      BY Zenon
    <2>2. \A m \in DOMAIN r.path : r.path[m].pid \in Known
      BY <1>1, <1>3, <2>1, Zenon DEF StillQuery
    <2>3. \A f \in Ancestor : \A m \in DOMAIN Append(r.path, f) :
            (m \in DOMAIN r.path /\ Append(r.path, f)[m] = r.path[m]) \/ Append(r.path, f)[m] = f
      BY <1>3
    <2>4. (k \in DOMAIN r.path /\ s.path[k] = r.path[k]) \/ s.path[k] = Step(proc, t)
      BY <1>2, <1>3, <2>1, <2>3, Zenon
    <2> QED
      BY <1>2, <1>3, <1>4, <2>1, <2>2, <2>4, Zenon
  <1> QED
    BY <1>1, <1>3, <1>4, <1>5, <1>6, Zenon DEF StillQuery, Stages, r

\* A walk in the tree follows the parents of the processes, and ends at the top.
LEMMA CachedStill ==
    ASSUME FactInv, StillNow, NEW q \in Queries, Cached(q)
    PROVE  StillNow'
  <1>0. query[q].at = "cached" /\ query[q].at \in Stages \ {"read"}
    BY DEF Cached, Stages
  <1>1. Parent(q) \in Known \cup {0} /\ UNCHANGED <<world, tree, scheduled, update, truth>>
    BY <1>0, StillTop DEF Cached
  <1>2. 0 \notin Known
    BY TreeConstants DEF Known, FactInv, MapOfFacts
  <1>3. CASE Parent(q) \in Known
    <2>1. Parent(q) \in PIDs /\ tree[Parent(q)] = Entry(Parent(q))
      BY <1>3 DEF Known, FactInv, MapOfFacts, StillNow, StillTree
    <2>2. Found(Parent(q), tree[Parent(q)]) = Step(proc, Parent(q))
      BY <2>1, StillProcess
    <2>3. PICK s : s = [query[q] EXCEPT !.path = Append(@, Step(proc, Parent(q)))]
      BY Zenon
    <2>4. query' = [query EXCEPT ![q] = s]
      BY <1>3, <2>2, <2>3 DEF Cached, FactInv
    <2>5. StillQuery(proc, Known, s, truth[q])
      BY <1>0, <1>2, <1>3, <2>3, StillLonger
    <2> QED
      BY <1>1, <2>4, <2>5, StillAnswers, Zenon
  <1>4. CASE Parent(q) \notin Known
    <2>1. PICK s : s = [query[q] EXCEPT !.at = "cgroups"]
      BY Zenon
    <2>2. query' = [query EXCEPT ![q] = s]
      BY <1>4, <2>1 DEF Cached, FactInv
    <2> DEFINE r == query[q]
    <2>3. /\ r \in QueryRecord /\ LiveIn(proc, r.pid) /\ PathUp(proc, r)
          /\ StillQuery(proc, Known, r, truth[q]) /\ Top(r) = 0 /\ r.at = "cached"
      BY <1>0, <1>1, <1>4, StillTop
    <2>4. /\ s.at = "cgroups" /\ s.pid = r.pid /\ s.p = r.p /\ s.path = r.path
          /\ s.i = r.i /\ s.res = r.res
      BY <2>1, <2>3 DEF QueryRecord
    <2> HIDE DEF r
    <2>5. PathUp(proc, s) /\ Top(s) = 0
      BY <2>3, <2>4, SameWalk, Zenon
    <2>6. StillQuery(proc, Known, s, truth[q])
      BY <2>3, <2>4, <2>5 DEF StillQuery, Stages
    <2> QED
      BY <1>1, <2>2, <2>6, StillAnswers, Zenon
  <1> QED
    BY <1>3, <1>4

\* A process is read as it is.
LEMMA ReadStill ==
    ASSUME FactInv, StillNow, NEW q \in Queries, Read(q)
    PROVE  StillNow'
  <1> DEFINE r == query[q]
  <1>0. r \in QueryRecord /\ r.pid \in PIDs /\ r.at = "read" /\ StillQuery(proc, Known, r, truth[q])
    BY DEF FactInv, QueryInv, StillNow, Read, Stages
  <1>1. UNCHANGED <<world, tree, scheduled, update, truth>>
    BY DEF Read
  <1>2. CASE ~Alive(r.pid)
    BY <1>1, <1>2, StillFails DEF Read
  <1>3. CASE Alive(r.pid)
    <2>1. PICK s : s = [r EXCEPT !.at = "ancestors", !.p = Entry(r.pid)]
      OBVIOUS
    <2>2. query' = [query EXCEPT ![q] = s]
      BY <1>3, <2>1, Zenon DEF Read, FactInv
    <2>3. /\ s.at = "ancestors" /\ s.pid = r.pid /\ s.path = r.path /\ s.i = r.i /\ s.res = r.res
          /\ s.p = Entry(r.pid)
      BY <1>0, <2>1 DEF QueryRecord
    <2>4. LiveIn(proc, r.pid) /\ Entry(r.pid) = [start |-> proc[r.pid].start, parent |-> proc[r.pid].parent]
      BY <1>0, <1>3, StillProcess
    <2> HIDE DEF r
    <2>5. r.path = <<>> /\ r.i = 1 /\ r.res = <<>> /\ SameCgroup(proc, r.pid) \in truth[q]
      BY <1>0, <2>4 DEF StillQuery, Stages
    <2>6. PathUp(proc, s)
      BY <2>3, <2>5 DEF PathUp
    <2>7. StillQuery(proc, Known, s, truth[q])
      BY <2>3, <2>4, <2>5, <2>6 DEF StillQuery, Stages
    <2> QED
      BY <1>1, <2>2, <2>7, StillAnswers, Zenon
  <1> QED
    BY <1>2, <1>3

\* A walk in procfs follows the parents of the processes, and none is missing.
LEMMA ReadAncestorStill ==
    ASSUME FactInv, StillNow, NEW q \in Queries, ReadAncestor(q)
    PROVE  StillNow'
  <1>0. query[q].at = "ancestors" /\ query[q].at \in Stages \ {"read"} /\ Parent(q) # 0
    BY DEF ReadAncestor, Stages
  <1>1. UNCHANGED <<world, tree, scheduled, update, truth>>
    BY DEF ReadAncestor
  <1>2. Parent(q) \in PIDs /\ Alive(Parent(q))
    BY <1>0, StillTop
  <1>3. Found(Parent(q), Entry(Parent(q))) = Step(proc, Parent(q))
    BY <1>2, StillProcess
  <1>4. PICK s : s = [query[q] EXCEPT !.path = Append(@, Step(proc, Parent(q)))]
    BY Zenon
  <1>5. query' = [query EXCEPT ![q] = s]
    BY <1>2, <1>3, <1>4 DEF ReadAncestor, FactInv
  <1>6. StillQuery(proc, Known, s, truth[q])
    BY <1>0, <1>4, StillLonger
  <1> QED
    BY <1>1, <1>5, <1>6, StillAnswers, Zenon

\* The cgroups are looked at when the walk is at the top.
LEMMA OwnCgroupStill ==
    ASSUME FactInv, StillNow, NEW q \in Queries, OwnCgroup(q)
    PROVE  StillNow'
  <1> DEFINE r == query[q]
  <1>0. r.at = "cgroups" /\ r.at \in Stages \ {"read"}
    BY DEF OwnCgroup, Stages
  <1>1. UNCHANGED <<world, tree, scheduled, update, truth>>
    BY DEF OwnCgroup
  <1>2. /\ r \in QueryRecord /\ r.pid \in PIDs /\ LiveIn(proc, r.pid) /\ PathUp(proc, r)
        /\ StillQuery(proc, Known, r, truth[q])
    BY <1>0, StillTop
  <1>3. Alive(r.pid)
    BY <1>2, StillProcess
  <1>4. PICK s : s = [r EXCEPT !.at = "ancestorCgroups", !.cg = proc[r.pid].cg]
    OBVIOUS
  <1>5. query' = [query EXCEPT ![q] = s]
    BY <1>3, <1>4, Zenon DEF OwnCgroup, FactInv
  <1>6. /\ s.at = "ancestorCgroups" /\ s.pid = r.pid /\ s.p = r.p /\ s.path = r.path
        /\ s.i = r.i /\ s.res = r.res /\ s.cg = proc[r.pid].cg /\ r.path \in Seq(Ancestor)
    BY <1>2, <1>4 DEF QueryRecord
  <1> HIDE DEF r
  <1>7. r.i = 1 /\ r.res = <<>> /\ Top(r) = 0
    BY <1>0, <1>2 DEF StillQuery, Stages
  <1>8. PathUp(proc, s) /\ Top(s) = 0
    BY <1>2, <1>6, <1>7, SameWalk, Zenon
  <1>9. Picked(proc, s)
    <2>1. \A k \in DOMAIN s.path : ~(k < s.i)
      BY <1>6, <1>7
    <2>2. Range(s.res) = {} /\ DOMAIN s.res = {}
      BY <1>6, <1>7 DEF Range
    <2> QED
      BY <2>1, <2>2 DEF Picked, Ordered
  <1>10. StillQuery(proc, Known, s, truth[q])
    BY <1>0, <1>2, <1>6, <1>7, <1>8, <1>9 DEF StillQuery, Stages
  <1> QED
    BY <1>1, <1>5, <1>10, StillAnswers, Zenon

\* An ancestor is in the answer if it is in the cgroup of the process.
LEMMA AncestorCgroupStill ==
    ASSUME FactInv, StillNow, NEW q \in Queries, AncestorCgroup(q)
    PROVE  StillNow'
  <1> DEFINE r == query[q]
             a == r.path[r.i].pid
             n == r.i + 1
             res == IF proc[a].cg = r.cg THEN Append(r.res, a) ELSE r.res
  <1>0. r.at = "ancestorCgroups" /\ r.at \in Stages \ {"read"}
    BY Zenon DEF AncestorCgroup, Stages
  <1>1. UNCHANGED <<world, tree, scheduled, update, truth>>
    BY Zenon DEF AncestorCgroup
  <1>2. /\ r \in QueryRecord /\ r.pid \in PIDs /\ LiveIn(proc, r.pid) /\ PathUp(proc, r)
        /\ r.p.parent = proc[r.pid].parent /\ StillQuery(proc, Known, r, truth[q])
    BY <1>0, StillTop
  <1>3. /\ r.cg = proc[r.pid].cg /\ Picked(proc, r) /\ Top(r) = 0
        /\ SameCgroup(proc, r.pid) \in truth[q]
    BY <1>0, <1>2 DEF StillQuery
  <1>4. CASE r.i > Len(r.path)
    <2>1. PICK s : s = [r EXCEPT !.at = "done"]
      BY Zenon
    <2>2. query' = [query EXCEPT ![q] = s]
      BY <1>4, <2>1 DEF AncestorCgroup, FactInv
    <2>3. s.at = "done" /\ s.res = r.res
      BY <1>2, <2>1 DEF QueryRecord
    <2> HIDE DEF r
    <2>4. Answered(r, truth[q])
      BY <1>2, <1>3, <1>4, WholeAnswer
    <2>5. StillQuery(proc, Known, s, truth[q])
      BY <2>3, <2>4 DEF StillQuery, Answered, Stages
    <2> QED
      BY <1>1, <2>2, <2>5, StillAnswers, Zenon
  <1>5. CASE ~(r.i > Len(r.path)) /\ ~Alive(a)
    <2>1. query' = Fail(q)
      BY <1>5 DEF AncestorCgroup
    <2> QED
      BY <1>1, <2>1, StillFails
  <1>6. CASE ~(r.i > Len(r.path)) /\ Alive(a)
    <2>1. PICK s : s = [r EXCEPT !.i = n, !.res = res]
      OBVIOUS
    <2>2. query' = [query EXCEPT ![q] = s]
      BY <1>6, <2>1, Zenon DEF AncestorCgroup, FactInv
    <2>3. r.i \in DOMAIN r.path
      <3>1. r.path \in Seq(Ancestor) /\ r.i \in Nat \ {0}
        BY <1>2 DEF QueryRecord
      <3> QED
        BY <1>6, <3>1
    <2> HIDE DEF res, n
    <2>4. /\ s.at = r.at /\ s.pid = r.pid /\ s.p = r.p /\ s.path = r.path /\ s.cg = r.cg
          /\ s.i = n /\ s.res = res
      BY <1>2, <2>1 DEF QueryRecord
    <2> HIDE DEF r
    <2>5. Picked(proc, s)
      <3>1. s.i = r.i + 1 /\ s.res = IF proc[r.path[r.i].pid].cg = r.cg THEN Append(r.res, r.path[r.i].pid) ELSE r.res
        BY <2>4 DEF n, res
      <3> HIDE DEF a
      <3> QED
        BY <1>2, <1>3, <2>3, <2>4, <3>1, OnePicked, Zenon
    <2>6. PathUp(proc, s) /\ Top(s) = 0
      BY <1>2, <1>3, <2>4, SameWalk, Zenon
    <2>7. StillQuery(proc, Known, s, truth[q])
      BY <1>0, <1>2, <1>3, <2>4, <2>5, <2>6 DEF StillQuery, Stages
    <2> QED
      BY <1>1, <2>2, <2>7, StillAnswers, Zenon
  <1> QED
    BY <1>4, <1>5, <1>6

\* A longer known tree leaves the queries right.
LEMMA MoreKnown ==
    ASSUME NEW ps, NEW known, NEW known2, known \subseteq known2, NEW r, NEW T,
           StillQuery(ps, known, r, T)
    PROVE  StillQuery(ps, known2, r, T)
  BY DEF StillQuery

\* readAncestors adds a whole walk, which ends at the top.
LEMMA RememberStill ==
    ASSUME FactInv, StillNow, NEW q \in Queries, Remember(q)
    PROVE  StillNow'
  <1> DEFINE r == query[q]
             path == <<Found(r.pid, r.p)>> \o r.path
             read == {path[i].pid : i \in DOMAIN path}
  <1>0. r.at = "ancestors" /\ r.at \in Stages \ {"read"} /\ Parent(q) = 0 /\ tree # NilMap
    BY Zenon DEF Remember, Stages, StillNow, StillTree
  <1>30. PICK last \in [read -> DOMAIN path] :
          /\ \A pid \in read : path[last[pid]].pid = pid
          /\ tree' = [pid \in Known \cup read |->
               IF pid \in read
               THEN [start |-> path[last[pid]].start, parent |-> path[last[pid]].parent]
               ELSE tree[pid]]
    BY <1>0, ZenonT(30) DEF Remember
  <1> DEFINE entry(pid) == [start |-> path[last[pid]].start, parent |-> path[last[pid]].parent]
  <1>1. /\ tree' = [pid \in Known \cup read |-> IF pid \in read THEN entry(pid) ELSE tree[pid]]
        /\ query' = [query EXCEPT ![q].at = "cgroups"]
        /\ UNCHANGED <<world, scheduled, update, truth>>
    BY <1>0, <1>30, ZenonT(30) DEF Remember
  <1>2. tree' # NilMap
    BY <1>0, RememberKeepsFacts
  <1>3. Known' = Known \cup read
    <2> HIDE DEF read, path
    <2>1. DOMAIN tree' = Known \cup read
      BY <1>1
    <2> QED
      BY <1>2, <2>1 DEF Known
  <1>4. /\ r \in QueryRecord /\ r.pid \in PIDs /\ LiveIn(proc, r.pid) /\ PathUp(proc, r)
        /\ r.p.parent = proc[r.pid].parent /\ StillQuery(proc, Known, r, truth[q])
        /\ Top(r) = 0
    BY <1>0, StillTop
  <1>5. Found(r.pid, r.p) = Step(proc, r.pid) /\ Step(proc, r.pid) \in Ancestor /\ Alive(r.pid)
    <2>1. r.p = Entry(r.pid)
      BY <1>0, <1>4, StillProcess DEF StillQuery
    <2> QED
      BY <1>4, <2>1, StillProcess
  <1>6. r.path \in Seq(Ancestor)
    BY <1>4 DEF QueryRecord
  <1>7. /\ path \in Seq(Ancestor)
        /\ \A k \in DOMAIN path : path[k] = Step(proc, r.pid) \/ \E m \in DOMAIN r.path : path[k] = r.path[m]
        /\ \E k \in DOMAIN path : path[k] = Step(proc, r.pid)
        /\ \A m \in DOMAIN r.path : \E k \in DOMAIN path : path[k] = r.path[m]
    <2> DEFINE f == Step(proc, r.pid)
               up == r.path
    <2>1. path = <<f>> \o up /\ f \in Ancestor /\ up \in Seq(Ancestor)
      BY <1>5, <1>6
    <2> HIDE DEF path, f, up
    <2>2. /\ path \in Seq(Ancestor)
          /\ \A k \in DOMAIN path : path[k] = f \/ \E m \in DOMAIN up : path[k] = up[m]
          /\ \E k \in DOMAIN path : path[k] = f
          /\ \A m \in DOMAIN up : \E k \in DOMAIN path : path[k] = up[m]
      <3>1. OneMoreThan(path, f, up)
        BY <2>1, OneInFront
      <3> QED
        BY <3>1 DEF OneMoreThan
    <2> QED
      BY <2>2 DEF f, up
  <1>8. Step(proc, r.pid).pid = r.pid
    BY DEF Step
  <1> HIDE DEF path, r
  <1>9. ASSUME NEW k \in DOMAIN path
        PROVE  /\ path[k].pid \in PIDs /\ LiveIn(proc, path[k].pid) /\ path[k] = Step(proc, path[k].pid)
               /\ path[k].pid = r.pid \/ path[k].pid \in Above(proc, r.pid)
    <2>1. path[k] \in Ancestor
      BY <1>7
    <2>2. path[k].pid \in PIDs
      BY <2>1 DEF Ancestor
    <2>3. CASE path[k] = Step(proc, r.pid)
      BY <1>4, <1>8, <2>2, <2>3
    <2>4. CASE \E m \in DOMAIN r.path : path[k] = r.path[m]
      BY <1>4, <2>2, <2>4 DEF PathUp
    <2> QED
      BY <1>7, <2>3, <2>4
  <1>10. ASSUME NEW pid, pid = r.pid \/ pid \in Above(proc, r.pid) PROVE pid \in read
    <2>1. CASE pid = r.pid
      BY <1>7, <1>8, <2>1
    <2>2. CASE pid \in Above(proc, r.pid)
      <3>0. \A a : a \in Above(proc, r.pid) <=> \E m \in DOMAIN r.path : a = r.path[m].pid
        BY <1>4, PathIsAbove
      <3>1. PICK m \in DOMAIN r.path : pid = r.path[m].pid
        BY <2>2, <3>0, Zenon
      <3>2. PICK k \in DOMAIN path : path[k] = r.path[m]
        BY <1>7
      <3> QED
        BY <3>1, <3>2
    <2> QED
      BY <1>10, <2>1, <2>2
  <1>11. ASSUME NEW pid \in read
         PROVE  pid \in PIDs /\ Alive(pid) /\ tree'[pid] = Entry(pid) /\ proc[pid].parent \in read \cup {0}
    <2>1. PICK k \in DOMAIN path : path[k].pid = pid
      OBVIOUS
    <2>2. pid \in PIDs /\ LiveIn(proc, pid) /\ (pid = r.pid \/ pid \in Above(proc, r.pid))
      BY <1>9, <2>1
    <2>3. last[pid] \in DOMAIN path /\ path[last[pid]].pid = pid
      BY <1>30
    <2>4. path[last[pid]] = Step(proc, pid)
      BY <1>9, <2>3
    <2>5. entry(pid) = Entry(pid)
      BY <2>4 DEF Step, Entry
    <2>6. tree'[pid] = entry(pid)
      <3> HIDE DEF entry, read
      <3> QED
        BY <1>1, <2>1
    <2>7. Alive(pid)
      BY <2>2 DEF Alive, LiveIn
    <2>8. proc[pid].parent \in PIDs \cup {0}
      BY <2>2 DEF FactInv, WorldInv, Procs
    <2>9. ASSUME proc[pid].parent \in PIDs PROVE proc[pid].parent \in read
      <3>1. proc[pid].parent \in Above(proc, r.pid)
        BY <2>2, <2>9, ParentIsAbove, ParentOfAbove, Zenon
      <3> QED
        BY <1>10, <3>1
    <2> QED
      BY <2>2, <2>5, <2>6, <2>7, <2>8, <2>9
  <1>12. ASSUME NEW pid \in Known \ read
         PROVE  Alive(pid) /\ tree'[pid] = Entry(pid) /\ proc[pid].parent \in Known \cup {0}
    <2>1. ~ \E k \in DOMAIN path : path[k].pid = pid
      OBVIOUS
    <2>2. tree'[pid] = tree[pid]
      <3> HIDE DEF entry, read
      <3> QED
        BY <1>1, <2>1
    <2> QED
      BY <2>2 DEF StillNow, StillTree
  <1> HIDE DEF read, entry
  <1>13. proc' = proc
    BY <1>1 DEF world
  <1>14. StillWorld'
    BY <1>13 DEF StillNow, StillWorld, Alive
  <1>15. StillTree'
    <2>1. scheduled' = FALSE /\ update' = Resting
      BY <1>1 DEF StillNow, StillTree
    <2>2. ASSUME NEW p \in Known' PROVE Alive(p) /\ tree'[p] = Entry(p) /\ proc[p].parent \in Known' \cup {0}
      BY <1>3, <1>11, <1>12
    <2>3. \A p \in Known' : (Alive(p))' /\ tree'[p] = (Entry(p))' /\ proc'[p].parent \in Known' \cup {0}
      BY <1>13, <2>2 DEF Alive, Entry
    <2> QED
      BY <1>2, <2>1, <2>3 DEF StillTree
  <1>16. PICK s : s = [r EXCEPT !.at = "cgroups"]
    BY Zenon
  <1>17. query' = [query EXCEPT ![q] = s]
    BY <1>1, <1>16 DEF FactInv, r
  <1>18. /\ s.at = "cgroups" /\ s.pid = r.pid /\ s.p = r.p /\ s.path = r.path
         /\ s.i = r.i /\ s.res = r.res
    BY <1>4, <1>16 DEF QueryRecord
  <1>19. PathUp(proc, s) /\ Top(s) = 0
    BY <1>4, <1>18, SameWalk, Zenon
  <1>20. StillQuery(proc, Known, s, truth[q])
    BY <1>0, <1>4, <1>18, <1>19 DEF StillQuery, Stages
  <1>21. ASSUME NEW d \in Queries PROVE StillQuery(proc', Known', query'[d], truth'[d])
    <2>1. StillQuery(proc, Known, query'[d], truth[d])
      <3>1. CASE d = q
        <4>1. query'[d] = s
          BY <1>17, <3>1 DEF FactInv
        <4> QED
          BY <1>20, <3>1, <4>1
      <3>2. CASE d # q
        <4>1. query'[d] = query[d]
          BY <1>17, <3>2 DEF FactInv
        <4> QED
          BY <4>1 DEF StillNow
      <3> QED
        BY <3>1, <3>2
    <2>2. Known \subseteq Known'
      BY <1>3
    <2> QED
      BY <1>1, <1>13, <2>1, <2>2, MoreKnown
  <1>22. DOMAIN truth' = Queries
    BY <1>1 DEF StillNow
  <1> QED
    BY <1>14, <1>15, <1>21, <1>22 DEF StillNow

\* A process starts, as the child of one that runs.
LEMMA ForkStill ==
    ASSUME FactInv, StillNow, NEW parent \in PIDs, NEW child \in PIDs, NEW cg \in Cgroups,
           Fork(parent, child, cg)
    PROVE  StillNow'
  <1> DEFINE new == [start |-> clock + 1, parent |-> parent, cg |-> cg]
  <1>1. /\ proc' = [proc EXCEPT ![child] = new] /\ UNCHANGED agent
        /\ Alive(parent) /\ ~Alive(child) /\ TruthNow /\ clock \in Nat
    BY DEF Fork, FactInv, WorldInv
  <1>2. new.parent = parent /\ new.start # 0
    BY <1>1
  <1> HIDE DEF new
  <1>3. proc'[child] = new /\ \A p \in PIDs \ {child} : proc'[p] = proc[p]
    BY <1>1 DEF FactInv, WorldInv
  <1>4. proc[child].start = 0 /\ proc[child].parent = 0 /\ parent # child
    BY <1>1 DEF Alive, StillNow, StillWorld
  <1>5. Known' = Known /\ tree' = tree /\ query' = query /\ scheduled' = scheduled /\ update' = update
    BY <1>1 DEF agent, Known
  <1>6. \A p \in PIDs : Alive(p) => p # child /\ proc'[p] = proc[p] /\ proc'[p].start # 0
    BY <1>1, <1>3 DEF Alive
  <1>7. \A p \in PIDs : proc[p].parent \in PIDs \cup {0}
    BY DEF FactInv, WorldInv, Procs
  <1>8. StillWorld'
    <2>1. ASSUME NEW p \in PIDs, proc'[p].start # 0
          PROVE  proc'[p].parent = 0 \/ proc'[proc'[p].parent].start # 0
      <3>1. CASE p = child
        BY <1>1, <1>2, <1>3, <1>6, <3>1
      <3>2. CASE p # child
        <4>1. Alive(p) /\ proc'[p] = proc[p]
          BY <1>3, <2>1, <3>2 DEF Alive
        <4>2. proc[p].parent = 0 \/ Alive(proc[p].parent)
          BY <4>1 DEF StillNow, StillWorld
        <4> QED
          BY <1>6, <1>7, <4>1, <4>2
      <3> QED
        BY <3>1, <3>2
    <2>2. ASSUME NEW p \in PIDs, proc'[p].start = 0 PROVE proc'[p].parent = 0
      <3>1. p # child
        BY <1>2, <1>3, <2>2
      <3> QED
        BY <1>3, <2>2, <3>1 DEF StillNow, StillWorld, Alive
    <2>3. proc'[1].start # 0
      BY <1>6, TreeAssumption DEF StillNow, StillWorld
    <2> QED
      BY <2>1, <2>2, <2>3 DEF StillWorld, Alive
  <1>9. StillTree'
    <2>1. Known \subseteq PIDs
      BY DEF Known, FactInv, MapOfFacts
    <2>2. ASSUME NEW p \in Known PROVE proc'[p] = proc[p] /\ Alive(p) /\ tree[p] = Entry(p) /\ proc[p].parent \in Known \cup {0}
      BY <1>6, <2>1 DEF StillNow, StillTree
    <2>3. \A p \in Known' : (Alive(p))' /\ tree'[p] = (Entry(p))' /\ proc'[p].parent \in Known' \cup {0}
      BY <1>5, <2>2, Zenon DEF Alive, Entry
    <2> QED
      BY <1>5, <2>3 DEF StillTree, StillNow
  <1>10. DOMAIN truth' = Queries
    BY <1>1 DEF TruthNow
  <1>11. ASSUME NEW q \in Queries PROVE StillQuery(proc', Known', query'[q], truth'[q])
    <2> DEFINE r == query[q]
    <2>1. r \in QueryRecord /\ (r.at \in Stages => r.pid \in PIDs) /\ StillQuery(proc, Known, r, truth[q])
      BY DEF FactInv, QueryInv, StillNow
    <2>2. truth'[q] = IF r.at \in Over \/ proc'[r.pid].start = 0 THEN truth[q]
                      ELSE truth[q] \cup {SameCgroup(proc', r.pid)}
      BY <1>1 DEF TruthNow
    <2>3. r.at \in Over \cup Stages
      BY <2>1 DEF QueryRecord
    <2> HIDE DEF r
    <2>4. r.at \notin Stages => truth'[q] = truth[q]
      BY <2>2, <2>3
    <2>5. r.at \in Stages /\ LiveIn(proc', r.pid) => SameCgroup(proc', r.pid) \in truth'[q]
      BY <2>2 DEF LiveIn, Over, Stages
    <2>7. r.at \in Stages \ {"read"} =>
             proc'[r.pid] = proc[r.pid] /\ \A k \in DOMAIN r.path : proc'[r.path[k].pid] = proc[r.path[k].pid]
      <3> SUFFICES ASSUME r.at \in Stages \ {"read"}
                   PROVE  proc'[r.pid] = proc[r.pid] /\ \A k \in DOMAIN r.path : proc'[r.path[k].pid] = proc[r.path[k].pid]
        BY Zenon
      <3>1. r.pid \in PIDs /\ LiveIn(proc, r.pid) /\ PathUp(proc, r) /\ r.path \in Seq(Ancestor)
        BY <2>1 DEF StillQuery, QueryRecord
      <3>2. ASSUME NEW k \in DOMAIN r.path PROVE r.path[k].pid \in PIDs /\ LiveIn(proc, r.path[k].pid)
        <4>1. r.path[k] \in Ancestor
          BY <3>1
        <4> QED
          BY <3>1, <4>1 DEF PathUp, Ancestor
      <3> QED
        BY <1>6, <3>1, <3>2 DEF LiveIn, Alive
    <2>6. StillQuery(proc', Known, r, truth'[q])
      BY <2>1, <2>4, <2>5, <2>7, OthersChange, ZenonT(60)
    <2> QED
      BY <1>5, <2>6 DEF r
  <1> QED
    BY <1>8, <1>9, <1>10, <1>11 DEF StillNow

\* What a walk has found of a process.
LEMMA StepFields ==
    ASSUME NEW ps, NEW e, e = Step(ps, e.pid)
    PROVE  e.start = ps[e.pid].start /\ e.parent = ps[e.pid].parent
  BY DEF Step

\* A process ends of which the agent has read nothing that becomes false.
LEMMA ExitStill ==
    ASSUME FactInv, StillNow, NEW pid \in PIDs, Exit(pid), ~outdated'
    PROVE  StillNow'
  <1>1. /\ pid # 1 /\ Alive(pid) /\ TruthNow /\ UNCHANGED agent
        /\ proc' = [p \in PIDs |->
             IF p = pid THEN Dead
             ELSE IF proc[p].parent = pid THEN [proc[p] EXCEPT !.parent = 1] ELSE proc[p]]
    BY DEF Exit
  <1>2. Held \subseteq Facts(proc')
    BY <1>1 DEF TruthNow
  <1>3. Known' = Known /\ tree' = tree /\ query' = query /\ scheduled' = scheduled /\ update' = update
    BY <1>1 DEF agent, Known
  <1>4. \A p \in PIDs : proc[p] \in Procs
    BY DEF FactInv, WorldInv
  <1>5. proc'[pid] = Dead /\ Dead.start = 0 /\ Dead.parent = 0
    BY <1>1, TreeConstants
  <1>6. ASSUME NEW p \in PIDs \ {pid}
        PROVE  /\ proc'[p].start = proc[p].start
               /\ proc'[p].parent = IF proc[p].parent = pid THEN 1 ELSE proc[p].parent
               /\ proc[p].parent # pid => proc'[p] = proc[p]
    <2>1. proc'[p] = IF proc[p].parent = pid THEN [proc[p] EXCEPT !.parent = 1] ELSE proc[p]
      BY <1>1
    <2>2. proc[p] \in Procs
      BY <1>4
    <2> QED
      BY <2>1, <2>2 DEF Procs
  <1>7. ASSUME NEW p \in PIDs, <<p, proc[p].start, proc[p].parent>> \in Held
        PROVE  proc'[p] = proc[p] /\ proc'[p].start # 0
    <2>1. <<p, proc[p].start, proc[p].parent>> \in Facts(proc')
      BY <1>2, <1>7
    <2>2. proc'[p].start # 0 /\ proc'[p].parent = proc[p].parent
      BY <2>1 DEF Facts
    <2>3. p # pid
      BY <1>5, <2>2
    <2>4. proc[p].parent # pid
      BY <1>1, <1>6, <2>2, <2>3
    <2> QED
      BY <1>6, <2>2, <2>3, <2>4
  <1>8. StillWorld'
    <2>1. proc'[1].start # 0
      BY <1>1, <1>6, TreeAssumption DEF StillNow, StillWorld, Alive
    <2>2. ASSUME NEW p \in PIDs, proc'[p].start # 0
          PROVE  proc'[p].parent = 0 \/ proc'[proc'[p].parent].start # 0
      <3>1. p # pid /\ Alive(p)
        BY <1>5, <1>6, <2>2 DEF Alive
      <3>2. CASE proc[p].parent = pid
        BY <1>6, <2>1, <3>1, <3>2
      <3>3. CASE proc[p].parent # pid
        <4>1. proc[p].parent \in PIDs \cup {0} /\ proc'[p].parent = proc[p].parent
          BY <1>4, <1>6, <3>1, <3>3 DEF Procs
        <4>2. proc[p].parent = 0 \/ Alive(proc[p].parent)
          BY <3>1 DEF StillNow, StillWorld
        <4> QED
          BY <1>6, <3>3, <4>1, <4>2 DEF Alive
      <3> QED
        BY <3>2, <3>3
    <2>3. ASSUME NEW p \in PIDs, proc'[p].start = 0 PROVE proc'[p].parent = 0
      <3>1. CASE p = pid
        BY <1>5, <3>1
      <3>2. CASE p # pid
        <4>1. proc[p].parent = 0
          BY <1>6, <2>3, <3>2 DEF StillNow, StillWorld, Alive
        <4> QED
          BY <1>6, <3>2, <4>1, TreeConstants
      <3> QED
        BY <3>1, <3>2
    <2> QED
      BY <2>1, <2>2, <2>3 DEF StillWorld, Alive
  <1>9. StillTree'
    <2>1. Known \subseteq PIDs /\ tree # NilMap /\ Known = DOMAIN tree
      BY DEF Known, FactInv, MapOfFacts, StillNow, StillTree
    <2>2. ASSUME NEW p \in Known
          PROVE  proc'[p] = proc[p] /\ proc'[p].start # 0 /\ tree[p] = Entry(p) /\ proc[p].parent \in Known \cup {0}
      <3>1. tree[p] = Entry(p) /\ proc[p].parent \in Known \cup {0}
        BY DEF StillNow, StillTree
      <3>2. <<p, tree[p].start, tree[p].parent>> \in Held
        BY <2>1 DEF Held, Has
      <3>3. <<p, proc[p].start, proc[p].parent>> \in Held
        <4>1. tree[p].start = proc[p].start /\ tree[p].parent = proc[p].parent
          BY <3>1 DEF Entry
        <4> QED
          BY <3>2, <4>1, Zenon
      <3> QED
        BY <1>7, <2>1, <3>1, <3>3
    <2>3. \A p \in Known' : (Alive(p))' /\ tree'[p] = (Entry(p))' /\ proc'[p].parent \in Known' \cup {0}
      BY <1>3, <2>2, Zenon DEF Alive, Entry
    <2> QED
      BY <1>3, <2>3 DEF StillTree, StillNow
  <1>10. DOMAIN truth' = Queries
    BY <1>1 DEF TruthNow
  <1>11. ASSUME NEW q \in Queries PROVE StillQuery(proc', Known', query'[q], truth'[q])
    <2> DEFINE r == query[q]
    <2>1. r \in QueryRecord /\ (r.at \in Stages => r.pid \in PIDs) /\ StillQuery(proc, Known, r, truth[q])
      BY DEF FactInv, QueryInv, StillNow
    <2>2. truth'[q] = IF r.at \in Over \/ proc'[r.pid].start = 0 THEN truth[q]
                      ELSE truth[q] \cup {SameCgroup(proc', r.pid)}
      BY <1>1 DEF TruthNow
    <2>3. r.at \in Over \cup Stages
      BY <2>1 DEF QueryRecord
    <2>8. r.at \in Stages \ {"read"} =>
            /\ <<r.pid, r.p.start, r.p.parent>> \in Held
            /\ \A k \in DOMAIN r.path : <<r.path[k].pid, r.path[k].start, r.path[k].parent>> \in Held
      <3>1. r.at \in Stages \ {"read"} => Reads(q)
        BY DEF Reads, Stages
      <3>2. Reads(q) => Seen(q) \subseteq Held
        BY DEF Held
      <3> QED
        BY <3>1, <3>2 DEF Seen
    <2> HIDE DEF r
    <2>4. r.at \notin Stages => truth'[q] = truth[q]
      BY <2>2, <2>3
    <2>5. r.at \in Stages /\ LiveIn(proc', r.pid) => SameCgroup(proc', r.pid) \in truth'[q]
      BY <2>2 DEF LiveIn, Over, Stages
    <2>7. r.at \in Stages \ {"read"} =>
             proc'[r.pid] = proc[r.pid] /\ \A k \in DOMAIN r.path : proc'[r.path[k].pid] = proc[r.path[k].pid]
      <3> SUFFICES ASSUME r.at \in Stages \ {"read"}
                   PROVE  proc'[r.pid] = proc[r.pid] /\ \A k \in DOMAIN r.path : proc'[r.path[k].pid] = proc[r.path[k].pid]
        BY Zenon
      <3>1. /\ r.pid \in PIDs /\ PathUp(proc, r) /\ r.path \in Seq(Ancestor)
            /\ r.p = [start |-> proc[r.pid].start, parent |-> proc[r.pid].parent]
        BY <2>1 DEF StillQuery, QueryRecord
      <3>2. proc'[r.pid] = proc[r.pid]
        <4>1. <<r.pid, proc[r.pid].start, proc[r.pid].parent>> \in Held
          BY <2>8, <3>1
        <4> QED
          BY <1>7, <3>1, <4>1
      <3>3. ASSUME NEW k \in DOMAIN r.path PROVE proc'[r.path[k].pid] = proc[r.path[k].pid]
        <4>1. r.path[k] \in Ancestor /\ r.path[k] = Step(proc, r.path[k].pid)
          <5>1. r.path[k] \in Ancestor
            BY <3>1
          <5> QED
            BY <3>1, <5>1, Zenon DEF PathUp
        <4>2. r.path[k].pid \in PIDs
          BY <4>1 DEF Ancestor
        <4>3. r.path[k].start = proc[r.path[k].pid].start /\ r.path[k].parent = proc[r.path[k].pid].parent
          BY <4>1, StepFields, Zenon
        <4>4. <<r.path[k].pid, proc[r.path[k].pid].start, proc[r.path[k].pid].parent>> \in Held
          BY <2>8, <4>3
        <4> QED
          BY <1>7, <4>2, <4>4
      <3> QED
        BY <3>2, <3>3
    <2>6. StillQuery(proc', Known, r, truth'[q])
      BY <2>1, <2>4, <2>5, <2>7, OthersChange, ZenonT(60)
    <2> QED
      BY <1>3, <2>6 DEF r
  <1> QED
    BY <1>8, <1>9, <1>10, <1>11 DEF StillNow

\* At first every parent runs, nothing is asked for and the tree is empty.
LEMMA InitStill == TreeInit => StillInv
  <1> SUFFICES ASSUME TreeInit PROVE StillNow
    BY DEF StillInv
  <1>1. StillWorld
    <2>1. proc = InitProc
      BY DEF TreeInit
    <2>2. \A p \in PIDs : Alive(p) => proc[p].parent = 0 \/ Alive(proc[p].parent)
      BY <2>1, TreeAssumption DEF Alive
    <2>3. \A p \in PIDs : ~Alive(p) => proc[p].parent = 0
      BY <2>1, TreeAssumption, TreeConstants DEF Alive
    <2>4. Alive(1)
      BY <2>1, TreeAssumption DEF Alive
    <2> QED
      BY <2>2, <2>3, <2>4 DEF StillWorld
  <1>2. StillTree
    <2>1. tree = <<>> /\ tree # NilMap
      BY EmptyMapOfFacts, MapIsNotNil DEF TreeInit
    <2>2. Known = {}
      BY <2>1 DEF Known
    <2> QED
      BY <2>1, <2>2 DEF StillTree, TreeInit
  <1>3. ASSUME NEW q \in Queries PROVE StillQuery(proc, Known, query[q], truth[q])
    BY DEF TreeInit, StillQuery, NoQuery, Stages
  <1>4. DOMAIN truth = Queries
    BY DEF TreeInit
  <1> QED
    BY <1>1, <1>2, <1>3, <1>4 DEF StillNow

\* Every step that leaves what the agent has read true keeps the queries right.
LEMMA NextStill == FactInv /\ StillInv /\ [TreeNext]_tree_vars => StillInv'
  <1> SUFFICES ASSUME FactInv, StillInv, [TreeNext]_tree_vars, ~outdated' PROVE StillNow'
    BY DEF StillInv
  <1>1. CASE UNCHANGED tree_vars
    <2>1. StillNow
      BY <1>1 DEF tree_vars, StillInv
    <2> QED
      BY <1>1, <2>1 DEF tree_vars, StillNow, StillWorld, StillTree, Known, Alive, Entry
  <1>2. ASSUME NEW p \in PIDs, NEW c \in PIDs, NEW cg \in Cgroups, Fork(p, c, cg) PROVE StillNow'
    <2>1. StillNow
      BY <1>2 DEF Fork, TruthNow, StillInv
    <2> QED
      BY <1>2, <2>1, ForkStill
  <1>3. ASSUME NEW p \in PIDs, Exit(p) PROVE StillNow'
    <2>1. StillNow
      BY <1>3 DEF Exit, TruthNow, StillInv
    <2> QED
      BY <1>3, <2>1, ExitStill
  <1>4. ASSUME NEW q \in Queries, Answer(q) PROVE StillNow'
    <2>1. StillNow
      BY <1>4, Zenon DEF Answer, Check, Cached, Read, ReadAncestor, Remember, OwnCgroup, AncestorCgroup,
                  StillInv
    <2> QED
      BY <1>4, <2>1, CheckStill, CachedStill, ReadStill, ReadAncestorStill, RememberStill,
         OwnCgroupStill, AncestorCgroupStill DEF Answer
  <1>5. ASSUME NEW q \in Queries, NEW pid \in Asked, Find(q, pid) PROVE StillNow'
    <2>1. StillNow
      BY <1>5 DEF Find, StillInv
    <2> QED
      BY <1>5, <2>1, FindStill
  <1>6. ASSUME Update PROVE FALSE
    <2>1. StillNow
      BY <1>6, Zenon DEF Update, FullUpdate, UpdateProc, UpdateStat, StoreTree, StillInv
    <2>2. scheduled = FALSE /\ update.at = "wait"
      BY <2>1 DEF StillNow, StillTree, Resting
    <2> QED
      BY <1>6, <2>2 DEF Update, FullUpdate, UpdateProc, UpdateStat, StoreTree
  <1> QED
    BY <1>1, <1>2, <1>3, <1>4, <1>5, <1>6 DEF TreeNext

\* AnswersFollowFacts: an answer is picked from a walk every link of which was true when it
\* was read, and until something that the agent has read becomes false it has exactly the
\* ancestors in the cgroup of the process, nearest first, as they were at some time during
\* the query, whether it walked the tree or procfs, whatever other queries added meanwhile
\* and whichever other processes started and ended.
THEOREM QueriesAnswerAncestors == TreeSpec => []AnswersFollowFacts
  <1>1. TreeInit => WayInv
    <2>1. OnTheWay(NoQuery)
      BY DEF OnTheWay, NoQuery, Stages
    <2> QED
      BY <2>1 DEF TreeInit, WayInv
  <1>2. ASSUME FactInv, WayInv, StillInv PROVE AnswersFollowFacts
    <2> SUFFICES ASSUME NEW q \in Queries, query[q].at = "done"
                 PROVE  FollowsFacts(q) /\ (~outdated => IsAncestors(q))
      BY DEF AnswersFollowFacts
    <2>1. OnTheWay(query[q]) /\ QueryInv(query[q])
      BY <1>2 DEF FactInv, WayInv
    <2>2. FollowsFacts(q)
      BY <2>1 DEF OnTheWay, QueryInv, WasTrue, Before, FollowsFacts
    <2>3. ~outdated => IsAncestors(q)
      BY <1>2, Zenon DEF StillInv, StillNow, StillQuery, Answered, IsAncestors
    <2> QED
      BY <2>2, <2>3
  <1> QED
    BY <1>1, <1>2, InitFacts, NextFacts, InitStill, NextStill, NextWay, PTL DEF TreeSpec
=============================================================================
