--------------------------- MODULE DeliveryProofs ---------------------------
(***************************************************************************)
(* Proofs about what becomes of a profile: ProfileListener, for every set   *)
(* of queries and profiles, and BatchWriter, for every set of labels, number *)
(* of attempts and schedule of failures.                                    *)
(***************************************************************************)
EXTENDS ProfileListener, BatchWriter, TLAPS

-----------------------------------------------------------------------------
(* The list of observers. *)

\* The two slices that removeObserver joins.
LEMMA JoinedLists ==
    ASSUME NEW S, NEW a \in Seq(S), NEW b \in Seq(S)
    PROVE  /\ a \o b \in Seq(S) /\ Len(a \o b) = Len(a) + Len(b)
           /\ \A i \in 1..(Len(a) + Len(b)) : (a \o b)[i] = IF i <= Len(a) THEN a[i] ELSE b[i - Len(a)]
  <1>1. a \o b \in Seq(S) /\ Len(a \o b) = Len(a) + Len(b)
    OBVIOUS
  <1>2. ASSUME NEW i \in 1..(Len(a) + Len(b)), i <= Len(a) PROVE (a \o b)[i] = a[i]
    BY <1>2
  <1>3. ASSUME NEW i \in 1..(Len(a) + Len(b)), ~(i <= Len(a)) PROVE (a \o b)[i] = b[i - Len(a)]
    BY <1>3
  <1> QED
    BY <1>1, <1>2, <1>3

\* removeObserver takes one element out of a list without duplicates; the others keep
\* their order.
LEMMA WithoutEffect ==
    ASSUME NEW S, NEW s \in Seq(S), IsInjective(s), NEW k \in DOMAIN s
    PROVE  /\ Without(s, s[k]) \in Seq(S)
           /\ Len(Without(s, s[k])) = Len(s) - 1
           /\ \A i \in 1..(Len(s) - 1) :
                 Without(s, s[k])[i] = IF i < k THEN s[i] ELSE s[i + 1]
  <1>1. Len(s) \in Nat /\ k \in 1..Len(s) /\ DOMAIN s = 1..Len(s)
    OBVIOUS
  <1>2. {i \in DOMAIN s : s[i] = s[k]} = {k}
    BY <1>1 DEF IsInjective
  <1>3. (CHOOSE i \in {k} : \A j \in {k} : i <= j) = k
    BY <1>1
  <1>4. {k} # {}
    OBVIOUS
  <1>5. Without(s, s[k]) = SubSeq(s, 1, k - 1) \o SubSeq(s, k + 1, Len(s))
    BY <1>2, <1>3, <1>4, Zenon DEF Without
  <1>6. /\ SubSeq(s, 1, k - 1) \in Seq(S) /\ Len(SubSeq(s, 1, k - 1)) = k - 1
        /\ \A i \in 1..(k - 1) : SubSeq(s, 1, k - 1)[i] = s[i]
    BY <1>1
  <1>7. /\ SubSeq(s, k + 1, Len(s)) \in Seq(S) /\ Len(SubSeq(s, k + 1, Len(s))) = Len(s) - k
        /\ \A i \in 1..(Len(s) - k) : SubSeq(s, k + 1, Len(s))[i] = s[k + i]
    BY <1>1, SMTT(30)
  <1>8. PICK a \in Seq(S) : a = SubSeq(s, 1, k - 1)
    BY <1>6, Zenon
  <1>9. PICK b \in Seq(S) : b = SubSeq(s, k + 1, Len(s))
    BY <1>7, Zenon
  <1>10. Len(a) = k - 1 /\ Len(b) = Len(s) - k /\ Len(a) + Len(b) = Len(s) - 1
    <2>1. Len(a) = k - 1
      BY <1>6, <1>8
    <2>2. Len(b) = Len(s) - k
      BY <1>7, <1>9
    <2> QED
      BY <1>1, <2>1, <2>2
  <1>11. /\ a \o b \in Seq(S) /\ Len(a \o b) = Len(s) - 1
        /\ \A i \in 1..(Len(s) - 1) : (a \o b)[i] = IF i <= Len(a) THEN a[i] ELSE b[i - Len(a)]
    BY <1>10, JoinedLists
  <1>12. ASSUME NEW i \in 1..(Len(s) - 1)
         PROVE  (a \o b)[i] = IF i < k THEN s[i] ELSE s[i + 1]
    <2>1. CASE i < k
      <3>1. i <= Len(a) /\ i \in 1..(k - 1)
        BY <1>1, <1>10, <2>1
      <3> QED
        BY <1>6, <1>8, <1>11, <2>1, <3>1
    <2>2. CASE ~(i < k)
      <3>1. ~(i <= Len(a)) /\ i - Len(a) \in 1..(Len(s) - k) /\ k + (i - Len(a)) = i + 1
        BY <1>1, <1>10, <2>2, SMTT(30)
      <3> QED
        BY <1>7, <1>9, <1>11, <2>2, <3>1, Zenon
    <2> QED
      BY <2>1, <2>2, Zenon
  <1> QED
    BY <1>5, <1>8, <1>9, <1>11, <1>12, Zenon

-----------------------------------------------------------------------------
(* No observer outlives its query. *)

\* WriteRaw is idle, or in the loop.
WriterInv == IF writer.at = "idle" THEN writer = Idle ELSE writer.i > 0

Inv1 == ListenerTypeOK /\ ObserversAreOpen /\ WriterInv

\* NewMatchingProfileListener has no observers.
LEMMA InitInv1 == ListenerInit => Inv1
  <1> SUFFICES ASSUME ListenerInit PROVE Inv1
    OBVIOUS
  <1>1. ListenerTypeOK
    BY DEF ListenerInit, Idle, ListenerTypeOK
  <1>2. ObserversAreOpen
    BY DEF ListenerInit, ObserversAreOpen, Range, IsInjective
  <1> QED
    BY <1>1, <1>2 DEF Inv1, ListenerInit, WriterInv, Idle

Writer == [at : {"idle", "observe", "send"}, profile : Profiles \cup {None}, i : Nat]
Query == [at : {"start", "wait", "remove", "done"}, profile : Profiles \cup {None}]

\* Going on to the next observer.
LEMMA AdvanceType ==
    ASSUME NEW w \in Writer, NEW v,
           v = [w EXCEPT !.i = @ + 1] \/ v = [w EXCEPT !.at = "observe", !.i = @ + 1]
    PROVE  v \in Writer /\ v.i = w.i + 1 /\ v.at \in {"observe", w.at}
  <1>1. PICK n \in Nat : n = w.i + 1
    BY DEF Writer
  <1>2. [w EXCEPT !.i = n] \in Writer
    BY DEF Writer
  <1>3. [w EXCEPT !.at = "observe", !.i = n] \in Writer
    BY Zenon DEF Writer
  <1> QED
    BY <1>1, <1>2, <1>3, Zenon DEF Writer

\* Steps keep the types, and the loop of observeProfile within the list.
LEMMA NextTypeOK == Inv1 /\ [ListenerNext]_listener_vars => ListenerTypeOK'
  <1> SUFFICES ASSUME Inv1, [ListenerNext]_listener_vars PROVE ListenerTypeOK'
    OBVIOUS
  <1> DEFINE Within == writer.i <= Len(observers) + 1 /\ (writer.at = "send" => writer.i \in DOMAIN observers)
  <1> USE DEF Writer, Query
  <1>0. /\ observers \in Seq(Queries) /\ writer \in Writer /\ query \in [Queries -> Query] /\ Within
        /\ writes \in Seq(Profiles) /\ since \in [Queries -> Nat]
        /\ Len(observers) \in Nat /\ writer.i \in Nat /\ DOMAIN observers = 1..Len(observers)
        /\ Len(writes) \in Nat /\ Idle \in Writer /\ Idle.i = 0 /\ Idle.at = "idle"
    BY DEF Inv1, ListenerTypeOK, Idle
  <1>1. ASSUME NEW p \in Profiles, ListenerWriteRaw(p) PROVE ListenerTypeOK'
    BY <1>0, <1>1 DEF ListenerTypeOK, ListenerWriteRaw
  <1>2. CASE CallObserver
    <2>0. /\ UNCHANGED <<observers, query, writes, since>>
          /\ writer.at = "observe" /\ writer.i <= Len(observers)
          /\ writer' \in {[writer EXCEPT !.at = "send"], [writer EXCEPT !.i = @ + 1]}
      BY <1>2 DEF CallObserver
    <2>1. CASE writer' = [writer EXCEPT !.at = "send"]
      <3>1. writer' \in Writer /\ writer'.i = writer.i
        BY <1>0, <2>1, Zenon
      <3>2. writer.i \in DOMAIN observers
        BY <1>0, <2>0 DEF Inv1, WriterInv
      <3> QED
        BY <1>0, <2>0, <3>1, <3>2 DEF ListenerTypeOK
    <2>2. CASE writer' = [writer EXCEPT !.i = @ + 1]
      <3>1. writer' \in Writer /\ writer'.i = writer.i + 1 /\ writer'.at = writer.at
        BY <1>0, <2>0, <2>2, AdvanceType, ZenonT(60)
      <3>2. Within'
        BY <1>0, <2>0, <3>1
      <3> QED
        BY <1>0, <2>0, <3>1, <3>2 DEF ListenerTypeOK
    <2> QED
      BY <2>0, <2>1, <2>2
  <1>3. CASE Send
    <2>1. writer' \in Writer /\ writer'.i = writer.i + 1 /\ writer'.at = "observe"
      <3>1. writer' = [writer EXCEPT !.at = "observe", !.i = @ + 1]
        BY <1>3 DEF Send
      <3> QED
        <4>1. /\ [writer EXCEPT !.at = "observe", !.i = @ + 1] \in Writer
              /\ [writer EXCEPT !.at = "observe", !.i = @ + 1].i = writer.i + 1
          BY <1>0, AdvanceType, ZenonT(60)
        <4> QED
          BY <1>0, <3>1, <4>1, ZenonT(60)
    <2>2. query' \in [Queries -> Query]
      BY <1>0, <1>3 DEF Send
    <2>3. Within'
      BY <1>0, <1>3, <2>1 DEF Send
    <2> QED
      BY <1>0, <1>3, <2>1, <2>2, <2>3 DEF ListenerTypeOK, Send
  <1>4. CASE FinishWrite
    <2>1. Within'
      BY <1>0, <1>4 DEF FinishWrite
    <2> QED
      BY <1>0, <1>4, <2>1 DEF ListenerTypeOK, FinishWrite
  <1>5. ASSUME NEW q \in Queries, Observe(q) PROVE ListenerTypeOK'
    <2>1. query' \in [Queries -> Query] /\ since' \in [Queries -> Nat] /\ observers' \in Seq(Queries)
      BY <1>0, <1>5, SMTT(30) DEF Observe
    <2>2. Within'
      BY <1>0, <1>5 DEF Observe, omtxFree
    <2> QED
      BY <1>0, <1>5, <2>1, <2>2 DEF ListenerTypeOK, Observe
  <1>6. ASSUME NEW q \in Queries, RemoveObserver(q) PROVE ListenerTypeOK'
    <2>1. PICK k \in DOMAIN observers : observers[k] = q
      BY <1>6 DEF RemoveObserver, Inv1, ObserversAreOpen, Range
    <2>2. observers' \in Seq(Queries)
      BY <1>0, <1>6, <2>1, WithoutEffect DEF RemoveObserver, Inv1, ObserversAreOpen
    <2>3. query' \in [Queries -> Query]
      BY <1>0, <1>6, Zenon DEF RemoveObserver
    <2>4. writer' = Idle
      BY <1>6 DEF RemoveObserver, omtxFree, Inv1, WriterInv
    <2>5. Within'
      BY <1>0, <2>2, <2>4
    <2> QED
      BY <1>0, <1>6, <2>2, <2>3, <2>4, <2>5 DEF RemoveObserver, ListenerTypeOK
  <1>7. ASSUME NEW q \in Queries, Timeout(q) \/ Again(q) PROVE ListenerTypeOK'
    <2>1. query' \in [Queries -> Query]
      <3>1. CASE Timeout(q)
        BY <1>0, <3>1, Zenon DEF Timeout
      <3>2. CASE Again(q)
        BY <1>0, <3>2 DEF Again
      <3> QED
        BY <1>7, <3>1, <3>2
    <2> QED
      BY <1>0, <1>7, <2>1 DEF ListenerTypeOK, Timeout, Again
  <1>8. CASE UNCHANGED listener_vars
    BY <1>0, <1>8 DEF ListenerTypeOK, listener_vars
  <1> QED
    BY <1>1, <1>2, <1>3, <1>4, <1>5, <1>6, <1>7, <1>8, ZenonT(60) DEF ListenerNext, Write, Step

\* Steps keep the list in line with the queries that are under way.
LEMMA NextObservers == Inv1 /\ [ListenerNext]_listener_vars => ObserversAreOpen'
  <1> SUFFICES ASSUME Inv1, [ListenerNext]_listener_vars PROVE ObserversAreOpen'
    OBVIOUS
  <1> DEFINE Open == {"wait", "remove"}
  <1>0. /\ observers \in Seq(Queries) /\ Len(observers) \in Nat
        /\ DOMAIN observers = 1..Len(observers)
        /\ query \in [Queries -> [at : {"start", "wait", "remove", "done"},
                                  profile : Profiles \cup {None}]]
    BY DEF Inv1, ListenerTypeOK
  <1>1. ASSUME UNCHANGED observers,
               \A q \in Queries : query[q].at \in Open <=> query'[q].at \in Open
        PROVE  ObserversAreOpen'
    BY <1>0, <1>1 DEF Inv1, ObserversAreOpen
  <1>2. ASSUME NEW p \in Profiles, ListenerWriteRaw(p) PROVE ObserversAreOpen'
    BY <1>1, <1>2 DEF ListenerWriteRaw
  <1>3. CASE CallObserver \/ FinishWrite \/ UNCHANGED listener_vars
    BY <1>1, <1>3 DEF CallObserver, FinishWrite, listener_vars
  <1>4. CASE Send
    <2>1. PICK q \in Queries : /\ query[q].at = "wait" /\ UNCHANGED observers
                              /\ query' = [query EXCEPT ![q] = [at |-> "remove", profile |-> writer.profile]]
      <3>1. writer.i \in DOMAIN observers
        BY <1>4 DEF Send, Inv1, ListenerTypeOK
      <3>2. observers[writer.i] \in Queries
        BY <1>0, <3>1
      <3> QED
        BY <1>4, <3>2, Zenon DEF Send
    <2> QED
      BY <1>0, <1>1, <2>1
  <1>5. ASSUME NEW q \in Queries, Timeout(q) \/ Again(q) PROVE ObserversAreOpen'
    BY <1>0, <1>1, <1>5 DEF Timeout, Again
  <1>6. ASSUME NEW q \in Queries, Observe(q) PROVE ObserversAreOpen'
    <2>1. /\ query[q].at = "start" /\ observers' = Append(observers, q)
          /\ query' = [query EXCEPT ![q].at = "wait"]
      BY <1>6 DEF Observe
    <2>2. \A i \in 1..Len(observers) : observers[i] # q /\ query[observers[i]].at \in Open
      BY <2>1 DEF Inv1, ObserversAreOpen
    <2>3. /\ Len(observers') = Len(observers) + 1 /\ DOMAIN observers' = 1..(Len(observers) + 1)
          /\ observers'[Len(observers) + 1] = q
          /\ \A i \in 1..Len(observers) : observers'[i] = observers[i]
      BY <1>0, <2>1
    <2>4. ASSUME NEW i \in 1..Len(observers') PROVE query'[observers'[i]].at \in Open
      <3>1. CASE i = Len(observers) + 1
        BY <1>0, <2>1, <2>3, <3>1
      <3>2. CASE i \in 1..Len(observers)
        BY <1>0, <2>1, <2>2, <2>3, <3>2
      <3> QED
        BY <1>0, <2>3, <3>1, <3>2
    <2>5. ASSUME NEW r \in Queries, query'[r].at \in Open PROVE \E i \in DOMAIN observers' : observers'[i] = r
      <3>1. CASE r = q
        <4>1. Len(observers) + 1 \in DOMAIN observers'
          BY <1>0, <2>3
        <4> QED
          BY <2>3, <3>1, <4>1
      <3>2. CASE r # q
        <4>1. query[r].at \in Open
          BY <1>0, <2>1, <2>5, <3>2
        <4>2. PICK i \in DOMAIN observers : observers[i] = r
          BY <4>1 DEF Inv1, ObserversAreOpen, Range
        <4> QED
          BY <1>0, <2>3, <4>2
      <3> QED
        BY <3>1, <3>2
    <2>6. ASSUME NEW i \in DOMAIN observers', NEW j \in DOMAIN observers', observers'[i] = observers'[j]
          PROVE  i = j
      BY <1>0, <2>2, <2>3, <2>6 DEF Inv1, ObserversAreOpen, IsInjective
    <2> QED
      BY <2>4, <2>5, <2>6 DEF ObserversAreOpen, Range, IsInjective
  <1>7. ASSUME NEW q \in Queries, RemoveObserver(q) PROVE ObserversAreOpen'
    <2>1. PICK k \in DOMAIN observers : observers[k] = q
      BY <1>7 DEF RemoveObserver, Inv1, ObserversAreOpen, Range
    <2>2. /\ observers' = Without(observers, observers[k])
          /\ query' = [query EXCEPT ![q].at = "done"]
      BY <1>7, <2>1 DEF RemoveObserver
    <2>3. IsInjective(observers)
      BY DEF Inv1, ObserversAreOpen
    <2>4. /\ observers' \in Seq(Queries) /\ Len(observers') = Len(observers) - 1
          /\ \A i \in 1..(Len(observers) - 1) :
                observers'[i] = IF i < k THEN observers[i] ELSE observers[i + 1]
      BY <1>0, <2>2, <2>3, WithoutEffect, Zenon
    <2>5. /\ k \in 1..Len(observers) /\ DOMAIN observers' = 1..(Len(observers) - 1)
          /\ \A i, j \in 1..Len(observers) : observers[i] = observers[j] => i = j
      BY <1>0, <2>3, <2>4 DEF IsInjective
    <2>6. ASSUME NEW i \in 1..(Len(observers) - 1)
          PROVE  \E m \in 1..Len(observers) :
                   m # k /\ m = (IF i < k THEN i ELSE i + 1) /\ observers'[i] = observers[m]
      BY <1>0, <2>4, <2>5, SMTT(30)
    <2>7. ASSUME NEW i \in 1..Len(observers') PROVE query'[observers'[i]].at \in Open
      <3>1. PICK m \in 1..Len(observers) : m # k /\ observers'[i] = observers[m]
        BY <2>4, <2>6
      <3>2. observers[m] # q /\ observers[m] \in Queries /\ query[observers[m]].at \in Open
        BY <1>0, <2>1, <2>5, <3>1 DEF Inv1, ObserversAreOpen
      <3> QED
        BY <1>0, <2>2, <3>1, <3>2
    <2>8. ASSUME NEW r \in Queries, query'[r].at \in Open PROVE \E i \in DOMAIN observers' : observers'[i] = r
      <3>1. r # q /\ query[r].at \in Open
        BY <1>0, <2>2, <2>8
      <3>2. PICK m \in DOMAIN observers : observers[m] = r
        BY <3>1 DEF Inv1, ObserversAreOpen, Range
      <3>3. CASE m < k
        <4>1. m \in 1..(Len(observers) - 1)
          BY <1>0, <2>5, <3>2, <3>3
        <4> QED
          BY <2>4, <2>5, <3>2, <3>3, <4>1
      <3>4. CASE m > k
        <4>1. m - 1 \in 1..(Len(observers) - 1) /\ ~(m - 1 < k) /\ (m - 1) + 1 = m
          BY <1>0, <2>5, <3>2, <3>4
        <4> QED
          BY <2>4, <2>5, <3>2, <4>1
      <3> QED
        BY <1>0, <2>1, <2>5, <3>1, <3>2, <3>3, <3>4
    <2>9. ASSUME NEW i \in DOMAIN observers', NEW j \in DOMAIN observers', observers'[i] = observers'[j]
          PROVE  i = j
      <3>1. PICK m \in 1..Len(observers) : m = (IF i < k THEN i ELSE i + 1) /\ observers'[i] = observers[m]
        BY <2>5, <2>6, Zenon
      <3>2. PICK n \in 1..Len(observers) : n = (IF j < k THEN j ELSE j + 1) /\ observers'[j] = observers[n]
        BY <2>5, <2>6
      <3>3. m = n
        BY <2>5, <2>9, <3>1, <3>2, Zenon
      <3> QED
        BY <1>0, <2>5, <3>1, <3>2, <3>3
    <2> QED
      BY <2>7, <2>8, <2>9 DEF ObserversAreOpen, Range, IsInjective
  <1> QED
    BY <1>2, <1>3, <1>4, <1>5, <1>6, <1>7, ZenonT(60) DEF ListenerNext, Write, Step

\* Steps keep WriteRaw idle or in its loop.
LEMMA NextWriter == Inv1 /\ [ListenerNext]_listener_vars => WriterInv'
  <1> SUFFICES ASSUME Inv1, [ListenerNext]_listener_vars PROVE WriterInv'
    OBVIOUS
  <1>0. /\ writer \in [at : {"idle", "observe", "send"}, profile : Profiles \cup {None}, i : Nat]
        /\ WriterInv
    BY DEF Inv1, ListenerTypeOK
  <1>1. CASE writer' \in {writer, Idle}
    BY <1>0, <1>1 DEF WriterInv, Idle
  <1>2. CASE CallObserver
    <2>1. writer.i > 0 /\ writer.at = "observe"
      BY <1>0, <1>2 DEF CallObserver, WriterInv
    <2>2. writer'.i > 0 /\ writer'.at # "idle"
      BY <1>0, <1>2, <2>1 DEF CallObserver
    <2> QED
      BY <2>2 DEF WriterInv
  <1>3. CASE Send
    <2>1. writer'.i > 0 /\ writer'.at # "idle"
      BY <1>0, <1>3 DEF Send
    <2> QED
      BY <2>1 DEF WriterInv
  <1>4. ASSUME NEW p \in Profiles, ListenerWriteRaw(p) PROVE WriterInv'
    BY <1>4 DEF ListenerWriteRaw, WriterInv
  <1>5. ASSUME NEW q \in Queries, Step(q) \/ Timeout(q) \/ Again(q) PROVE writer' = writer
    BY <1>5 DEF Step, Observe, RemoveObserver, Timeout, Again
  <1>6. CASE FinishWrite \/ UNCHANGED listener_vars
    BY <1>1, <1>6 DEF FinishWrite, listener_vars
  <1> QED
    BY <1>1, <1>2, <1>3, <1>4, <1>5, <1>6 DEF ListenerNext, Write

\* The types and the list.
LEMMA InductiveInv1 == ListenerSpec => []Inv1
  <1>1. Inv1 /\ [ListenerNext]_listener_vars => Inv1'
    BY NextTypeOK, NextObservers, NextWriter DEF Inv1
  <1> QED
    BY <1>1, InitInv1, PTL DEF ListenerSpec

\* However queries, timeouts and writes interleave, the list of observers holds exactly the
\* queries that are between observe and removeObserver, each once.
THEOREM ObserversAreOpenHolds == ListenerSpec => []ObserversAreOpen
  <1>1. Inv1 => ObserversAreOpen
    BY DEF Inv1
  <1> QED
    BY <1>1, InductiveInv1, PTL

-----------------------------------------------------------------------------
(* The answers.  While the loop runs, a waiting query whose match is being shown has its *)
(* observer still ahead of it; nothing else it matches was written since it is waiting.  *)

WaitingForMatch(q) ==
    /\ writer.at # "idle" => since[q] < Len(writes)
    /\ \A n \in (since[q] + 1)..Len(writes) : writes[n] \in Matching[q] =>
          /\ n = Len(writes) /\ writer.at # "idle"
          /\ \E k \in DOMAIN observers : observers[k] = q /\ k >= writer.i

ShownInv ==
    /\ \A q \in Queries : since[q] <= Len(writes)
    /\ \A q \in Queries : query[q].at = "start" => query[q].profile = None
    /\ writer.at # "idle" => writes # <<>> /\ writes[Len(writes)] = writer.profile
    /\ writer.at = "send" => writer.profile \in Matching[observers[writer.i]]

MatchInv == ShownInv /\ \A q \in Queries : query[q].at = "wait" => WaitingForMatch(q)

\* What the steps of a query do to it; the other queries stay as they are.
LEMMA QuerySteps ==
    ASSUME Inv1, NEW q \in Queries
    PROVE  /\ Observe(q) \/ Timeout(q) \/ RemoveObserver(q) \/ Again(q) =>
                \A r \in Queries : r # q => query'[r] = query[r] /\ since'[r] = since[r]
           /\ Observe(q) => query'[q].at = "wait" /\ query'[q].profile = query[q].profile
                            /\ since'[q] = Len(writes)
           /\ Timeout(q) => query'[q].at = "remove" /\ query'[q].profile = query[q].profile
           /\ RemoveObserver(q) => query'[q].at = "done" /\ query'[q].profile = query[q].profile
           /\ Again(q) => query'[q].at = "start" /\ query'[q].profile = None
  <1>0. query \in [Queries -> Query] /\ since \in [Queries -> Nat]
    BY DEF Inv1, ListenerTypeOK, Query
  <1>1. CASE Observe(q)
    BY <1>0, <1>1 DEF Observe, Timeout, RemoveObserver, Again, Query
  <1>2. CASE Timeout(q)
    BY <1>0, <1>2 DEF Observe, Timeout, RemoveObserver, Again, Query
  <1>3. CASE RemoveObserver(q)
    BY <1>0, <1>3 DEF Observe, Timeout, RemoveObserver, Again, Query
  <1>4. CASE Again(q)
    BY <1>0, <1>4 DEF Observe, Timeout, RemoveObserver, Again, Query
  <1> QED
    BY <1>1, <1>2, <1>3, <1>4, ZenonT(60)

\* What sending a profile does.
LEMMA SendStep ==
    ASSUME Inv1, Send
    PROVE  /\ writer.at = "send" /\ writer.i \in DOMAIN observers
           /\ observers[writer.i] \in Queries /\ query[observers[writer.i]].at = "wait"
           /\ query'[observers[writer.i]] = [at |-> "remove", profile |-> writer.profile]
           /\ \A r \in Queries : r # observers[writer.i] => query'[r] = query[r]
           /\ writer' = [at |-> "observe", profile |-> writer.profile, i |-> writer.i + 1]
           /\ UNCHANGED <<observers, writes, since>>
  <1>0. query \in [Queries -> Query] /\ observers \in Seq(Queries) /\ writer \in Writer
    BY DEF Inv1, ListenerTypeOK, Query, Writer
  <1>1. writer.at = "send" /\ writer.i \in DOMAIN observers
    BY DEF Send, Inv1, ListenerTypeOK
  <1>2. observers[writer.i] \in Queries
    BY <1>0, <1>1
  <1>3. writer' = [at |-> "observe", profile |-> writer.profile, i |-> writer.i + 1]
    BY <1>0, Zenon DEF Send, Writer
  <1> QED
    BY <1>0, <1>1, <1>2, <1>3, Zenon DEF Send

\* What a call of an observer does.
LEMMA CallStep ==
    ASSUME Inv1, CallObserver
    PROVE  /\ writer.at = "observe" /\ writer.i \in DOMAIN observers
           /\ UNCHANGED <<observers, query, writes, since>>
           /\ writer'.profile = writer.profile
           /\ \/ /\ writer.profile \in Matching[observers[writer.i]]
                 /\ writer'.at = "send" /\ writer'.i = writer.i
              \/ /\ writer.profile \notin Matching[observers[writer.i]]
                 /\ writer'.at = "observe" /\ writer'.i = writer.i + 1
  <1>0. writer \in Writer /\ observers \in Seq(Queries)
    BY DEF Inv1, ListenerTypeOK, Writer
  <1>1. writer.i > 0
    BY DEF Inv1, WriterInv, CallObserver
  <1>2. writer.i \in DOMAIN observers
    BY <1>0, <1>1 DEF CallObserver, Writer
  <1> QED
    BY <1>0, <1>2 DEF CallObserver, Writer

\* Steps keep the bookkeeping of what is being shown.
LEMMA NextShown == Inv1 /\ MatchInv /\ [ListenerNext]_listener_vars => ShownInv'
  <1> SUFFICES ASSUME Inv1, MatchInv, [ListenerNext]_listener_vars PROVE ShownInv'
    OBVIOUS
  <1>0. /\ ShownInv /\ writes \in Seq(Profiles) /\ Len(writes) \in Nat
        /\ since \in [Queries -> Nat] /\ writer \in Writer
    BY DEF MatchInv, Inv1, ListenerTypeOK, Writer
  <1>1. ASSUME NEW p \in Profiles, ListenerWriteRaw(p) PROVE ShownInv'
    <2>1. /\ writes' = Append(writes, p) /\ UNCHANGED <<observers, query, since>>
          /\ writer'.at = "observe" /\ writer'.profile = p
      BY <1>1 DEF ListenerWriteRaw
    <2>2. writes' # <<>> /\ Len(writes') = Len(writes) + 1 /\ writes'[Len(writes')] = p
      BY <1>0, <2>1
    <2>3. \A q \in Queries : since'[q] <= Len(writes')
      BY <1>0, <2>1, <2>2 DEF ShownInv
    <2> QED
      BY <1>0, <2>1, <2>2, <2>3 DEF ShownInv
  <1>2. CASE CallObserver
    BY <1>0, <1>2, CallStep DEF ShownInv
  <1>3. CASE Send
    <2>1. \A q \in Queries : query'[q].at = "start" => query'[q].profile = None
      BY <1>0, <1>3, SendStep DEF ShownInv
    <2>2. writer'.at = "observe" /\ writer'.profile = writer.profile /\ writer.at # "idle"
          /\ UNCHANGED <<writes, since>>
      BY <1>3, SendStep
    <2> QED
      BY <1>0, <2>1, <2>2 DEF ShownInv
  <1>4. CASE FinishWrite
    BY <1>0, <1>4 DEF ShownInv, FinishWrite, Idle
  <1>5. ASSUME NEW q \in Queries, Observe(q) \/ Timeout(q) \/ RemoveObserver(q) \/ Again(q)
        PROVE  ShownInv'
    <2>1. UNCHANGED <<writer, writes>> /\ (writer.at = "send" => UNCHANGED observers)
      BY <1>5 DEF Observe, Timeout, RemoveObserver, Again, omtxFree
    <2>2. \A r \in Queries : since'[r] <= Len(writes')
      <3>1. since'[q] \in {since[q], Len(writes)}
        BY <1>0, <1>5 DEF Observe, Timeout, RemoveObserver, Again
      <3> QED
        BY <1>0, <1>5, <2>1, <3>1, QuerySteps DEF ShownInv
    <2>3. \A r \in Queries : query'[r].at = "start" => query'[r].profile = None
      BY <1>0, <1>5, QuerySteps DEF ShownInv
    <2> QED
      BY <1>0, <2>1, <2>2, <2>3 DEF ShownInv
  <1>6. CASE UNCHANGED listener_vars
    BY <1>0, <1>6 DEF ShownInv, listener_vars
  <1> QED
    BY <1>1, <1>2, <1>3, <1>4, <1>5, <1>6, ZenonT(60) DEF ListenerNext, Write, Step

\* Steps keep what is known of a waiting query.
LEMMA NextWaiting ==
    ASSUME Inv1, MatchInv, [ListenerNext]_listener_vars, NEW q \in Queries, query'[q].at = "wait"
    PROVE  WaitingForMatch(q)'
  <1>0. /\ ShownInv /\ writes \in Seq(Profiles) /\ Len(writes) \in Nat
        /\ since[q] \in Nat /\ since[q] <= Len(writes)
        /\ writer \in Writer /\ writer.i \in Nat
        /\ observers \in Seq(Queries) /\ DOMAIN observers = 1..Len(observers) /\ Len(observers) \in Nat
    BY DEF MatchInv, ShownInv, Inv1, ListenerTypeOK, Writer
  <1>1. ASSUME NEW p \in Profiles, ListenerWriteRaw(p) PROVE WaitingForMatch(q)'
    <2>1. /\ writes' = Append(writes, p) /\ UNCHANGED <<observers, query, since>>
          /\ writer'.at = "observe" /\ writer'.i = 1 /\ writer.at = "idle"
      BY <1>1 DEF ListenerWriteRaw, omtxFree
    <2>2. Len(writes') = Len(writes) + 1 /\ \A n \in 1..Len(writes) : writes'[n] = writes[n]
      BY <1>0, <2>1
    <2>3. \A n \in (since[q] + 1)..Len(writes) : writes[n] \notin Matching[q]
      BY <2>1 DEF MatchInv, WaitingForMatch
    <2>4. PICK k \in DOMAIN observers : observers[k] = q
      BY <2>1 DEF Inv1, ObserversAreOpen, Range
    <2>5. \E k1 \in DOMAIN observers' : observers'[k1] = q /\ k1 >= writer'.i
      BY <1>0, <2>1, <2>4
    <2>6. ASSUME NEW n \in (since'[q] + 1)..Len(writes'), writes'[n] \in Matching[q]
          PROVE  n = Len(writes')
      BY <1>0, <2>1, <2>2, <2>3, <2>6
    <2>7. since'[q] < Len(writes')
      BY <1>0, <2>1, <2>2
    <2> QED
      BY <2>1, <2>5, <2>6, <2>7, Zenon DEF WaitingForMatch
  <1>2. CASE CallObserver
    <2>0. WaitingForMatch(q)
      BY <1>2, CallStep DEF MatchInv
    <2>1. /\ UNCHANGED <<observers, writes, since>> /\ writer.at # "idle" /\ writer'.at # "idle"
          /\ writes[Len(writes)] = writer.profile
      BY <1>0, <1>2, CallStep DEF ShownInv
    <2>2. ASSUME NEW n \in (since'[q] + 1)..Len(writes'), writes'[n] \in Matching[q]
          PROVE  /\ n = Len(writes')
                 /\ \E k \in DOMAIN observers' : observers'[k] = q /\ k >= writer'.i
      <3>1. n = Len(writes) /\ \E k \in DOMAIN observers : observers[k] = q /\ k >= writer.i
        BY <2>0, <2>1, <2>2 DEF WaitingForMatch
      <3>2. PICK k \in DOMAIN observers : observers[k] = q /\ k >= writer.i
        BY <3>1
      <3>3. writer.profile \in Matching[observers[k]]
        BY <2>1, <2>2, <3>1, <3>2
      <3>4. k >= writer'.i
        <4>1. CASE writer'.i = writer.i
          BY <3>2, <4>1
        <4>2. CASE writer.profile \notin Matching[observers[writer.i]] /\ writer'.i = writer.i + 1
          BY <1>0, <3>2, <3>3, <4>2
        <4> QED
          BY <1>2, <4>1, <4>2, CallStep
      <3> QED
        BY <2>1, <3>1, <3>2, <3>4
    <2> QED
      BY <2>0, <2>1, <2>2 DEF WaitingForMatch
  <1>3. CASE Send
    <2>1. q # observers[writer.i] /\ query[q].at = "wait"
      BY <1>3, SendStep
    <2>2. WaitingForMatch(q)
      BY <2>1 DEF MatchInv
    <2>3. /\ UNCHANGED <<observers, writes, since>> /\ writer.at # "idle"
          /\ writer'.at # "idle" /\ writer'.i = writer.i + 1
      BY <1>3, SendStep
    <2>4. ASSUME NEW n \in (since'[q] + 1)..Len(writes'), writes'[n] \in Matching[q]
          PROVE  /\ n = Len(writes')
                 /\ \E k \in DOMAIN observers' : observers'[k] = q /\ k >= writer'.i
      <3>1. n = Len(writes) /\ \E k \in DOMAIN observers : observers[k] = q /\ k >= writer.i
        BY <2>2, <2>3, <2>4 DEF WaitingForMatch
      <3>2. PICK k \in DOMAIN observers : observers[k] = q /\ k >= writer.i
        BY <3>1
      <3>3. k >= writer'.i
        BY <1>0, <2>1, <2>3, <3>2
      <3> QED
        BY <2>3, <3>1, <3>2, <3>3
    <2> QED
      BY <2>2, <2>3, <2>4 DEF WaitingForMatch
  <1>4. CASE FinishWrite
    <2>0. /\ writer.at = "observe" /\ writer.i > Len(observers) /\ writer'.at = "idle"
          /\ UNCHANGED <<observers, query, writes, since>>
      BY <1>4 DEF FinishWrite, Idle
    <2>1. WaitingForMatch(q)
      BY <2>0 DEF MatchInv
    <2>2. \A k \in DOMAIN observers : ~(k >= writer.i)
      BY <1>0, <2>0
    <2>3. \A n \in (since[q] + 1)..Len(writes) : writes[n] \notin Matching[q]
      BY <2>1, <2>2 DEF WaitingForMatch
    <2> QED
      BY <2>0, <2>3 DEF WaitingForMatch
  <1>5. ASSUME NEW r \in Queries, Observe(r) \/ RemoveObserver(r) PROVE WaitingForMatch(q)'
    <2>0. writer.at = "idle" /\ UNCHANGED <<writer, writes>>
      BY <1>5 DEF Observe, RemoveObserver, omtxFree
    <2>1. \A n \in (since'[q] + 1)..Len(writes) : writes[n] \notin Matching[q]
      <3>1. CASE r = q
        <4>1. Observe(q)
          BY <1>5, <3>1, QuerySteps
        <4>2. since'[q] = Len(writes)
          BY <4>1, QuerySteps
        <4> QED
          BY <1>0, <4>2
      <3>2. CASE r # q
        <4>1. query'[q] = query[q] /\ since'[q] = since[q]
          BY <1>5, <3>2, QuerySteps
        <4> QED
          BY <2>0, <4>1 DEF MatchInv, WaitingForMatch
      <3> QED
        BY <3>1, <3>2
    <2> QED
      BY <2>0, <2>1 DEF WaitingForMatch
  <1>6. ASSUME NEW r \in Queries, Timeout(r) \/ Again(r) PROVE WaitingForMatch(q)'
    <2>1. q # r
      BY <1>6, QuerySteps
    <2>2. query'[q] = query[q] /\ UNCHANGED <<observers, writer, writes, since>>
      BY <1>6, <2>1, QuerySteps DEF Timeout, Again
    <2> QED
      BY <2>2 DEF MatchInv, WaitingForMatch
  <1>7. CASE UNCHANGED listener_vars
    BY <1>7 DEF listener_vars, MatchInv, WaitingForMatch
  <1> QED
    BY <1>1, <1>2, <1>3, <1>4, <1>5, <1>6, <1>7, ZenonT(60) DEF ListenerNext, Write, Step

\* Steps keep the answers: the first match since the observer was added.
LEMMA NextAnswers == Inv1 /\ MatchInv /\ AnswerIsNextMatch /\ [ListenerNext]_listener_vars => AnswerIsNextMatch'
  <1> SUFFICES ASSUME Inv1, MatchInv, AnswerIsNextMatch, [ListenerNext]_listener_vars,
                      NEW q \in Queries, query'[q].profile # None
               PROVE  \E n \in (since'[q] + 1)..Len(writes') :
                        /\ writes'[n] = query'[q].profile /\ writes'[n] \in Matching[q]
                        /\ \A m \in (since'[q] + 1)..(n - 1) : writes'[m] \notin Matching[q]
    BY DEF AnswerIsNextMatch
  <1> DEFINE Goal == \E n \in (since'[q] + 1)..Len(writes') :
                        /\ writes'[n] = query'[q].profile /\ writes'[n] \in Matching[q]
                        /\ \A m \in (since'[q] + 1)..(n - 1) : writes'[m] \notin Matching[q]
  <1>0. /\ ShownInv /\ writes \in Seq(Profiles) /\ Len(writes) \in Nat
        /\ since[q] \in Nat /\ since[q] <= Len(writes) /\ query \in [Queries -> Query]
    BY DEF MatchInv, ShownInv, Inv1, ListenerTypeOK, Query
  <1>1. CASE query'[q].profile = query[q].profile /\ since'[q] = since[q] /\ UNCHANGED writes
    BY <1>1 DEF AnswerIsNextMatch
  <1>2. ASSUME NEW p \in Profiles, ListenerWriteRaw(p) PROVE Goal
    <2>1. writes' = Append(writes, p) /\ UNCHANGED <<query, since>>
      BY <1>2 DEF ListenerWriteRaw
    <2>2. Len(writes') = Len(writes) + 1 /\ \A n \in 1..Len(writes) : writes'[n] = writes[n]
      BY <1>0, <2>1
    <2>3. PICK n \in (since[q] + 1)..Len(writes) :
             /\ writes[n] = query[q].profile /\ writes[n] \in Matching[q]
             /\ \A m \in (since[q] + 1)..(n - 1) : writes[m] \notin Matching[q]
      BY <2>1 DEF AnswerIsNextMatch
    <2>4. n \in (since'[q] + 1)..Len(writes') /\ writes'[n] = writes[n]
      BY <1>0, <2>1, <2>2, <2>3
    <2>5. ASSUME NEW m \in (since'[q] + 1)..(n - 1) PROVE writes'[m] \notin Matching[q]
      <3>1. m \in (since[q] + 1)..(n - 1) /\ m \in 1..Len(writes)
        BY <1>0, <2>1, <2>3
      <3> QED
        BY <2>2, <2>3, <3>1
    <2> QED
      BY <2>1, <2>3, <2>4, <2>5, Zenon
  <1>3. CASE Send
    <2>1. CASE q = observers[writer.i]
      <3>1. /\ query[q].at = "wait" /\ writer.at = "send" /\ UNCHANGED <<writes, since>>
            /\ query'[q].profile = writer.profile
        BY <1>3, <2>1, SendStep
      <3>2. writes[Len(writes)] = writer.profile /\ writer.profile \in Matching[q] /\ WaitingForMatch(q)
        BY <1>0, <2>1, <3>1 DEF ShownInv, MatchInv
      <3>3. Len(writes) \in (since[q] + 1)..Len(writes)
        BY <1>0, <3>1, <3>2 DEF WaitingForMatch
      <3>4. ASSUME NEW m \in (since[q] + 1)..(Len(writes) - 1) PROVE writes[m] \notin Matching[q]
        BY <1>0, <3>2, <3>4 DEF WaitingForMatch
      <3> QED
        BY <3>1, <3>2, <3>3, <3>4
    <2>2. CASE q # observers[writer.i]
      BY <1>1, <1>3, <2>2, SendStep
    <2> QED
      BY <2>1, <2>2
  <1>4. CASE CallObserver \/ FinishWrite \/ UNCHANGED listener_vars
    BY <1>1, <1>4 DEF CallObserver, FinishWrite, listener_vars
  <1>5. ASSUME NEW r \in Queries, Observe(r) \/ Timeout(r) \/ RemoveObserver(r) \/ Again(r) PROVE Goal
    <2>0. UNCHANGED writes
      BY <1>5 DEF Observe, Timeout, RemoveObserver, Again
    <2>1. CASE r # q
      BY <1>1, <1>5, <2>0, <2>1, QuerySteps
    <2>2. CASE r = q
      <3>1. ~Again(q)
        BY QuerySteps
      <3>2. ~Observe(q)
        <4>1. Observe(q) => query[q].profile = None /\ query'[q].profile = query[q].profile
          BY <1>0, QuerySteps DEF Observe, ShownInv
        <4> QED
          BY <4>1
      <3>3. Timeout(q) \/ RemoveObserver(q)
        BY <1>5, <2>2, <3>1, <3>2
      <3>4. query'[q].profile = query[q].profile /\ since' = since
        BY <3>3, QuerySteps DEF Timeout, RemoveObserver
      <3> QED
        BY <1>1, <2>0, <3>4
    <2> QED
      BY <2>1, <2>2
  <1> QED
    BY <1>2, <1>3, <1>4, <1>5, ZenonT(60) DEF ListenerNext, Write, Step

\* Queries and the loop, together.
LEMMA InductiveMatch == ListenerSpec => [](MatchInv /\ AnswerIsNextMatch)
  <1>1. ListenerInit => MatchInv /\ AnswerIsNextMatch
    <2> SUFFICES ASSUME ListenerInit PROVE MatchInv /\ AnswerIsNextMatch
      OBVIOUS
    <2>1. /\ writer.at = "idle" /\ Len(writes) = 0
          /\ \A q \in Queries : query[q].at = "start" /\ query[q].profile = None /\ since[q] = 0
      BY DEF ListenerInit, Idle
    <2>2. ShownInv
      BY <2>1 DEF ShownInv
    <2> QED
      BY <2>1, <2>2 DEF MatchInv, AnswerIsNextMatch
  <1>2. Inv1 /\ MatchInv /\ AnswerIsNextMatch /\ [ListenerNext]_listener_vars => (MatchInv /\ AnswerIsNextMatch)'
    BY NextShown, NextWaiting, NextAnswers DEF MatchInv
  <1> QED
    BY <1>1, <1>2, InductiveInv1, PTL DEF ListenerSpec

\* What a query returns is the first matching profile written since its observer was added,
\* for every number of queries, whatever their matchers and whenever they time out.
THEOREM AnswerIsNextMatchHolds == ListenerSpec => []AnswerIsNextMatch
  BY InductiveMatch, PTL

\* A query that is still waiting has missed no match but the one being shown.
THEOREM NoMatchMissedHolds == ListenerSpec => []NoMatchMissed
  <1>1. MatchInv => NoMatchMissed
    BY DEF MatchInv, WaitingForMatch, NoMatchMissed
  <1> QED
    BY <1>1, InductiveMatch, PTL

Labels == UNION {convertLabels(ls) : ls \in LabelSets}
Entry == [labels : Labels, samples : Seq(Nat)]

Types ==
    /\ series \in Seq(Entry) /\ store \in Seq(Entry) /\ written \in Seq(Labels)
    /\ sender \in [at : {"wait", "send", "stopped"}, batch : Seq(Entry), attempts : Nat]

\* There is one series per sequence of labels, and its profiles are in the order in which
\* they were written.
Ordered(batch) ==
    /\ \A i, k \in DOMAIN batch : batch[i].labels = batch[k].labels => i = k
    /\ \A i \in DOMAIN batch : \A j, l \in DOMAIN batch[i].samples :
         j < l => batch[i].samples[j] < batch[i].samples[l]

\* The profiles of a series were written with its labels.
Labelled(batch) ==
    \A i \in DOMAIN batch : \A j \in DOMAIN batch[i].samples :
      batch[i].samples[j] \in 1..Len(written) /\ written[batch[i].samples[j]] = batch[i].labels

Older(A, B) == \A m \in A, n \in B : m < n

Settled == acked \cup dropped

\* What is settled is older than what is sent, and that is older than what is collected.
PlaceInv ==
    /\ Older(SamplesOf(sender.batch), SamplesOf(series))
    /\ Older(Settled, SamplesOf(series)) /\ Older(Settled, SamplesOf(sender.batch))
    /\ acked \cap dropped = {}
    /\ Settled \cup SamplesOf(series) \cup SamplesOf(sender.batch) = 1..Len(written)
    /\ sender.at # "send" => sender.batch = <<>>

\* What the store has is older than what is collected, and either older than the batch
\* or an earlier attempt has brought all of the batch already.
StoreInv ==
    /\ Older(SamplesOf(store), SamplesOf(series))
    /\ \/ Older(SamplesOf(store), SamplesOf(sender.batch))
       \/ SamplesOf(sender.batch) \subseteq SamplesOf(store)

BatchInv ==
    /\ Ordered(series) /\ Ordered(sender.batch)
    /\ Labelled(series) /\ Labelled(sender.batch) /\ Labelled(store)
    /\ PlaceInv /\ StoreInv

-----------------------------------------------------------------------------
(* Sequences of series. *)

\* A list with another element in a place.
LEMMA ReplacedEntry ==
    ASSUME NEW S, NEW s \in Seq(S), NEW m \in DOMAIN s, NEW e \in S, NEW d, d = [s EXCEPT ![m] = e]
    PROVE  /\ d \in Seq(S) /\ Len(d) = Len(s)
           /\ \A i \in 1..Len(s) : d[i] = IF i = m THEN e ELSE s[i]
  <1>1. DOMAIN s = 1..Len(s) /\ Len(s) \in Nat
    OBVIOUS
  <1>2. d \in [1..Len(s) -> S]
    BY <1>1
  <1>3. d \in Seq(S) /\ Len(d) = Len(s)
    BY <1>1, <1>2
  <1> QED
    BY <1>1, <1>3

\* The profiles of a sequence of series, by their positions.
LEMMA SamplesAt ==
    ASSUME NEW b \in Seq(Entry), NEW n
    PROVE  n \in SamplesOf(b) <=> \E i \in DOMAIN b : \E j \in DOMAIN b[i].samples : n = b[i].samples[j]
  BY DEF SamplesOf, Range

\* The profiles of a sequence of series, by their series.
LEMMA SamplesIn ==
    ASSUME NEW b, NEW n
    PROVE  n \in SamplesOf(b) <=> \E i \in DOMAIN b : n \in Range(b[i].samples)
  BY Zenon DEF SamplesOf

\* An empty sequence has no profiles.
LEMMA NoSamples ==
    /\ <<>> \in Seq(Entry) /\ DOMAIN <<>> = {}
    /\ SamplesOf(<<>>) = {} /\ Ordered(<<>>) /\ Labelled(<<>>)
  <1>1. <<>> \in Seq(Entry) /\ Len(<<>>) = 0 /\ DOMAIN <<>> = {}
    OBVIOUS
  <1>2. SamplesOf(<<>>) = {}
    BY <1>1 DEF SamplesOf
  <1>3. Ordered(<<>>) /\ Labelled(<<>>)
    BY <1>1, Zenon DEF Ordered, Labelled
  <1> QED
    BY <1>1, <1>2, <1>3

\* The entries of a sequence of series.
LEMMA EntryTypes ==
    ASSUME NEW b \in Seq(Entry), NEW i \in DOMAIN b
    PROVE  b[i] \in Entry /\ b[i].labels \in Labels /\ b[i].samples \in Seq(Nat)
  <1>1. b[i] \in Entry
    OBVIOUS
  <1> QED
    BY <1>1 DEF Entry

\* A store that receives a batch has the profiles of both.
LEMMA Concatenated ==
    ASSUME NEW s \in Seq(Entry), NEW b \in Seq(Entry)
    PROVE  /\ s \o b \in Seq(Entry)
           /\ SamplesOf(s \o b) = SamplesOf(s) \cup SamplesOf(b)
           /\ Len(s \o b) = Len(s) + Len(b)
           /\ \A i \in 1..Len(s) : (s \o b)[i] = s[i]
           /\ \A i \in 1..Len(b) : (s \o b)[Len(s) + i] = b[i]
           /\ \A i \in DOMAIN (s \o b) : i \in DOMAIN s \/ \E k \in DOMAIN b : i = Len(s) + k
  <1>1. PICK c : c = s \o b
    BY Zenon
  <1>2. /\ c \in Seq(Entry) /\ Len(c) = Len(s) + Len(b)
        /\ \A i \in 1..Len(s) : c[i] = s[i]
        /\ \A i \in 1..Len(b) : c[Len(s) + i] = b[i]
    BY <1>1
  <1>3. ASSUME NEW i \in DOMAIN c, i \notin DOMAIN s PROVE \E k \in DOMAIN b : i = Len(s) + k
    <2>1. i - Len(s) \in DOMAIN b /\ i = Len(s) + (i - Len(s))
      BY <1>2, <1>3
    <2> QED
      BY <2>1
  <1>4. DOMAIN s \subseteq DOMAIN c /\ \A k \in DOMAIN b : Len(s) + k \in DOMAIN c
    BY <1>2
  <1>5. SamplesOf(c) \subseteq SamplesOf(s) \cup SamplesOf(b)
    <2>1. ASSUME NEW n, NEW i \in DOMAIN c, n \in Range(c[i].samples) PROVE n \in SamplesOf(s) \cup SamplesOf(b)
      <3>1. CASE i \in DOMAIN s
        <4>1. c[i] = s[i]
          BY <1>2, <3>1
        <4> QED
          BY <2>1, <3>1, <4>1, SamplesIn
      <3>2. CASE i \notin DOMAIN s
        <4>1. PICK k \in DOMAIN b : i = Len(s) + k
          BY <1>3, <3>2
        <4>2. c[i] = b[k]
          BY <1>2, <4>1, SMTT(30)
        <4> QED
          BY <2>1, <4>2, SamplesIn
      <3> QED
        BY <3>1, <3>2
    <2> QED
      BY <2>1, SamplesIn
  <1>6. SamplesOf(s) \subseteq SamplesOf(c) /\ SamplesOf(b) \subseteq SamplesOf(c)
    <2>1. ASSUME NEW n, NEW i \in DOMAIN s, n \in Range(s[i].samples) PROVE n \in SamplesOf(c)
      <3>1. c[i] = s[i] /\ i \in DOMAIN c
        BY <1>2, <1>4
      <3> QED
        BY <2>1, <3>1, SamplesIn
    <2>2. ASSUME NEW n, NEW i \in DOMAIN b, n \in Range(b[i].samples) PROVE n \in SamplesOf(c)
      <3>1. c[Len(s) + i] = b[i] /\ Len(s) + i \in DOMAIN c
        <4>1. i \in 1..Len(b)
          OBVIOUS
        <4> QED
          BY <1>2, <1>4, <4>1, Zenon
      <3> QED
        BY <2>2, <3>1, SamplesIn
    <2> QED
      BY <2>1, <2>2, SamplesIn
  <1> QED
    BY <1>1, <1>2, <1>3, <1>5, <1>6

-----------------------------------------------------------------------------
(* WriteRaw. *)

Merged(labels, n) ==
    /\ series' \in Seq(Entry) /\ written' \in Seq(Labels)
    /\ SamplesOf(series)' = SamplesOf(series) \cup {n}
    /\ Ordered(series)' /\ Labelled(series)'

\* What was written stays as it was.
LEMMA WrittenKept ==
    ASSUME Types, NEW labels \in Labels, written' = Append(written, labels), NEW b, Labelled(b)
    PROVE  /\ Len(written') = Len(written) + 1 /\ written' \in Seq(Labels)
           /\ written'[Len(written) + 1] = labels
           /\ \A i \in DOMAIN b : \A j \in DOMAIN b[i].samples :
                 b[i].samples[j] \in 1..Len(written') /\ written'[b[i].samples[j]] = b[i].labels
  BY DEF Types, Labelled

\* A profile with labels that no series has starts one.
LEMMA NewSeries ==
    ASSUME Types, Ordered(series), Labelled(series), NEW labels \in Labels,
           written' = Append(written, labels), \A i \in DOMAIN series : series[i].labels # labels,
           series' = Append(series, [labels |-> labels, samples |-> <<Len(written) + 1>>])
    PROVE  Merged(labels, Len(written) + 1)
  <1>1. PICK n, e : n = Len(written) + 1 /\ e = [labels |-> labels, samples |-> <<n>>]
    OBVIOUS
  <1>2. /\ n \in Nat /\ e \in Entry /\ e.labels = labels /\ Len(e.samples) = 1 /\ e.samples[1] = n
        /\ DOMAIN e.samples = {1}
    BY <1>1 DEF Types, Entry
  <1>3. PICK m : m = Len(series) + 1
    OBVIOUS
  <1>4. /\ series' \in Seq(Entry) /\ DOMAIN series' = DOMAIN series \cup {m} /\ m \notin DOMAIN series
        /\ series'[m] = e /\ \A i \in DOMAIN series : series'[i] = series[i]
    BY <1>1, <1>2, <1>3 DEF Types
  <1>5. SamplesOf(series') = SamplesOf(series) \cup {n}
    <2>1. Range(e.samples) = {n}
      BY <1>2 DEF Range
    <2> QED
      <3>1. \A x : x \in SamplesOf(series') <=> \E i \in DOMAIN series' : x \in Range(series'[i].samples)
        BY SamplesIn, Zenon
      <3>2. \A x : x \in SamplesOf(series) <=> \E i \in DOMAIN series : x \in Range(series[i].samples)
        BY SamplesIn
      <3>3. series'[m].samples = e.samples /\ m \in DOMAIN series'
        BY <1>4
      <3>4. \A i \in DOMAIN series : i \in DOMAIN series' /\ series'[i].samples = series[i].samples
        BY <1>4
      <3>5. \A i \in DOMAIN series' : i = m \/ i \in DOMAIN series
        BY <1>4
      <3>6. \A x : x \in SamplesOf(series') <=> x \in SamplesOf(series) \/ x = n
        BY <2>1, <3>1, <3>2, <3>3, <3>4, <3>5, Zenon
      <3> QED
        BY <3>6
  <1>6. Ordered(series')
    BY <1>2, <1>4 DEF Ordered
  <1>7. Labelled(series)'
    <2>1. /\ n \in 1..Len(written') /\ written'[n] = labels
          /\ \A i \in DOMAIN series : \A j \in DOMAIN series[i].samples :
                /\ series[i].samples[j] \in 1..Len(written')
                /\ written'[series[i].samples[j]] = series[i].labels
      <3>1. Len(written) \in Nat
        BY DEF Types
      <3> QED
        BY <1>1, <3>1, WrittenKept
    <2> QED
      BY <1>2, <1>4, <2>1 DEF Labelled
  <1> QED
    BY <1>1, <1>4, <1>5, <1>6, <1>7, WrittenKept DEF Merged

\* A profile with the labels of a series is appended to it.
LEMMA SameSeries ==
    ASSUME Types, Ordered(series), Labelled(series), NEW labels \in Labels,
           written' = Append(written, labels), NEW m \in DOMAIN series, series[m].labels = labels,
           series' = [series EXCEPT ![m].samples = Append(series[m].samples, Len(written) + 1)]
    PROVE  Merged(labels, Len(written) + 1)
  <1>0. series \in Seq(Entry) /\ series[m] \in Entry /\ series[m].samples \in Seq(Nat) /\ m \in 1..Len(series)
    BY EntryTypes DEF Types
  <1>1. PICK n : n = Len(written) + 1
    OBVIOUS
  <1>2. PICK e : e = [series[m] EXCEPT !.samples = Append(series[m].samples, n)]
    BY Zenon
  <1>3. n \in Nat
    BY <1>1 DEF Types
  <1>4. e \in Entry /\ e.labels = labels /\ e.samples = Append(series[m].samples, n)
    <2>1. Append(series[m].samples, n) \in Seq(Nat)
      BY <1>0, <1>3
    <2>2. PICK r : r = Append(series[m].samples, n)
      BY Zenon
    <2>3. e = [series[m] EXCEPT !.samples = r]
      BY <1>2, <2>2
    <2>4. r \in Seq(Nat)
      BY <2>1, <2>2
    <2>5. e \in Entry /\ e.labels = series[m].labels /\ e.samples = r
      BY <1>0, <2>3, <2>4, Zenon DEF Entry
    <2> QED
      BY <2>2, <2>5
  <1>5. PICK o, p : o = series[m].samples /\ p = Len(o) + 1
    OBVIOUS
  <1>6. /\ DOMAIN e.samples = DOMAIN o \cup {p} /\ p \notin DOMAIN o /\ e.samples[p] = n
        /\ \A j \in DOMAIN o : e.samples[j] = o[j] /\ j < p
        /\ DOMAIN o \subseteq Nat /\ p \in Nat
    <2>1. o \in Seq(Nat) /\ Len(o) \in Nat /\ DOMAIN o = 1..Len(o) /\ p = Len(o) + 1
      BY <1>0, <1>5
    <2>2. e.samples = Append(o, n)
      BY <1>4, <1>5
    <2>3. PICK a : a = Append(o, n)
      BY Zenon
    <2>4. Len(a) = p /\ DOMAIN a = 1..p /\ a[p] = n /\ \A j \in 1..Len(o) : a[j] = o[j]
      BY <1>3, <2>1, <2>3
    <2> QED
      BY <2>1, <2>2, <2>3, <2>4
  <1>7. series' = [series EXCEPT ![m] = e]
    BY <1>0, <1>1, <1>2
  <1>8. /\ series' \in Seq(Entry) /\ DOMAIN series' = DOMAIN series
        /\ series'[m] = e /\ \A i \in DOMAIN series : i # m => series'[i] = series[i]
    <2>1. e \in Entry
      BY <1>4
    <2> QED
      <3>1. PICK d : d = [series EXCEPT ![m] = e]
        BY Zenon
      <3>2. /\ d \in Seq(Entry) /\ Len(d) = Len(series)
            /\ \A i \in 1..Len(series) : d[i] = IF i = m THEN e ELSE series[i]
        BY <1>0, <2>1, <3>1, ReplacedEntry
      <3>3. DOMAIN d = 1..Len(d) /\ DOMAIN series = 1..Len(series)
        BY <1>0, <3>2
      <3> QED
        BY <1>0, <1>7, <3>1, <3>2, <3>3, Zenon
  <1>9. SamplesOf(series') = SamplesOf(series) \cup {n}
    <2>1. Range(e.samples) = Range(o) \cup {n}
      BY <1>6 DEF Range
    <2> QED
      <3>1. \A x : x \in SamplesOf(series') <=> \E i \in DOMAIN series' : x \in Range(series'[i].samples)
        BY SamplesIn, Zenon
      <3>2. \A x : x \in SamplesOf(series) <=> \E i \in DOMAIN series : x \in Range(series[i].samples)
        BY SamplesIn
      <3> QED
        BY <1>5, <1>8, <2>1, <3>1, <3>2, Zenon
  <1>10. \A i \in DOMAIN series : series'[i].labels = series[i].labels
    BY <1>4, <1>8
  <1>11. \A j \in DOMAIN o : o[j] < n
    BY <1>1, <1>5 DEF Labelled, Types
  <1>12. Ordered(series')
    <2>1. ASSUME NEW j \in DOMAIN e.samples, NEW l \in DOMAIN e.samples, j < l
          PROVE  e.samples[j] < e.samples[l]
      <3>1. CASE l = p
        BY <1>6, <1>11, <2>1, <3>1
      <3>2. CASE l \in DOMAIN o
        <4>1. j \in DOMAIN o
          BY <1>6, <2>1, <3>2
        <4> QED
          BY <1>5, <1>6, <2>1, <3>2, <4>1 DEF Ordered
      <3> QED
        BY <1>6, <3>1, <3>2
    <2>2. \A i, k \in DOMAIN series' : series'[i].labels = series'[k].labels => i = k
      BY <1>8, <1>10 DEF Ordered
    <2>3. ASSUME NEW i \in DOMAIN series', NEW j \in DOMAIN series'[i].samples,
                 NEW l \in DOMAIN series'[i].samples, j < l
          PROVE  series'[i].samples[j] < series'[i].samples[l]
      BY <1>8, <2>1, <2>3, Zenon DEF Ordered
    <2> QED
      BY <2>2, <2>3 DEF Ordered
  <1>13. Labelled(series)'
    <2>1. /\ n \in 1..Len(written') /\ written'[n] = labels
          /\ \A i \in DOMAIN series : \A j \in DOMAIN series[i].samples :
                /\ series[i].samples[j] \in 1..Len(written')
                /\ written'[series[i].samples[j]] = series[i].labels
      <3>1. Len(written) \in Nat
        BY DEF Types
      <3> QED
        BY <1>1, <3>1, WrittenKept
    <2>2. \A j \in DOMAIN e.samples : e.samples[j] \in 1..Len(written') /\ written'[e.samples[j]] = labels
      BY <1>5, <1>6, <2>1
    <2> QED
      BY <1>4, <1>8, <2>1, <2>2, SMTT(30) DEF Labelled
  <1> QED
    BY <1>1, <1>8, <1>9, <1>12, <1>13, WrittenKept, Zenon DEF Merged

\* The series take the profile.
LEMMA MergeEffect ==
    ASSUME Types, Ordered(series), Labelled(series), NEW labels \in Labels,
           written' = Append(written, labels), series' = Merge(labels, Len(written) + 1)
    PROVE  Merged(labels, Len(written) + 1)
  <1>1. PICK same : same = {i \in DOMAIN series : series[i].labels = labels}
    BY Zenon
  <1>2. CASE same = {}
    BY <1>1, <1>2, NewSeries, Zenon DEF Merge
  <1>3. CASE same # {}
    <2>1. PICK m \in same : same = {m}
      BY <1>1, <1>3 DEF Ordered
    <2>2. Min(same) = m
      BY <1>1, <2>1 DEF Min, Types
    <2>3. m \in DOMAIN series /\ series[m].labels = labels
      BY <1>1
    <2>4. series' = [series EXCEPT ![m].samples = Append(series[m].samples, Len(written) + 1)]
      BY <1>1, <1>3, <2>2, Zenon DEF Merge
    <2> QED
      BY <2>3, <2>4, SameSeries
  <1> QED
    BY <1>2, <1>3

-----------------------------------------------------------------------------
(* The store. *)

Before(s, i, j) ==
    {s[i].samples[l] : l \in 1..(j - 1)}
      \cup UNION {Range(s[k].samples) : k \in {q \in 1..(i - 1) : s[q].labels = s[i].labels}}

InOrder(s) ==
    \A i \in DOMAIN s : \A j \in DOMAIN s[i].samples :
      s[i].samples[j] \in Before(s, i, j) \/ \A m \in Before(s, i, j) : m < s[i].samples[j]

\* What the store got before a profile, by positions.
LEMMA BeforeAt ==
    ASSUME NEW s, NEW i, NEW j, NEW m
    PROVE  m \in Before(s, i, j) <=>
             \/ \E k \in 1..(i - 1) : s[k].labels = s[i].labels /\ m \in Range(s[k].samples)
             \/ \E l \in 1..(j - 1) : m = s[i].samples[l]
  <1>1. PICK A : A = UNION {Range(s[k].samples) : k \in {q \in 1..(i - 1) : s[q].labels = s[i].labels}}
    BY Zenon
  <1>2. PICK B : B = {s[i].samples[l] : l \in 1..(j - 1)}
    BY Zenon
  <1>3. m \in A <=> \E k \in 1..(i - 1) : s[k].labels = s[i].labels /\ m \in Range(s[k].samples)
    BY <1>1
  <1>4. m \in B <=> \E l \in 1..(j - 1) : m = s[i].samples[l]
    BY <1>2
  <1>5. Before(s, i, j) = B \cup A
    BY <1>1, <1>2, Zenon DEF Before
  <1> QED
    BY <1>3, <1>4, <1>5

\* The profiles of a batch that the store has, it has in their series.
LEMMA ReceivedBefore ==
    ASSUME NEW s \in Seq(Entry), NEW b \in Seq(Entry), Labelled(s), Labelled(b),
           NEW k \in DOMAIN b, NEW j \in DOMAIN b[k].samples, b[k].samples[j] \in SamplesOf(s)
    PROVE  b[k].samples[j] \in Before(s \o b, Len(s) + k, j)
  <1>1. PICK c, n, i : c = s \o b /\ n = b[k].samples[j] /\ i = Len(s) + k
    BY Zenon
  <1>2. c[i] = b[k] /\ \A q \in 1..Len(s) : c[q] = s[q]
    BY <1>1, Concatenated
  <1>3. PICK q \in DOMAIN s : n \in Range(s[q].samples)
    BY <1>1, SamplesIn
  <1>4. s[q].labels = b[k].labels
    <2>1. PICK p \in DOMAIN s[q].samples : n = s[q].samples[p]
      BY <1>3 DEF Range
    <2>2. written[n] = s[q].labels /\ written[n] = b[k].labels
      BY <1>1, <2>1, Zenon DEF Labelled
    <2> QED
      BY <2>2
  <1>5. q \in 1..Len(s) /\ q \in 1..(i - 1)
    BY <1>1
  <1>6. c[q].labels = c[i].labels /\ n \in Range(c[q].samples)
    BY <1>2, <1>3, <1>4, <1>5
  <1> QED
    BY <1>1, <1>5, <1>6, BeforeAt, Zenon

\* A place before a place of a list is one of its places.
LEMMA EarlierIndex ==
    ASSUME NEW s \in Seq(Nat), NEW j \in DOMAIN s, NEW l \in 1..(j - 1)
    PROVE  j \in Nat /\ l \in DOMAIN s /\ l < j
  OBVIOUS

\* The profiles of a batch that is newer than the store are newer than all of their
\* series before them.
LEMMA NewerBefore ==
    ASSUME NEW s \in Seq(Entry), NEW b \in Seq(Entry), Ordered(b), Older(SamplesOf(s), SamplesOf(b)),
           NEW k \in DOMAIN b, NEW j \in DOMAIN b[k].samples, NEW m \in Before(s \o b, Len(s) + k, j)
    PROVE  m < b[k].samples[j]
  <1>1. PICK c, n, i : c = s \o b /\ n = b[k].samples[j] /\ i = Len(s) + k
    BY Zenon
  <1>2. /\ c[i] = b[k] /\ \A q \in 1..Len(s) : c[q] = s[q]
        /\ \A q \in DOMAIN c : q \in DOMAIN s \/ \E p \in DOMAIN b : q = Len(s) + p
        /\ \A p \in 1..Len(b) : c[Len(s) + p] = b[p]
        /\ Len(c) = Len(s) + Len(b) /\ c \in Seq(Entry)
    BY <1>1, Concatenated
  <1>3. n \in SamplesOf(b)
    BY <1>1, SamplesAt
  <1>4. b[k].samples \in Seq(Nat)
    BY EntryTypes
  <1>5. ASSUME NEW q \in 1..(i - 1), c[q].labels = c[i].labels, m \in Range(c[q].samples) PROVE m < n
    <2>1. q \in DOMAIN c
      BY <1>1, <1>2
    <2>2. CASE q \in DOMAIN s
      <3>1. c[q] = s[q]
        <4>1. q \in 1..Len(s)
          BY <2>2
        <4> QED
          BY <1>2, <4>1
      <3>2. m \in SamplesOf(s)
        BY <1>5, <2>2, <3>1, SamplesIn
      <3> QED
        BY <1>3, <3>2 DEF Older
    <2>3. ASSUME NEW p \in DOMAIN b, q = Len(s) + p PROVE FALSE
      <3>1. c[q] = b[p]
        BY <1>2, <2>3, SMTT(30)
      <3>2. p = k
        BY <1>2, <1>5, <3>1 DEF Ordered
      <3> QED
        BY <1>1, <2>3, <3>2
    <2> QED
      BY <1>2, <2>1, <2>2, <2>3
  <1>6. ASSUME NEW l \in 1..(j - 1), m = c[i].samples[l] PROVE m < n
    <2>1. j \in Nat /\ l \in DOMAIN b[k].samples /\ l < j
      BY <1>4, EarlierIndex
    <2> QED
      BY <1>1, <1>2, <1>6, <2>1 DEF Ordered
  <1>7. \/ \E q \in 1..(i - 1) : c[q].labels = c[i].labels /\ m \in Range(c[q].samples)
        \/ \E l \in 1..(j - 1) : m = c[i].samples[l]
    <2>1. m \in Before(c, i, j)
      BY <1>1
    <2> QED
      BY <2>1, BeforeAt
  <1> QED
    BY <1>1, <1>5, <1>6, <1>7, Zenon

\* A store that receives a batch keeps the series in order.
LEMMA OrderKept ==
    ASSUME NEW s \in Seq(Entry), NEW b \in Seq(Entry), Labelled(s), Labelled(b), Ordered(b), InOrder(s),
           Older(SamplesOf(s), SamplesOf(b)) \/ SamplesOf(b) \subseteq SamplesOf(s)
    PROVE  InOrder(s \o b)
  <1>1. PICK c : c = s \o b
    BY Zenon
  <1>2. /\ \A q \in 1..Len(s) : c[q] = s[q]
        /\ \A q \in DOMAIN c : q \in DOMAIN s \/ \E p \in DOMAIN b : q = Len(s) + p
        /\ \A p \in 1..Len(b) : c[Len(s) + p] = b[p]
    BY <1>1, Concatenated
  <1>3. ASSUME NEW i \in DOMAIN s, NEW j \in DOMAIN c[i].samples
        PROVE  c[i].samples[j] \in Before(c, i, j) \/ \A m \in Before(c, i, j) : m < c[i].samples[j]
    <2>1. i \in 1..Len(s) /\ \A k \in 1..(i - 1) : k \in 1..Len(s)
      OBVIOUS
    <2>2. c[i] = s[i] /\ \A k \in 1..(i - 1) : c[k] = s[k]
      BY <1>2, <2>1
    <2>3. \A m : m \in Before(c, i, j) <=> m \in Before(s, i, j)
      BY <2>2, BeforeAt, SMTT(30)
    <2> QED
      BY <1>3, <2>2, <2>3 DEF InOrder
  <1>4. ASSUME NEW k \in DOMAIN b, NEW i, i = Len(s) + k, NEW j \in DOMAIN c[i].samples
        PROVE  c[i].samples[j] \in Before(c, i, j) \/ \A m \in Before(c, i, j) : m < c[i].samples[j]
    <2>1. c[i] = b[k] /\ j \in DOMAIN b[k].samples
      BY <1>2, <1>4, SMTT(30)
    <2>2. CASE SamplesOf(b) \subseteq SamplesOf(s)
      <3>1. b[k].samples[j] \in SamplesOf(s)
        BY <2>1, <2>2, SamplesAt
      <3> QED
        BY <1>1, <1>4, <2>1, <3>1, ReceivedBefore
    <2>3. CASE Older(SamplesOf(s), SamplesOf(b))
      BY <1>1, <1>4, <2>1, <2>3, NewerBefore
    <2> QED
      BY <2>2, <2>3
  <1>5. ASSUME NEW i \in DOMAIN c, NEW j \in DOMAIN c[i].samples
        PROVE  c[i].samples[j] \in Before(c, i, j) \/ \A m \in Before(c, i, j) : m < c[i].samples[j]
    BY <1>2, <1>3, <1>4
  <1> QED
    BY <1>1, <1>5 DEF InOrder

\* Labels of what the store has.
LEMMA LabelsKept ==
    ASSUME NEW s \in Seq(Entry), NEW b \in Seq(Entry), Labelled(s), Labelled(b)
    PROVE  Labelled(s \o b)
  <1>1. PICK c : c = s \o b
    BY Zenon
  <1>2. /\ \A q \in 1..Len(s) : c[q] = s[q]
        /\ \A q \in DOMAIN c : q \in DOMAIN s \/ \E p \in DOMAIN b : q = Len(s) + p
        /\ \A p \in 1..Len(b) : c[Len(s) + p] = b[p]
    BY <1>1, Concatenated
  <1>3. ASSUME NEW i \in DOMAIN c PROVE (i \in DOMAIN s /\ c[i] = s[i]) \/ \E p \in DOMAIN b : c[i] = b[p]
    <2>1. CASE i \in DOMAIN s
      <3>1. i \in 1..Len(s)
        BY <2>1
      <3> QED
        BY <1>2, <2>1, <3>1
    <2>2. ASSUME NEW p \in DOMAIN b, i = Len(s) + p PROVE c[i] = b[p]
      <3>1. p \in 1..Len(b)
        OBVIOUS
      <3> QED
        BY <1>2, <2>2, <3>1
    <2> QED
      BY <1>2, <2>1, <2>2
  <1> QED
    BY <1>1, <1>3 DEF Labelled

-----------------------------------------------------------------------------
(* The steps. *)

Inv == Types /\ BatchInv /\ InOrder(store)

\* What the fields of the sender have.
LEMMA BatchTypes ==
    ASSUME Types
    PROVE  /\ series \in Seq(Entry) /\ store \in Seq(Entry) /\ sender.batch \in Seq(Entry)
           /\ written \in Seq(Labels) /\ Len(written) \in Nat
           /\ sender.attempts \in Nat /\ sender.at \in {"wait", "send", "stopped"}
  BY DEF Types

\* Labels and positions only name profiles that were written.
LEMMA SamplesWritten ==
    ASSUME NEW b \in Seq(Entry), Labelled(b)
    PROVE  SamplesOf(b) \subseteq 1..Len(written)
  BY SamplesAt DEF Labelled

\* WriteRaw adds the newest profile to the series.
LEMMA WriteStep == ASSUME Inv, NEW labels \in Labels, WriteRaw(labels) PROVE Inv'
  <1>0. /\ Types /\ BatchInv /\ InOrder(store) /\ series' = Merge(labels, Len(written) + 1)
        /\ written' = Append(written, labels) /\ UNCHANGED <<sender, canceled, store, acked, dropped>>
    BY DEF Inv, WriteRaw
  <1>1. PICK n : n = Len(written) + 1
    OBVIOUS
  <1>2. Merged(labels, n)
    BY <1>0, <1>1, MergeEffect DEF BatchInv
  <1>3. Len(written') = n /\ n \in Nat /\ 1..Len(written') = (1..Len(written)) \cup {n}
    BY <1>0, <1>1, BatchTypes
  <1>4. Types'
    BY <1>0, <1>2 DEF Types, Merged
  <1>5. Labelled(sender.batch)' /\ Labelled(store)'
    <2>1. Labelled(sender.batch) /\ Labelled(store)
      BY <1>0 DEF BatchInv
    <2> QED
      BY <1>0, <2>1, WrittenKept DEF Labelled
  <1>6. ASSUME NEW A, A \subseteq 1..Len(written), Older(A, SamplesOf(series))
        PROVE  Older(A, SamplesOf(series)')
    <2>1. \A m \in A : m < n
      BY <1>0, <1>1, <1>6, BatchTypes
    <2> QED
      BY <1>2, <1>6, <2>1 DEF Older, Merged
  <1>7. /\ Settled \subseteq 1..Len(written) /\ SamplesOf(sender.batch) \subseteq 1..Len(written)
        /\ SamplesOf(store) \subseteq 1..Len(written)
    BY <1>0, BatchTypes, SamplesWritten DEF BatchInv, PlaceInv
  <1>8. PlaceInv'
    <2>1. Older(SamplesOf(sender.batch), SamplesOf(series)') /\ Older(Settled, SamplesOf(series)')
      BY <1>0, <1>6, <1>7 DEF BatchInv, PlaceInv
    <2>2. UNCHANGED <<Settled, SamplesOf(sender.batch), sender>>
      BY <1>0 DEF Settled
    <2>3. (Settled \cup SamplesOf(series) \cup SamplesOf(sender.batch) = 1..Len(written))'
      BY <1>0, <1>2, <1>3, <2>2 DEF BatchInv, PlaceInv, Merged
    <2> QED
      BY <1>0, <2>1, <2>2, <2>3 DEF BatchInv, PlaceInv
  <1>9. StoreInv'
    <2>1. Older(SamplesOf(store), SamplesOf(series)')
      BY <1>0, <1>6, <1>7 DEF BatchInv, StoreInv
    <2> QED
      BY <1>0, <2>1 DEF BatchInv, StoreInv
  <1> QED
    BY <1>0, <1>2, <1>4, <1>5, <1>8, <1>9 DEF Inv, BatchInv, Merged

\* The ticker: what was collected becomes the batch.
LEMMA BatchStep == ASSUME Inv, Batch PROVE Inv'
  <1>0. /\ Types /\ BatchInv /\ InOrder(store) /\ sender.batch = <<>> /\ series' = <<>>
        /\ sender' = [at |-> "send", batch |-> series, attempts |-> 0]
        /\ sender'.batch = series /\ sender'.at = "send"
        /\ UNCHANGED <<canceled, store, written, acked, dropped>>
    BY DEF Inv, Batch, BatchInv, PlaceInv
  <1>1. Types'
    BY <1>0, NoSamples DEF Types
  <1>2. /\ SamplesOf(sender.batch) = {} /\ SamplesOf(series)' = {}
        /\ SamplesOf(sender.batch)' = SamplesOf(series)
        /\ UNCHANGED <<Settled, SamplesOf(store)>>
    BY <1>0, NoSamples DEF Settled
  <1>3. Ordered(series)' /\ Ordered(sender.batch)'
    BY <1>0, NoSamples DEF BatchInv
  <1>4. Labelled(series)' /\ Labelled(sender.batch)' /\ Labelled(store)'
    BY <1>0, NoSamples DEF BatchInv, Labelled
  <1>5. PlaceInv'
    BY <1>0, <1>2 DEF BatchInv, PlaceInv, Older
  <1>6. StoreInv'
    BY <1>0, <1>2 DEF BatchInv, StoreInv, Older
  <1> QED
    BY <1>0, <1>1, <1>3, <1>4, <1>5, <1>6 DEF Inv, BatchInv

\* The store with the batch, or as it was.
LEMMA ReceiveEffect ==
    ASSUME Inv, store' = store \/ store' = store \o sender.batch, UNCHANGED <<series, written>>
    PROVE  /\ store' \in Seq(Entry) /\ InOrder(store') /\ Labelled(store)'
           /\ Older(SamplesOf(store)', SamplesOf(series))
           /\ \/ Older(SamplesOf(store)', SamplesOf(sender.batch))
              \/ SamplesOf(sender.batch) \subseteq SamplesOf(store)'
  <1>0. /\ series \in Seq(Entry) /\ store \in Seq(Entry) /\ sender.batch \in Seq(Entry)
        /\ Ordered(sender.batch) /\ Labelled(sender.batch) /\ Labelled(store) /\ InOrder(store)
        /\ Older(SamplesOf(sender.batch), SamplesOf(series)) /\ StoreInv
    BY BatchTypes DEF Inv, BatchInv, PlaceInv
  <1>1. CASE store' = store
    BY <1>0, <1>1 DEF StoreInv, Labelled
  <1>2. CASE store' = store \o sender.batch
    <2>1. InOrder(store \o sender.batch) /\ Labelled(store \o sender.batch)
      BY <1>0, OrderKept, LabelsKept DEF StoreInv
    <2>2. store' \in Seq(Entry) /\ SamplesOf(store)' = SamplesOf(store) \cup SamplesOf(sender.batch)
      BY <1>0, <1>2, Concatenated
    <2>3. Labelled(store)'
      BY <1>2, <2>1 DEF Labelled
    <2> QED
      BY <1>0, <1>2, <2>1, <2>2, <2>3 DEF StoreInv, Older
  <1> QED
    BY <1>1, <1>2

\* An attempt: the batch stays with the sender, or is settled and leaves it.
LEMMA AttemptStep == ASSUME Inv, Attempt PROVE Inv'
  <1>0. /\ Types /\ BatchInv /\ (store' = store \/ store' = store \o sender.batch)
        /\ UNCHANGED <<series, written>>
    BY DEF Inv, Attempt, Sent, Retry, GiveUp, Received
  <1>1. /\ store' \in Seq(Entry) /\ InOrder(store') /\ Labelled(store)'
        /\ Older(SamplesOf(store)', SamplesOf(series))
        /\ \/ Older(SamplesOf(store)', SamplesOf(sender.batch))
           \/ SamplesOf(sender.batch) \subseteq SamplesOf(store)'
    BY <1>0, ReceiveEffect
  <1>2. Ordered(series)' /\ Labelled(series)'
    BY <1>0 DEF BatchInv, Labelled
  <1>3. CASE Retry
    <2>1. sender' = [sender EXCEPT !.attempts = sender.attempts + 1] /\ UNCHANGED <<acked, dropped>>
      BY <1>3 DEF Retry
    <2>2. /\ sender' \in [at : {"wait", "send", "stopped"}, batch : Seq(Entry), attempts : Nat]
          /\ sender'.batch = sender.batch /\ sender'.at = sender.at
      BY <1>0, <2>1, SMTT(30) DEF Types
    <2>3. Types'
      BY <1>0, <1>1, <2>2 DEF Types
    <2>4. Ordered(sender.batch)' /\ Labelled(sender.batch)'
      BY <1>0, <2>2 DEF BatchInv, Labelled
    <2>5. PlaceInv'
      BY <1>0, <2>1, <2>2 DEF BatchInv, PlaceInv, Settled
    <2>6. StoreInv'
      BY <1>0, <1>1, <2>2 DEF StoreInv
    <2> QED
      BY <1>1, <1>2, <2>3, <2>4, <2>5, <2>6 DEF Inv, BatchInv
  <1>4. CASE Sent \/ GiveUp
    <2>1. /\ sender' = Waiting
          /\ \/ acked' = acked \cup SamplesOf(sender.batch) /\ UNCHANGED dropped
             \/ dropped' = dropped \cup SamplesOf(sender.batch) /\ UNCHANGED acked
      BY <1>4 DEF Sent, GiveUp
    <2>2. sender'.batch = <<>> /\ sender'.at = "wait"
      BY <2>1 DEF Waiting
    <2>3. Types'
      BY <1>0, <1>1, <2>1, NoSamples DEF Types, Waiting
    <2>4. Ordered(sender.batch)' /\ Labelled(sender.batch)' /\ SamplesOf(sender.batch)' = {}
      BY <2>2, NoSamples DEF Labelled
    <2>5. /\ Settled' = Settled \cup SamplesOf(sender.batch)
          /\ SamplesOf(series)' = SamplesOf(series) /\ Len(written') = Len(written)
      BY <1>0, <2>1 DEF Settled
    <2>6. (acked \cap dropped = {})'
      <3>1. ASSUME NEW n \in SamplesOf(sender.batch) PROVE n \notin acked /\ n \notin dropped
        <4>1. n \in 1..Len(written)
          BY <1>0, <3>1 DEF BatchInv, PlaceInv
        <4>2. ~(n < n)
          BY <1>0, <4>1, BatchTypes
        <4> QED
          BY <1>0, <3>1, <4>2 DEF BatchInv, PlaceInv, Older, Settled
      <3> QED
        BY <1>0, <2>1, <3>1 DEF BatchInv, PlaceInv
    <2>7. PlaceInv'
      BY <1>0, <2>2, <2>4, <2>5, <2>6 DEF BatchInv, PlaceInv, Older
    <2>8. StoreInv'
      BY <1>1, <2>4, <2>5 DEF StoreInv, Older
    <2> QED
      BY <1>1, <1>2, <2>3, <2>4, <2>7, <2>8 DEF Inv, BatchInv
  <1> QED
    BY <1>3, <1>4 DEF Attempt

\* Shutting down moves no profile.
LEMMA StopStep == ASSUME Inv, Cancel \/ Stop \/ UNCHANGED vars PROVE Inv'
  <1>0. Types /\ BatchInv /\ InOrder(store) /\ UNCHANGED <<series, store, written, acked, dropped>>
    BY DEF Inv, Cancel, Stop, vars
  <1>1. /\ sender' \in [at : {"wait", "send", "stopped"}, batch : Seq(Entry), attempts : Nat]
        /\ sender'.batch = sender.batch /\ (sender'.at = "send" <=> sender.at = "send")
    BY <1>0 DEF Cancel, Stop, vars, Types
  <1>2. Types'
    BY <1>0, <1>1 DEF Types
  <1>3. BatchInv'
    <2>1. Ordered(series)' /\ Ordered(sender.batch)'
      BY <1>0, <1>1 DEF BatchInv
    <2>2. Labelled(series)' /\ Labelled(sender.batch)' /\ Labelled(store)'
      BY <1>0, <1>1 DEF BatchInv, Labelled
    <2>3. PlaceInv' /\ StoreInv'
      BY <1>0, <1>1 DEF BatchInv, PlaceInv, StoreInv, Settled
    <2> QED
      BY <2>1, <2>2, <2>3 DEF BatchInv
  <1> QED
    BY <1>0, <1>2, <1>3 DEF Inv

\* Nothing is collected or sent at the start, and every step preserves the invariant.
LEMMA Inductive == Spec => []Inv
  <1>1. Init => Inv
    <2> SUFFICES ASSUME Init PROVE Inv
      OBVIOUS
    <2>1. series = <<>> /\ store = <<>> /\ written = <<>> /\ sender.batch = <<>> /\ acked = {} /\ dropped = {}
      BY DEF Init, Waiting
    <2>2. Types
      BY <2>1, NoSamples DEF Init, Waiting, Types
    <2>3. 1..Len(written) = {}
      BY <2>1
    <2>4. /\ SamplesOf(series) = {} /\ SamplesOf(store) = {} /\ SamplesOf(sender.batch) = {}
          /\ Ordered(series) /\ Ordered(sender.batch)
          /\ Labelled(series) /\ Labelled(store) /\ Labelled(sender.batch)
      BY <2>1, NoSamples
    <2>5. BatchInv
      BY <2>1, <2>3, <2>4 DEF BatchInv, PlaceInv, StoreInv, Settled, Older
    <2>6. InOrder(store)
      BY <2>1, NoSamples, Zenon DEF InOrder
    <2> QED
      BY <2>2, <2>5, <2>6 DEF Inv
  <1>2. Inv /\ [Next]_vars => Inv'
    <2> SUFFICES ASSUME Inv, [Next]_vars PROVE Inv'
      OBVIOUS
    <2>1. ASSUME NEW ls \in LabelSets, NEW labels \in convertLabels(ls), WriteRaw(labels) PROVE Inv'
      <3>1. labels \in Labels
        BY DEF Labels
      <3> QED
        BY <2>1, <3>1, WriteStep
    <2> QED
      BY <2>1, BatchStep, AttemptStep, StopStep DEF Next
  <1> QED
    BY <1>1, <1>2, PTL DEF Spec

-----------------------------------------------------------------------------
(* What the client delivers. *)

\* For all label sets, writes, failures and retries: every profile WriteRaw accepted is
\* in exactly one place, collected, being sent, acknowledged or given up, and once there.
THEOREM EachProfileOnceHolds == Spec => []EachProfileOnce
  <1>1. Inv => EachProfileOnce
    <2> SUFFICES ASSUME Inv PROVE EachProfileOnce
      OBVIOUS
    <2>0. Types /\ BatchInv
      BY DEF Inv
    <2>1. ASSUME NEW b \in Seq(Entry), Ordered(b), Labelled(b) PROVE Once(b)
      <3> SUFFICES ASSUME NEW i \in DOMAIN b, NEW k \in DOMAIN b,
                          NEW j \in DOMAIN b[i].samples, NEW l \in DOMAIN b[k].samples,
                          b[i].samples[j] = b[k].samples[l]
                   PROVE  i = k /\ j = l
        BY DEF Once
      <3>1. b[i].labels = b[k].labels
        BY <2>1 DEF Labelled
      <3>2. i = k
        BY <2>1, <3>1 DEF Ordered
      <3>3. b[i].samples \in Seq(Nat)
        BY EntryTypes
      <3>4. j \in Nat /\ l \in Nat /\ b[i].samples[j] \in Nat
        BY <3>2, <3>3
      <3>5. ~(j < l) /\ ~(l < j)
        BY <2>1, <3>2, <3>4 DEF Ordered
      <3> QED
        BY <3>2, <3>4, <3>5
    <2>2. Once(series) /\ Once(sender.batch)
      BY <2>0, <2>1, BatchTypes DEF BatchInv
    <2> DEFINE places == <<SamplesOf(series), SamplesOf(sender.batch), acked, dropped>>
    <2>3. /\ places[1] = SamplesOf(series) /\ places[2] = SamplesOf(sender.batch)
          /\ places[3] = acked /\ places[4] = dropped
      OBVIOUS
    <2>4. ASSUME NEW n \in 1..Len(written)
          PROVE  \E i \in 1..4 : \A k \in 1..4 : n \in places[k] <=> k = i
      <3>1. n \in acked \/ n \in dropped \/ n \in SamplesOf(series) \/ n \in SamplesOf(sender.batch)
        BY <2>0 DEF BatchInv, PlaceInv, Settled
      <3>2. ~(n < n)
        BY <2>0, BatchTypes
      <3>3. /\ ~(n \in acked /\ n \in dropped)
            /\ ~((n \in acked \/ n \in dropped) /\ n \in SamplesOf(series))
            /\ ~((n \in acked \/ n \in dropped) /\ n \in SamplesOf(sender.batch))
            /\ ~(n \in SamplesOf(series) /\ n \in SamplesOf(sender.batch))
        BY <2>0, <3>2 DEF BatchInv, PlaceInv, Settled, Older
      <3>4. \A k \in 1..4 : k = 1 \/ k = 2 \/ k = 3 \/ k = 4
        OBVIOUS
      <3>5. CASE n \in SamplesOf(series)
        <4>1. \A k \in 1..4 : n \in places[k] <=> k = 1
          BY <2>3, <3>3, <3>4, <3>5
        <4> QED
          BY <4>1
      <3>6. CASE n \in SamplesOf(sender.batch)
        <4>1. \A k \in 1..4 : n \in places[k] <=> k = 2
          BY <2>3, <3>3, <3>4, <3>6
        <4> QED
          BY <4>1
      <3>7. CASE n \in acked
        <4>1. \A k \in 1..4 : n \in places[k] <=> k = 3
          BY <2>3, <3>3, <3>4, <3>7
        <4> QED
          BY <4>1
      <3>8. CASE n \in dropped
        <4>1. \A k \in 1..4 : n \in places[k] <=> k = 4
          BY <2>3, <3>3, <3>4, <3>8
        <4> QED
          BY <4>1
      <3> QED
        BY <3>1, <3>5, <3>6, <3>7, <3>8
    <2> QED
      BY <2>2, <2>4 DEF EachProfileOnce
  <1> QED
    BY <1>1, Inductive, PTL

\* Whatever was sent twice or given up, the profiles of a series that the store sees for
\* the first time come in the order in which they were written.
THEOREM SeriesInOrderHolds == Spec => []SeriesInOrder
  <1>1. Inv => SeriesInOrder
    BY Zenon DEF Inv, InOrder, Before, SeriesInOrder, GotBefore
  <1> QED
    BY <1>1, Inductive, PTL

\* The store has every profile under the labels it was written with: merging compares the
\* labels position by position, and a batch is sent as it was collected.
THEOREM StoredUnderItsLabelsHolds == Spec => []StoredUnderItsLabels
  <1>1. Inv => StoredUnderItsLabels
    BY DEF Inv, BatchInv, Labelled, StoredUnderItsLabels, Range
  <1> QED
    BY <1>1, Inductive, PTL
=============================================================================
