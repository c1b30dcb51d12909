----------------------------- MODULE BatchWriter -----------------------------
(***************************************************************************)
(* BatchWriteClient (pkg/agent/batch_remote_write_client.go) and the       *)
(* labels RemoteProfileWriter gives it (pkg/profiler/profile_writer.go):   *)
(* profiles collect in series, and Run sends the series as one request     *)
(* every writeInterval, with retries for at most that long.                *)
(*                                                                         *)
(* A profile is the number of the write that brought it.                   *)
(***************************************************************************)
EXTENDS Sequences, FiniteSetsExt

CONSTANTS
    LabelSets,   \* label sets of the profiled processes: sets of labels
    MaxWrites,   \* bound: profiles written in a behaviour
    MaxAttempts  \* bound: attempts of backoff.Retry within writeInterval

ASSUME BatchAssumption == MaxWrites \in Nat /\ MaxAttempts \in Nat \ {0}

VARIABLES
    series,     \* b.series: a sequence of [labels, samples]
    sender,     \* batch: [at, batch, attempts]
    canceled,   \* ctx of Run is done
    store,      \* the store: series received, in order
    \* History.
    written,    \* the labels of every profile, in the order convertLabels gave them
    acked,      \* profiles whose request was answered without an error
    dropped     \* profiles of batches that batch gave up

vars == <<series, sender, canceled, store, written, acked, dropped>>

SamplesOf(batch) == UNION {Range(batch[i].samples) : i \in DOMAIN batch}

Waiting == [at |-> "wait", batch |-> <<>>, attempts |-> 0]

Init ==
    /\ series = <<>>
    /\ sender = Waiting
    /\ canceled = FALSE
    /\ store = <<>>
    /\ written = <<>>
    /\ acked = {} /\ dropped = {}

\* convertLabels: the labels in the order in which Go iterates over a map.
convertLabels(ls) == Bijection(1..Cardinality(ls), ls)

\* Mutant: the samples of the series are replaced.
Replace(labels, sample) ==
    LET same == {i \in DOMAIN series : series[i].labels = labels} IN
    IF same = {} THEN Append(series, [labels |-> labels, samples |-> <<sample>>])
    ELSE [series EXCEPT ![Min(same)].samples = <<sample>>]

\* Mutant: isEqualLabel compares the lengths only.
MergeSameLength(labels, sample) ==
    LET same == {i \in DOMAIN series : Len(series[i].labels) = Len(labels)} IN
    IF same = {} THEN Append(series, [labels |-> labels, samples |-> <<sample>>])
    ELSE [series EXCEPT ![Min(same)].samples = Append(@, sample)]

\* findIndex: the first series with these labels, compared position by position,
\* takes the sample; else it starts a series.
Merge(labels, sample) ==
    LET same == {i \in DOMAIN series : series[i].labels = labels} IN
    IF same = {} THEN Append(series, [labels |-> labels, samples |-> <<sample>>])
    ELSE [series EXCEPT ![Min(same)].samples = Append(@, sample)]

\* RemoteProfileWriter.Write and BatchWriteClient.WriteRaw.
WriteRaw(labels) ==
    /\ Len(written) < MaxWrites
    /\ series' = Merge(labels, Len(written) + 1)
    /\ written' = Append(written, labels)
    /\ UNCHANGED <<sender, canceled, store, acked, dropped>>

\* The ticker: batch takes the series. With an empty batch it still sends a request.
Batch ==
    /\ sender.at = "wait"
    /\ sender' = [at |-> "send", batch |-> series, attempts |-> 0]
    /\ series' = <<>>
    /\ UNCHANGED <<canceled, store, written, acked, dropped>>

\* The store receives the request and the client its answer.
Sent ==
    /\ sender.at = "send" /\ ~canceled
    /\ store' = store \o sender.batch
    /\ acked' = acked \cup SamplesOf(sender.batch)
    /\ sender' = Waiting
    /\ UNCHANGED <<series, canceled, written, dropped>>

\* What the store has after an attempt that the client sees fail: nothing new, or the
\* whole batch when only the answer was lost.
Received == {store} \cup IF canceled THEN {} ELSE {store \o sender.batch}

\* Mutant: the back-off starts over and is never used up.
RetryForever ==
    /\ sender.at = "send"
    /\ sender' = [sender EXCEPT !.attempts = (@ + 1) % MaxAttempts]
    /\ UNCHANGED <<series, canceled, store, written, acked, dropped>>

\* WriteRaw fails and backoff.Retry tries again.
Retry ==
    /\ sender.at = "send" /\ sender.attempts + 1 < MaxAttempts
    /\ store' \in Received
    /\ sender' = [sender EXCEPT !.attempts = @ + 1]
    /\ UNCHANGED <<series, canceled, written, acked, dropped>>

\* Mutant: a batch that could not be sent goes back behind what came since.
GiveBack ==
    /\ sender.at = "send"
    /\ store' \in Received
    /\ series' = series \o sender.batch
    /\ sender' = Waiting
    /\ UNCHANGED <<canceled, written, acked, dropped>>

\* WriteRaw fails and writeInterval has elapsed: the batch is dropped.
GiveUp ==
    /\ sender.at = "send"
    /\ store' \in Received
    /\ dropped' = dropped \cup SamplesOf(sender.batch)
    /\ sender' = Waiting
    /\ UNCHANGED <<series, canceled, written, acked>>

Cancel ==
    /\ ~canceled
    /\ canceled' = TRUE
    /\ UNCHANGED <<series, sender, store, written, acked, dropped>>

\* Run returns; the series collected since the last batch stay where they are.
Stop ==
    /\ sender.at = "wait" /\ canceled
    /\ sender' = [sender EXCEPT !.at = "stopped"]
    /\ UNCHANGED <<series, canceled, store, written, acked, dropped>>

Attempt == Sent \/ Retry \/ GiveUp

Next ==
    \/ \E ls \in LabelSets : \E labels \in convertLabels(ls) : WriteRaw(labels)
    \/ Batch \/ Attempt \/ Cancel \/ Stop

\* The ticker of Run ticks, and an attempt ends (the request has ctx and a deadline).
Fairness == WF_vars(Batch) /\ WF_vars(Attempt)

Spec == Init /\ [][Next]_vars
FairSpec == Spec /\ Fairness

-----------------------------------------------------------------------------
(* Properties. *)

Samples == 1..MaxWrites
Series == [labels : Seq(UNION LabelSets), samples : Seq(Samples)]

\* The series, the batch and what the store received have their types.
TypeOK ==
    /\ series \in Seq(Series) /\ store \in Seq(Series)
    /\ sender \in [at : {"wait", "send", "stopped"}, batch : Seq(Series), attempts : 0..(MaxAttempts - 1)]
    /\ canceled \in BOOLEAN
    /\ acked \subseteq Samples /\ dropped \subseteq Samples

\* No profile is twice in a sequence of series.
Once(batch) ==
    \A i, k \in DOMAIN batch : \A j \in DOMAIN batch[i].samples, l \in DOMAIN batch[k].samples :
      batch[i].samples[j] = batch[k].samples[l] => i = k /\ j = l

\* Every profile the writer accepted is in exactly one place: in the collected series,
\* in the batch being sent, acknowledged, or given up; and it is there once.
EachProfileOnce ==
    LET places == <<SamplesOf(series), SamplesOf(sender.batch), acked, dropped>> IN
    /\ \A n \in 1..Len(written) : \E i \in 1..4 : \A k \in 1..4 : n \in places[k] <=> k = i
    /\ Once(series) /\ Once(sender.batch)

\* What the store had got of the i-th series it received before the j-th profile of it.
GotBefore(i, j) ==
    {store[i].samples[l] : l \in 1..(j - 1)}
      \cup UNION {Range(store[k].samples) : k \in {q \in 1..(i - 1) : store[q].labels = store[i].labels}}

\* The store gets the profiles of a series in the order in which they were written,
\* whatever was sent twice or given up in between: a profile it sees for the first time
\* is newer than all it saw of that series before.
SeriesInOrder ==
    \A i \in DOMAIN store : \A j \in DOMAIN store[i].samples :
      LET n == store[i].samples[j]
      IN n \in GotBefore(i, j) \/ \A m \in GotBefore(i, j) : m < n

\* A profile is stored under the labels it was written with.
StoredUnderItsLabels ==
    \A i \in DOMAIN store : \A n \in Range(store[i].samples) : written[n] = store[i].labels

\* Every accepted profile is acknowledged or given up in the end, unless the agent
\* shuts down: backoff.Retry ends after writeInterval, so that no batch holds up the
\* ones behind it for ever.
EveryProfileSettled ==
    \A n \in Samples : n <= Len(written) ~> n \in acked \cup dropped \/ canceled

-----------------------------------------------------------------------------
(* A statement of the repository that the code does not live up to. *)

\* batch_remote_write_client_test.go "appendProfile": a profile of a process whose
\* labels are already in the batch is appended to that series.
OneSeriesPerLabelSet ==
    \A i, j \in DOMAIN series : Range(series[i].labels) = Range(series[j].labels) => i = j
=============================================================================
