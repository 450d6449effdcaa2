---------------------------- MODULE KafkaServer -----------------------------
(***************************************************************************)
(* server/KafkaServer.java with util/LogUtil.java and util/EsUtil.java:    *)
(* the batch listener that moves records from the Kafka topic to           *)
(* Elasticsearch, and the consumer of spring-kafka that drives it with     *)
(* automatic commits (application.properties).  The topic has one          *)
(* partition; offsets count from 0, the record at offset i is log[i + 1].  *)
(* The logs of a record's list are abstracted to one document.             *)
(***************************************************************************)
EXTENDS Integers, Sequences, FiniteSets, Functions

CONSTANTS
    Record,     \* the records that may be produced
    List,       \* those whose value is a JSON array of logs
    MaxPoll,    \* max-poll-records
    MaxStops    \* (bound) how often the consumer loses its assignment

ASSUME RecordAssumption == List \subseteq Record
ASSUME BoundAssumption == MaxPoll \in Nat \ {0} /\ MaxStops \in Nat

VARIABLES
    log,        \* the partition
    phase,      \* "off", "idle": in or before poll(), "listen": in listen()
    assigned,   \* does the consumer own the partition
    position,   \* offset of the next record to fetch
    first,      \* offset of the first record of the current batch
    committed,  \* the group's committed offset, NoOffset when there is none
    es,         \* es[r]: documents that hold the logs of record r
    stops,      \* how often the assignment was lost
    tried,      \* (history) offsets of the records passed to saveAll
    skipped     \* (history) offsets passed over by starts without a commit

NoOffset == -1
consumer == <<phase, assigned, position, first>>
vars == <<log, consumer, committed, es, stops, tried, skipped>>

Init ==
    /\ log = <<>>
    /\ phase = "off"
    /\ assigned = FALSE
    /\ position = 0
    /\ first = 0
    /\ committed = NoOffset
    /\ es = [r \in Record |-> 0]
    /\ stops = 0
    /\ tried = {}
    /\ skipped = {}

Batch == first..position - 1
RecordsOf(S) == {log[i + 1] : i \in S}
Smaller(m, n) == IF m < n THEN m ELSE n

-----------------------------------------------------------------------------
(* Operations with a plausible bug, for the mutation runs only. *)

\* A timer commits the position whatever the listener does.
CommitByTimer ==
    /\ assigned /\ committed' = position
    /\ UNCHANGED <<log, consumer, es, stops, tried, skipped>>

\* The batch is not limited to what the log holds.
PollPastEnd ==
    /\ phase = "idle" /\ assigned
    /\ position' = position + MaxPoll /\ first' = position /\ phase' = "listen"
    /\ UNCHANGED <<log, assigned, committed, es, stops, tried, skipped>>

\* Every record is saved as soon as it is parsed, up to the first bad one.
ThrowAfterSaving ==
    /\ phase = "listen" /\ ~(RecordsOf(Batch) \subseteq List)
    /\ LET good == {i \in Batch : RecordsOf(first..i) \subseteq List} IN
         /\ es' = [r \in Record |-> IF r \in RecordsOf(good) THEN es[r] + 1 ELSE es[r]]
         /\ tried' = tried \cup good
    /\ position' = (IF assigned THEN first ELSE position) /\ phase' = "idle"
    /\ UNCHANGED <<log, assigned, first, committed, stops, skipped>>

\* The error handler seeks to the beginning of the partition.
ThrowToBeginning ==
    /\ phase = "listen" /\ ~(RecordsOf(Batch) \subseteq List)
    /\ position' = (IF assigned THEN 0 ELSE position) /\ phase' = "idle"
    /\ UNCHANGED <<log, assigned, first, committed, es, stops, tried, skipped>>

\* The loop over the records stops one short.
SaveAllButLast ==
    /\ phase = "listen" /\ RecordsOf(Batch) \subseteq List
    /\ tried' = tried \cup (Batch \ {position - 1}) /\ phase' = "idle"
    /\ UNCHANGED <<log, assigned, position, first, committed, es, stops, skipped>>

-----------------------------------------------------------------------------
(* The topic and the consumer of spring-kafka *)

\* A record reaches the log.
Produce(r) ==
    /\ r \notin Range(log)
    /\ log' = Append(log, r)
    /\ UNCHANGED <<consumer, committed, es, stops, tried, skipped>>

\* poll() joins the group: it goes on at the committed offset, or else at the
\* end of the log (auto.offset.reset=latest).
Assign ==
    /\ phase \in {"off", "idle"} /\ ~assigned
    /\ phase' = "idle"
    /\ assigned' = TRUE
    /\ position' = IF committed = NoOffset THEN Len(log) ELSE committed
    /\ skipped' = IF committed = NoOffset THEN skipped \cup 0..Len(log) - 1 ELSE skipped
    /\ UNCHANGED <<log, first, committed, es, stops, tried>>

\* poll() commits the position when the commit interval is over.
AutoCommit ==
    /\ phase = "idle" /\ assigned
    /\ committed' = position
    /\ UNCHANGED <<log, consumer, es, stops, tried, skipped>>

\* poll() returns a batch and the container calls listen(records).
Poll ==
    /\ phase = "idle" /\ assigned
    /\ \E n \in 1..Smaller(MaxPoll, Len(log) - position) : position' = position + n
    /\ first' = position
    /\ phase' = "listen"
    /\ UNCHANGED <<log, assigned, committed, es, stops, tried, skipped>>

\* parseArray throws before anything is saved; the default error handler
\* seeks back to the start of the batch, which will be polled again.
ListenThrows ==
    /\ phase = "listen"
    /\ ~(RecordsOf(Batch) \subseteq List)
    /\ position' = IF assigned THEN first ELSE position
    /\ phase' = "idle"
    /\ UNCHANGED <<log, assigned, first, committed, es, stops, tried, skipped>>

\* logUtil.set: saveAll indexes the logs, or some of them, or none; setDoc
\* swallows the exception and listen returns normally.
Save ==
    /\ phase = "listen"
    /\ RecordsOf(Batch) \subseteq List
    /\ \E S \in SUBSET RecordsOf(Batch) :
         es' = [r \in Record |-> IF r \in S THEN es[r] + 1 ELSE es[r]]
    /\ tried' = tried \cup Batch
    /\ phase' = "idle"
    /\ UNCHANGED <<log, assigned, position, first, committed, stops, skipped>>

\* The process stops without a last commit, maybe before it joined the group ...
Crash ==
    /\ stops < MaxStops
    /\ stops' = stops + 1
    /\ phase' = "off"
    /\ assigned' = FALSE
    /\ UNCHANGED <<log, position, first, committed, es, tried, skipped>>

\* ... or the group takes the partition away, also while listen() runs on.
Revoke ==
    /\ assigned /\ stops < MaxStops
    /\ stops' = stops + 1
    /\ assigned' = FALSE
    /\ UNCHANGED <<log, phase, position, first, committed, es, tried, skipped>>

Next ==
    \/ \E r \in Record : Produce(r)
    \/ Assign \/ AutoCommit \/ Poll \/ ListenThrows \/ Save
    \/ Crash \/ Revoke

Spec == Init /\ [][Next]_vars

\* The consumer thread of the container goes round its loop.
Fairness == WF_vars(Assign) /\ WF_vars(Poll) /\ WF_vars(ListenThrows \/ Save)

FairSpec == Spec /\ Fairness

-----------------------------------------------------------------------------
(* Properties *)

\* Every variable holds a value of its type; a batch lies inside the log.
TypeOK ==
    /\ log \in Seq(Record)
    /\ phase \in {"off", "idle", "listen"}
    /\ assigned \in BOOLEAN
    /\ position \in 0..Len(log)
    /\ first \in 0..Len(log)
    /\ phase = "listen" => first < position
    /\ committed \in {NoOffset} \cup 0..Len(log)
    /\ es \in [Record -> Nat]
    /\ stops \in 0..MaxStops
    /\ tried \in SUBSET (0..Len(log) - 1)
    /\ skipped \in SUBSET (0..Len(log) - 1)

\* Commits happen only between two calls of listen(), so a restart resumes at
\* or before the first record that was not passed to saveAll, unless the very
\* first start skipped it.
CommittedWereTried ==
    \A i \in 0..committed - 1 : i \in tried \cup skipped

\* A batch that fails is replayed without having saved anything: a log is
\* indexed more than once only because the assignment was lost in between.
CopiesNeedReassignment ==
    \A r \in Record : es[r] <= 1 + stops

\* The group's offset never goes back: neither a replayed batch nor a restart
\* with an old position takes back a commit, so what was committed is not
\* delivered again.
CommitsOnlyGrow == [][committed' >= committed]_vars

\* A commit is final for Elasticsearch, too: what was committed is not indexed
\* again, not even by a listen() that a rebalance has overtaken, and what a
\* partial save left out stays left out.
CommittedIsFinal ==
    [][\A i \in 1..committed : es'[log[i]] = es[log[i]]]_vars

\* As long as every record is a list, each one that is in the log is passed to
\* saveAll, or is skipped by a start before the group's first commit.
EveryListIsTried ==
    [](Range(log) \subseteq List)
        => \A i \in 0..Cardinality(Record) - 1 :
             Len(log) > i ~> i \in tried \cup skipped

\* (does not hold) The same for a list when other records are no lists.
ListIsTriedAmongOthers ==
    \A i \in 0..Cardinality(Record) - 1 :
        Len(log) > i /\ log[i + 1] \in List ~> i \in tried \cup skipped
=============================================================================
