------------------------------ MODULE RingLog -------------------------------
(***************************************************************************)
(* The way of a log through the whole process: TcpServer, MqServer and     *)
(* KafkaServer composed.  A TCP task adds its payload to the queue that    *)
(* the consumer threads drain, the Kafka client appends to the topic that  *)
(* KafkaServer reads, and all three die together when the process stops.   *)
(* Which texts parse, the whole ones and those that were cut by the size   *)
(* limit, a U+0000 or their one read(), is a constant.                     *)
(***************************************************************************)
EXTENDS Integers, Sequences, FiniteSets, Functions

CONSTANTS
    Conn, Length, BeforeNul, Size, FdLimit,     \* see TcpServer
    Parsable,               \* the payloads that JSON.parse accepts
    List,                   \* those of them that are JSON arrays
    Thread, None,           \* see MqServer
    MaxPoll, MaxStops       \* see KafkaServer

\* What a task adds.
Payload == [conn : Conn, size : 0..Size]

ASSUME NoneAssumption == None \notin Payload
ASSUME ParsableAssumption == Parsable \subseteq Payload /\ List \subseteq Parsable
ASSUME ConnAssumption ==
    /\ IsFiniteSet(Conn)
    /\ Length \in [Conn -> Nat \ {0}]
    /\ BeforeNul \in [Conn -> Nat] /\ \A c \in Conn : BeforeNul[c] <= Length[c]
ASSUME SizeAssumption == Size \in Nat \ {0} /\ FdLimit \in Nat \ {0}
ASSUME ThreadAssumption == IsFiniteSet(Thread) /\ Thread # {}
ASSUME PollAssumption == MaxPoll \in Nat \ {0} /\ MaxStops \in Nat

VARIABLES
    listening, pc, open, delivered, closing, reset, text, answered,     \* TcpServer
    arrivals,           \* (history) what TcpServer added to MqServer.mq
    created, started, mq, held, outbox, lost,                           \* MqServer
    topic,              \* the partition, written by MqServer, read by KafkaServer
    phase, assigned, position, first, committed, es, stops, tried, skipped  \* KafkaServer

tcp == <<listening, pc, open, delivered, closing, reset, text, answered>>
queue == <<created, started, mq, held, outbox, lost>>
consumer == <<phase, assigned, position, first, committed, es, stops, tried, skipped>>
vars == <<tcp, arrivals, queue, topic, consumer>>

Tcp == INSTANCE TcpServer WITH mq <- arrivals
Mq == INSTANCE MqServer
Kafka == INSTANCE KafkaServer WITH log <- topic, Record <- Parsable

Init == Tcp!Init /\ Mq!Init /\ Kafka!Init

-----------------------------------------------------------------------------
(* Operations with a plausible bug, for the mutation runs only. *)

\* A missing queue is passed over in silence, and the client gets its ok.
AddIfQueue(c) ==
    /\ Tcp!Add(c)
    /\ IF created THEN Mq!Offer([conn |-> c, size |-> text[c]]) ELSE UNCHANGED <<queue, topic>>
    /\ UNCHANGED consumer

-----------------------------------------------------------------------------
(* The clients and TcpServer *)

Client(c) ==
    /\ Tcp!Connect(c) \/ Tcp!Deliver(c) \/ Tcp!CloseOutput(c) \/ Tcp!Break(c)
    /\ UNCHANGED <<queue, topic, consumer>>

Accept ==
    /\ (\E c \in Conn : Tcp!Accept(c)) \/ Tcp!AcceptThrows
    /\ UNCHANGED <<queue, topic, consumer>>

\* MqServer.mq.add(bufString.toString().getBytes())
Add(c) ==
    /\ Tcp!Add(c)
    /\ Mq!Offer([conn |-> c, size |-> text[c]])
    /\ UNCHANGED consumer

\* There is no queue yet.
AddThrows(c) ==
    /\ ~created
    /\ Tcp!AddThrows(c)
    /\ UNCHANGED <<queue, topic, consumer>>

Task(c) ==
    \/ (Tcp!Read(c) \/ Tcp!Reply(c) \/ Tcp!TaskFails(c)) /\ UNCHANGED <<queue, topic, consumer>>
    \/ Add(c) \/ AddThrows(c)

Finalize(c) == Tcp!Finalize(c) /\ UNCHANGED <<queue, topic, consumer>>

-----------------------------------------------------------------------------
(* MqServer and the Kafka client; a poll of an empty queue changes nothing. *)

Create == Mq!CreateQueue /\ UNCHANGED <<tcp, consumer>>
StartThread(t) == Mq!StartThread(t) /\ UNCHANGED <<tcp, consumer>>
PollQueue(t) == Mq!Poll(t) /\ UNCHANGED <<tcp, consumer>>
Handle(t) == Mq!Handle(t) /\ UNCHANGED <<tcp, consumer>>

Transmit ==
    \/ Mq!Transmit /\ Kafka!Produce(Head(outbox)) /\ UNCHANGED tcp
    \/ Mq!TransmitFails /\ UNCHANGED <<tcp, consumer>>

-----------------------------------------------------------------------------
(* KafkaServer; its container starts when all beans are there. *)

Assign == started = Thread /\ Kafka!Assign /\ UNCHANGED <<tcp, arrivals, queue>>
AutoCommit == Kafka!AutoCommit /\ UNCHANGED <<tcp, arrivals, queue>>
PollTopic == Kafka!Poll /\ UNCHANGED <<tcp, arrivals, queue>>
Listen == (Kafka!ListenThrows \/ Kafka!Save) /\ UNCHANGED <<tcp, arrivals, queue>>
Revoke == Kafka!Revoke /\ UNCHANGED <<tcp, arrivals, queue>>

-----------------------------------------------------------------------------
(* The process stops and starts again. *)

Crash ==
    /\ Mq!Crash \/ (~created /\ UNCHANGED <<arrivals, queue, topic>>)
    /\ Kafka!Crash
    /\ Tcp!Restart

Next ==
    \/ \E c \in Conn : Client(c) \/ Task(c) \/ Finalize(c)
    \/ Accept
    \/ Create
    \/ \E t \in Thread : StartThread(t) \/ PollQueue(t) \/ Handle(t)
    \/ Transmit
    \/ Assign \/ AutoCommit \/ PollTopic \/ Listen \/ Revoke
    \/ Crash

Spec == Init /\ [][Next]_vars

\* The fairness of the components; the container also commits when the commit
\* interval is over.
ListenerFair == WF_vars(Accept)
TaskFair(c) == WF_vars(Task(c))
QueueFair ==
    /\ WF_vars(Create) /\ WF_vars(\E t \in Thread : StartThread(t))
    /\ WF_vars(\E t \in Thread : PollQueue(t)) /\ \A t \in Thread : WF_vars(Handle(t))
    /\ WF_vars(Transmit)
ConsumerFair ==
    WF_vars(Assign) /\ WF_vars(AutoCommit) /\ WF_vars(PollTopic) /\ WF_vars(Listen)

Fairness == ListenerFair /\ (\A c \in Conn : TaskFair(c)) /\ QueueFair /\ ConsumerFair

FairSpec == Spec /\ Fairness

-----------------------------------------------------------------------------
(* Properties *)

\* Every variable holds a value of its type.
TypeOK == Tcp!TypeOK /\ Mq!TypeOK /\ Kafka!TypeOK

\* What the components guarantee on their own survives that they share the
\* queue, the topic and one process that may stop at any time.
GuaranteesCompose ==
    /\ Tcp!OkMeansQueuedOnce /\ Tcp!TextIsDelivered
    /\ Mq!Conservation /\ Mq!QueueInOrder /\ Mq!OvertakingBounded
    /\ Kafka!CommittedWereTried /\ Kafka!CopiesNeedReassignment

\* Seen through the connections the process behaves like TcpServer alone, seen
\* through the queue like MqServer and through the topic like KafkaServer:
\* neither the tasks that feed the queue, nor the records of the log, nor the
\* common stop add a behaviour to any of them.
ImplementsComponents == Tcp!Spec /\ Mq!Spec /\ Kafka!Spec

\* In a joint step no component holds up the other: a task can always add what
\* it has read or fail for want of a queue, so the queue has not seen its
\* payload before; and what the Kafka client sends next is new to the log.
CompositionNeverBlocks ==
    /\ \A c \in Conn :
         (pc[c] = "read" /\ Tcp!Heard(c)) \/ pc[c] \in {"add", "reply"}
             => ENABLED <<Task(c)>>_vars
    /\ outbox # <<>> => ENABLED (Mq!Transmit /\ Kafka!Produce(Head(outbox)))

Queued(c) == \E p \in Range(arrivals) : p.conn = c
Lost(c) == \E p \in lost : p.conn = c
Stored(c) == \E p \in Range(topic) : p.conn = c
Indexed(c) == \E p \in Parsable : p.conn = c /\ es[p] > 0
\* The consumer never comes back to the record.
Passed(c) == \E i \in 1..Len(topic) :
                topic[i].conn = c /\ (i <= committed \/ i - 1 \in skipped)

Place(c) ==
    CASE ~Queued(c) -> "client"
      [] Lost(c) -> "lost"
      [] Queued(c) /\ ~Lost(c) /\ ~Stored(c) -> "memory"
      [] Indexed(c) -> "indexed"
      [] Stored(c) /\ ~Indexed(c) -> IF Passed(c) THEN "lost" ELSE "log"

\* A message is in one place at a time and moves only forward: no stop,
\* rebalance, replay or failed save takes back that it was indexed, or indexes
\* what the promise counts as lost, and no "ok" is said too early.
Delivery == INSTANCE LogDelivery WITH
    Message <- Conn, ok <- answered, place <- [c \in Conn |-> Place(c)]
ImplementsLogDelivery == Delivery!Spec

\* As long as every record is a list, an accepted message does not stay on its
\* way: it is indexed or lost, across stops and rebalances.
EveryMessageSettles == [](Range(topic) \subseteq List) => Delivery!Settles
=============================================================================
