--------------------------- MODULE RingLogProofs ----------------------------
(***************************************************************************)
(* Proofs about RingLog: a step of the process is a step of TcpServer or   *)
(* leaves its variables alone, and so for MqServer and KafkaServer.  The   *)
(* theorems about the three components therefore survive their             *)
(* composition.                                                            *)
(***************************************************************************)
EXTENDS RingLog, TLAPS

\* The components with their proofs, instantiated as in RingLog.
TcpP == INSTANCE TcpServerProofs WITH mq <- arrivals
MqP == INSTANCE MqServerProofs
KafkaP == INSTANCE KafkaServerProofs WITH log <- topic, Record <- Parsable

-----------------------------------------------------------------------------
(* The assumptions of the components hold. *)

LEMMA TcpAssumptions == TcpP!ConnAssumption /\ TcpP!SizeAssumption
  BY ConnAssumption, SizeAssumption
     DEF TcpP!ConnAssumption, TcpP!SizeAssumption, TcpP!IsFiniteSet, IsFiniteSet

LEMMA MqAssumptions == MqP!PayloadAssumption /\ MqP!ThreadAssumption
  BY NoneAssumption, ParsableAssumption, ThreadAssumption
     DEF MqP!PayloadAssumption, MqP!ThreadAssumption, MqP!IsFiniteSet, IsFiniteSet

LEMMA KafkaAssumptions == KafkaP!RecordAssumption /\ KafkaP!BoundAssumption
  BY ParsableAssumption, PollAssumption DEF KafkaP!RecordAssumption, KafkaP!BoundAssumption

-----------------------------------------------------------------------------
(* TcpServer *)

\* A step of the composition is one of TcpServer, or none of its concern.
LEMMA TcpStep == [Next]_vars => [TcpP!Next]_(TcpP!vars)
  <1> SUFFICES ASSUME [Next]_vars
               PROVE  TcpP!Next \/ UNCHANGED <<tcp, arrivals>>
      BY DEF TcpP!vars, TcpP!client, tcp
  <1>1. ASSUME NEW c \in Conn, Client(c)
        PROVE  TcpP!Next
        BY <1>1 DEF Client, Tcp!Connect, Tcp!Deliver, Tcp!CloseOutput, Tcp!Break, Tcp!Connected,
             Tcp!client, TcpP!Connect, TcpP!Deliver, TcpP!CloseOutput, TcpP!Break,
             TcpP!Connected, TcpP!client, TcpP!Next
  <1>2. CASE Accept
        BY <1>2 DEF Accept, Tcp!Accept, Tcp!AcceptThrows, Tcp!Cardinality, Tcp!client,
             TcpP!Accept, TcpP!AcceptThrows, TcpP!Cardinality, TcpP!client, TcpP!Next
  <1>3. ASSUME NEW c \in Conn, Task(c)
        PROVE  TcpP!Next
        BY <1>3 DEF Task, Add, AddThrows, Tcp!Read, Tcp!Add, Tcp!AddThrows, Tcp!Reply,
             Tcp!TaskFails, Tcp!Copied, Tcp!Smaller, Tcp!client, TcpP!Read, TcpP!Add,
             TcpP!AddThrows, TcpP!Reply, TcpP!TaskFails, TcpP!Copied, TcpP!Smaller,
             TcpP!client, TcpP!Next
  <1>4. ASSUME NEW c \in Conn, Finalize(c)
        PROVE  TcpP!Next
        BY <1>4 DEF Finalize, Tcp!Finalize, Tcp!client, TcpP!Finalize, TcpP!client, TcpP!Next
  <1>5. CASE Create \/ (\E t \in Thread : StartThread(t) \/ PollQueue(t) \/ Handle(t))
        BY <1>5 DEF Create, StartThread, PollQueue, Handle, Mq!CreateQueue, Mq!StartThread,
             Mq!Poll, Mq!Handle, Mq!Send, Mq!Drop
  <1>6. CASE Transmit
        BY <1>6 DEF Transmit, Mq!Transmit, Mq!TransmitFails
  <1>7. CASE Assign \/ AutoCommit \/ PollTopic \/ Listen \/ Revoke
        BY <1>7 DEF Assign, AutoCommit, PollTopic, Listen, Revoke
  <1>8. CASE Crash
        BY <1>8 DEF Crash, Mq!Crash, Tcp!Restart, TcpP!Restart, TcpP!Next
  <1>9. CASE UNCHANGED vars
        BY <1>9 DEF vars
  <1> QED BY <1>1, <1>2, <1>3, <1>4, <1>5, <1>6, <1>7, <1>8, <1>9 DEF Next

LEMMA TcpImplemented == Spec => TcpP!Spec
  <1>1. Init => TcpP!Init
        BY DEF Init, Tcp!Init, TcpP!Init
  <1> QED BY <1>1, TcpStep, PTL DEF Spec, TcpP!Spec

LEMMA TcpInvariance == Spec => []TcpP!IInv
  BY TcpAssumptions, TcpImplemented, TcpP!Invariance, PTL

-----------------------------------------------------------------------------
(* MqServer *)

LEMMA MqStep == TcpP!IInv /\ [Next]_vars => [MqP!Next]_(MqP!vars)
  <1> SUFFICES ASSUME TcpP!IInv, [Next]_vars
               PROVE  MqP!Next \/ UNCHANGED <<queue, topic, arrivals>>
      BY DEF MqP!vars, MqP!process, queue
  <1>1. ASSUME NEW c \in Conn, Client(c) \/ Finalize(c)
        PROVE  UNCHANGED <<queue, topic, arrivals>>
        BY <1>1 DEF Client, Finalize, Tcp!Connect, Tcp!Deliver, Tcp!CloseOutput, Tcp!Break,
             Tcp!Finalize
  <1>2. CASE Accept
        BY <1>2 DEF Accept, Tcp!Accept, Tcp!AcceptThrows
  <1>3. ASSUME NEW c \in Conn, Task(c), ~Add(c)
        PROVE  UNCHANGED <<queue, topic, arrivals>>
        BY <1>3 DEF Task, AddThrows, Tcp!Read, Tcp!AddThrows, Tcp!Reply, Tcp!TaskFails
  <1>4. ASSUME NEW c \in Conn, Add(c)
        PROVE  MqP!Next
    <2>1. text[c] \in 0..Size
          BY DEF TcpP!IInv, TcpP!TypeOK
    <2>2. [conn |-> c, size |-> text[c]] \in Payload
          BY <2>1 DEF Payload
    <2>3. MqP!Offer([conn |-> c, size |-> text[c]])
          BY <1>4 DEF Add, Mq!Offer, MqP!Offer, Mq!Arrived, MqP!Arrived, Mq!Range, MqP!Range,
               Mq!process, MqP!process
    <2> QED BY <2>2, <2>3 DEF MqP!Next
  <1>5. CASE Create
        BY <1>5 DEF Create, Mq!CreateQueue, MqP!CreateQueue, MqP!Next
  <1>6. ASSUME NEW t \in Thread, StartThread(t) \/ PollQueue(t) \/ Handle(t)
        PROVE  MqP!Next
        BY <1>6 DEF StartThread, PollQueue, Handle, Mq!StartThread, Mq!Poll, Mq!Handle, Mq!Send,
             Mq!Drop, Mq!process, MqP!StartThread, MqP!Poll, MqP!Send, MqP!Drop, MqP!process,
             MqP!Next
  <1>7. CASE Transmit
        BY <1>7 DEF Transmit, Mq!Transmit, Mq!TransmitFails, Mq!process,
             MqP!Transmit, MqP!TransmitFails, MqP!process, MqP!Next
  <1>8. CASE Assign \/ AutoCommit \/ PollTopic \/ Listen \/ Revoke
        BY <1>8 DEF Assign, AutoCommit, PollTopic, Listen, Revoke, Kafka!Assign,
             Kafka!AutoCommit, Kafka!Poll, Kafka!ListenThrows, Kafka!Save, Kafka!Revoke
  <1>9. CASE Crash
        BY <1>9 DEF Crash, queue, Kafka!Crash, Mq!Crash, MqP!Crash, Mq!Range, MqP!Range,
             Mq!Held, MqP!Held, MqP!Next
  <1>10. CASE UNCHANGED vars
        BY <1>10 DEF vars
  <1> QED BY <1>1, <1>2, <1>3, <1>4, <1>5, <1>6, <1>7, <1>8, <1>9, <1>10 DEF Next

LEMMA MqImplemented == Spec => MqP!Spec
  <1>1. Init => MqP!Init
        BY DEF Init, Mq!Init, MqP!Init
  <1> QED BY <1>1, MqStep, TcpInvariance, PTL DEF Spec, MqP!Spec

\* A record that the Kafka client still has is one that parsed.
LEMMA MqTyped == Spec => []MqP!TypeOK
  BY MqAssumptions, MqImplemented, MqP!TypeCorrect, PTL

-----------------------------------------------------------------------------
(* KafkaServer *)

LEMMA KafkaStep == MqP!TypeOK /\ [Next]_vars => [KafkaP!Next]_(KafkaP!vars)
  <1> SUFFICES ASSUME MqP!TypeOK, [Next]_vars
               PROVE  KafkaP!Next \/ UNCHANGED <<topic, consumer>>
      BY DEF KafkaP!vars, KafkaP!consumer, consumer
  <1>1. ASSUME NEW c \in Conn, Client(c) \/ Task(c) \/ Finalize(c)
        PROVE  UNCHANGED <<topic, consumer>>
        BY <1>1 DEF Client, Task, Add, AddThrows, Finalize, Mq!Offer
  <1>2. CASE Accept
        BY <1>2 DEF Accept
  <1>3. CASE Create
        BY <1>3 DEF Create, Mq!CreateQueue
  <1>4. ASSUME NEW t \in Thread, StartThread(t) \/ PollQueue(t) \/ Handle(t)
        PROVE  UNCHANGED <<topic, consumer>>
        BY <1>4 DEF StartThread, PollQueue, Handle, Mq!StartThread, Mq!Poll, Mq!Handle, Mq!Send,
             Mq!Drop
  <1>5. CASE Mq!TransmitFails /\ UNCHANGED <<tcp, consumer>>
        BY <1>5 DEF Mq!TransmitFails
  <1>6. CASE Mq!Transmit /\ Kafka!Produce(Head(outbox)) /\ UNCHANGED tcp
    <2>1. Head(outbox) \in Parsable
          BY <1>6 DEF MqP!TypeOK, Mq!Transmit
    <2>2. KafkaP!Produce(Head(outbox))
          BY <1>6 DEF Kafka!Produce, KafkaP!Produce, Kafka!Range, KafkaP!Range,
               Kafka!consumer, KafkaP!consumer
    <2> QED BY <2>1, <2>2 DEF KafkaP!Next
  <1>7. CASE Assign \/ AutoCommit \/ PollTopic \/ Revoke
        BY <1>7 DEF Assign, AutoCommit, PollTopic, Revoke,
             Kafka!Assign, Kafka!AutoCommit, Kafka!Poll, Kafka!Revoke, Kafka!NoOffset,
             Kafka!Smaller, Kafka!consumer, KafkaP!Assign, KafkaP!AutoCommit, KafkaP!Poll,
             KafkaP!Revoke, KafkaP!NoOffset, KafkaP!Smaller, KafkaP!consumer, KafkaP!Next
  <1>8. CASE Listen
        BY <1>8 DEF Listen, Kafka!ListenThrows, Kafka!Save, Kafka!RecordsOf, Kafka!Batch,
             KafkaP!ListenThrows, KafkaP!Save, KafkaP!RecordsOf, KafkaP!Batch, KafkaP!Next
  <1>9. CASE Crash
    <2>1. UNCHANGED topic
          BY <1>9 DEF Crash, Mq!Crash
    <2> QED BY <1>9, <2>1 DEF Crash, Kafka!Crash, KafkaP!Crash, KafkaP!Next
  <1>10. CASE UNCHANGED vars
        BY <1>10 DEF vars
  <1> QED BY <1>1, <1>2, <1>3, <1>4, <1>5, <1>6, <1>7, <1>8, <1>9, <1>10 DEF Next, Transmit

LEMMA KafkaImplemented == Spec => KafkaP!Spec
  <1>1. Init => KafkaP!Init
        BY DEF Init, Kafka!Init, KafkaP!Init, Kafka!NoOffset, KafkaP!NoOffset
  <1> QED BY <1>1, KafkaStep, MqTyped, PTL DEF Spec, KafkaP!Spec

-----------------------------------------------------------------------------
(* Theorems *)

\* The variables of all three components keep their types in one process.
THEOREM TypeCorrect == Spec => []TypeOK
  <1>1. TcpP!IInv => Tcp!TypeOK
        BY DEF TcpP!IInv, TcpP!TypeOK, Tcp!TypeOK, TcpP!Step, Tcp!Step, TcpP!Payload, Tcp!Payload
  <1>2. MqP!TypeOK => Mq!TypeOK
        BY DEF MqP!TypeOK, Mq!TypeOK
  <1>3. KafkaP!TypeOK => Kafka!TypeOK
        BY DEF KafkaP!TypeOK, Kafka!TypeOK, KafkaP!NoOffset, Kafka!NoOffset
  <1>4. Tcp!TypeOK /\ Mq!TypeOK /\ Kafka!TypeOK => TypeOK
        BY DEF TypeOK
  <1> QED BY <1>1, <1>2, <1>3, <1>4, TcpInvariance, MqTyped, KafkaImplemented,
             KafkaAssumptions, KafkaP!TypeCorrect, PTL

\* What TcpServer, MqServer and KafkaServer guarantee each on its own still
\* holds when they share the queue, the topic and a process that may stop.
THEOREM GuaranteesComposeHolds == Spec => []GuaranteesCompose
  <1>1. TcpP!IInv => Tcp!OkMeansQueuedOnce /\ Tcp!TextIsDelivered
    <2>1. TcpP!QueueInv => TcpP!OkMeansQueuedOnce
          BY TcpAssumptions, TcpP!QueueCounts
    <2> QED BY <2>1
            DEF TcpP!IInv, TcpP!TextInv, TcpP!TextIsDelivered, Tcp!TextIsDelivered,
                TcpP!OkMeansQueuedOnce, Tcp!OkMeansQueuedOnce, TcpP!QueuedAt, Tcp!QueuedAt,
                TcpP!Cardinality, Tcp!Cardinality
  <1>2. MqP!Conservation => Mq!Conservation
        BY DEF MqP!Conservation, Mq!Conservation, MqP!NoCopies, Mq!NoCopies, MqP!Disjoint,
               Mq!Disjoint, MqP!Arrived, Mq!Arrived, MqP!Held, Mq!Held, MqP!Range, Mq!Range,
               MqP!IsInjective, Mq!IsInjective
  <1>3. MqP!QueueInOrder => Mq!QueueInOrder
        BY DEF MqP!QueueInOrder, Mq!QueueInOrder
  <1>4. MqP!OvertakingBounded => Mq!OvertakingBounded
        BY DEF MqP!OvertakingBounded, Mq!OvertakingBounded, MqP!Overtaken, Mq!Overtaken,
               MqP!Written, Mq!Written, MqP!Before, Mq!Before, MqP!Cardinality, Mq!Cardinality
  <1>5. KafkaP!CommittedWereTried => Kafka!CommittedWereTried
        BY DEF KafkaP!CommittedWereTried, Kafka!CommittedWereTried
  <1>6. KafkaP!CopiesNeedReassignment => Kafka!CopiesNeedReassignment
        BY DEF KafkaP!CopiesNeedReassignment, Kafka!CopiesNeedReassignment
  <1>7. /\ Tcp!OkMeansQueuedOnce /\ Tcp!TextIsDelivered
        /\ Mq!Conservation /\ Mq!QueueInOrder /\ Mq!OvertakingBounded
        /\ Kafka!CommittedWereTried /\ Kafka!CopiesNeedReassignment
        => GuaranteesCompose
        BY DEF GuaranteesCompose
  <1>8. Spec => []MqP!Conservation /\ []MqP!QueueInOrder /\ []MqP!OvertakingBounded
        BY MqAssumptions, MqImplemented, MqP!ConservationHolds, MqP!QueueInOrderHolds,
           MqP!OvertakingBoundedHolds, PTL
  <1>9. Spec => []KafkaP!CommittedWereTried /\ []KafkaP!CopiesNeedReassignment
        BY KafkaAssumptions, KafkaImplemented, KafkaP!CommittedWereTriedHolds,
           KafkaP!CopiesNeedReassignmentHolds, PTL
  <1> QED BY <1>1, <1>2, <1>3, <1>4, <1>5, <1>6, <1>7, <1>8, <1>9, TcpInvariance, PTL

\* Whatever the other components do next to it, the listener and its tasks are a
\* TcpServer, the queue is an MqServer and the consumer of the topic a
\* KafkaServer; the stops of the process are stops of all three.
THEOREM ImplementsComponentsHolds == Spec => ImplementsComponents
  <1>1. MqP!Init => Mq!Init
        BY DEF MqP!Init, Mq!Init
  <1>2. [MqP!Next]_(MqP!vars) => [Mq!Next]_(Mq!vars)
        BY DEF MqP!Next, Mq!Next, MqP!vars, Mq!vars, MqP!process, Mq!process,
               MqP!CreateQueue, Mq!CreateQueue, MqP!StartThread, Mq!StartThread,
               MqP!Offer, Mq!Offer, MqP!Poll, Mq!Poll, MqP!Spin, Mq!Spin, MqP!Send, Mq!Send,
               MqP!Drop, Mq!Drop, MqP!Transmit, Mq!Transmit, MqP!TransmitFails,
               Mq!TransmitFails, MqP!Crash, Mq!Crash, MqP!Arrived, Mq!Arrived, MqP!Held,
               Mq!Held, MqP!Range, Mq!Range
  <1>3. KafkaP!Init => Kafka!Init
        BY DEF KafkaP!Init, Kafka!Init, KafkaP!NoOffset, Kafka!NoOffset
  <1>4. [KafkaP!Next]_(KafkaP!vars) => [Kafka!Next]_(Kafka!vars)
        BY DEF KafkaP!Next, Kafka!Next, KafkaP!vars, Kafka!vars, KafkaP!consumer,
               Kafka!consumer, KafkaP!Produce, Kafka!Produce, KafkaP!Assign, Kafka!Assign,
               KafkaP!AutoCommit, Kafka!AutoCommit, KafkaP!Poll, Kafka!Poll,
               KafkaP!ListenThrows, Kafka!ListenThrows, KafkaP!Save, Kafka!Save,
               KafkaP!Crash, Kafka!Crash, KafkaP!Revoke, Kafka!Revoke, KafkaP!Batch,
               Kafka!Batch, KafkaP!RecordsOf, Kafka!RecordsOf, KafkaP!Range, Kafka!Range,
               KafkaP!Smaller, Kafka!Smaller, KafkaP!NoOffset, Kafka!NoOffset
  <1>5. TcpP!Init => Tcp!Init
        BY DEF TcpP!Init, Tcp!Init
  <1>6. [TcpP!Next]_(TcpP!vars) => [Tcp!Next]_(Tcp!vars)
        BY DEF TcpP!Next, Tcp!Next, TcpP!vars, Tcp!vars, TcpP!client, Tcp!client,
               TcpP!Connected, Tcp!Connected, TcpP!Connect, Tcp!Connect, TcpP!Deliver,
               Tcp!Deliver, TcpP!CloseOutput, Tcp!CloseOutput, TcpP!Break, Tcp!Break,
               TcpP!Accept, Tcp!Accept, TcpP!AcceptThrows, Tcp!AcceptThrows,
               TcpP!Cardinality, Tcp!Cardinality, TcpP!Read, Tcp!Read, TcpP!Copied,
               Tcp!Copied, TcpP!Smaller, Tcp!Smaller, TcpP!Add, Tcp!Add, TcpP!AddThrows,
               Tcp!AddThrows, TcpP!Reply, Tcp!Reply, TcpP!TaskFails, Tcp!TaskFails,
               TcpP!Finalize, Tcp!Finalize, TcpP!Restart, Tcp!Restart
  <1> QED BY <1>1, <1>2, <1>3, <1>4, <1>5, <1>6, TcpImplemented, MqImplemented,
             KafkaImplemented, PTL
          DEF ImplementsComponents, TcpP!Spec, Tcp!Spec, MqP!Spec, Mq!Spec, KafkaP!Spec,
              Kafka!Spec

-----------------------------------------------------------------------------
(* Liveness *)

\* In the whole process, too, only its task moves an accepted connection, or
\* the stop that ends it, and nothing takes back what its client did.
LEMMA TaskMoves ==
    ASSUME TcpP!IInv, NEW c \in Conn, pc[c] \in {"read", "add", "reply"}, [Next]_vars
    PROVE  /\ Task(c) \/ pc'[c] = pc[c] \/ pc'[c] = "failed"
           /\ Tcp!Heard(c) => Tcp!Heard(c)'
  <1>1. TcpP!TypeOK
        BY DEF TcpP!IInv
  <1>2. /\ pc \in [Conn -> TcpP!Step] /\ delivered \in [Conn -> Nat]
        BY <1>1 DEF TcpP!TypeOK
  <1>3. Tcp!Heard(c) => Tcp!Heard(c)'
    <2>1. TcpP!Heard(c) => TcpP!Heard(c)'
          BY <1>2, TcpStep, TcpAssumptions, TcpP!TaskMoves
    <2> QED BY <2>1 DEF Tcp!Heard, TcpP!Heard
  <1>4. ASSUME NEW d \in Conn, Task(d) PROVE Task(c) \/ pc'[c] = pc[c]
        BY <1>2, <1>4 DEF Task, Add, AddThrows, Tcp!Read, Tcp!Add, Tcp!AddThrows, Tcp!Reply,
             Tcp!TaskFails
  <1>5. ASSUME NEW d \in Conn, Client(d) \/ Finalize(d) PROVE pc'[c] = pc[c]
        BY <1>2, <1>5 DEF Client, Finalize, Tcp!Connect, Tcp!Deliver, Tcp!CloseOutput,
             Tcp!Break, Tcp!Finalize
  <1>6. CASE Accept
        BY <1>2, <1>3, <1>6 DEF Accept, Tcp!Accept, Tcp!AcceptThrows
  <1>7. CASE Crash
        BY <1>2, <1>3, <1>7 DEF Crash, Tcp!Restart
  <1>8. CASE UNCHANGED pc
        BY <1>3, <1>8
  <1> QED BY <1>3, <1>4, <1>5, <1>6, <1>7, <1>8 DEF Next, vars, tcp, Create, StartThread,
          PollQueue, Handle, Transmit, Assign, AutoCommit, PollTopic, Listen, Revoke

\* The calls of a task follow one another; a missing queue ends it.
LEMMA TaskAdvances ==
    ASSUME TcpP!IInv, NEW c \in Conn, Task(c)
    PROVE  /\ pc[c] = "read" => pc'[c] \in {"add", "failed"}
           /\ pc[c] = "add" => pc'[c] \in {"reply", "failed"}
           /\ pc[c] = "reply" => pc'[c] \in {"done", "failed"}
  <1>1. pc \in [Conn -> TcpP!Step]
        BY DEF TcpP!IInv, TcpP!TypeOK
  <1> QED BY <1>1 DEF Task, Add, AddThrows, Tcp!Read, Tcp!Add, Tcp!AddThrows, Tcp!Reply,
          Tcp!TaskFails

\* What the joint steps ask of both components: the queue has not seen what a
\* task adds next, nor the log what the Kafka client sends next.
JointGuards ==
    /\ \A c \in Conn : pc[c] = "add" => [conn |-> c, size |-> text[c]] \notin Mq!Arrived
    /\ outbox # <<>> => Head(outbox) \notin Kafka!Range(topic)

\* The guards behind CompositionNeverBlocks hold for all constants: a payload
\* that repeats would stop its task, a record that repeats the Kafka client.
THEOREM JointGuardsHold == Spec => []JointGuards
  <1>1. TcpP!IInv => \A c \in Conn : pc[c] = "add" =>
                       [conn |-> c, size |-> text[c]] \notin Mq!Arrived
    <2> SUFFICES ASSUME TcpP!IInv, NEW c \in Conn, pc[c] = "add",
                        NEW i \in DOMAIN arrivals, arrivals[i] = [conn |-> c, size |-> text[c]]
                 PROVE  FALSE
        BY DEF Mq!Arrived, Mq!Range
    <2>1. i \in 1..Len(arrivals) /\ arrivals[i].conn = c
          BY DEF TcpP!IInv, TcpP!TypeOK
    <2> QED BY <2>1 DEF TcpP!IInv, TcpP!QueueInv
  <1>2. MqP!TypeOK /\ MqP!Conservation =>
          (outbox # <<>> => Head(outbox) \notin Kafka!Range(topic))
    <2> SUFFICES ASSUME MqP!TypeOK, MqP!Conservation, outbox # <<>>
                 PROVE  Head(outbox) \notin Kafka!Range(topic)
        OBVIOUS
    <2>1. 1 \in DOMAIN outbox /\ Head(outbox) = outbox[1]
          BY DEF MqP!TypeOK
    <2>2. MqP!Range(outbox) \cap MqP!Range(topic) = {}
          BY DEF MqP!Conservation, MqP!Disjoint
    <2> QED BY <2>1, <2>2 DEF MqP!Range, Kafka!Range
  <1>3. Spec => []MqP!Conservation
        BY MqAssumptions, MqImplemented, MqP!ConservationHolds, PTL
  <1>4. TcpP!IInv /\ MqP!TypeOK /\ MqP!Conservation => JointGuards
        BY <1>1, <1>2 DEF JointGuards
  <1> QED BY <1>3, <1>4, TcpInvariance, MqTyped, PTL

\* Every accepted connection whose client does anything is served to its end,
\* or ends with its process, next to all that goes on in the queue and behind.
THEOREM AcceptedAreServedHolds ==
    FairSpec /\ []CompositionNeverBlocks => Tcp!AcceptedAreServed
  <1> SUFFICES ASSUME NEW c \in Conn
               PROVE  FairSpec /\ []CompositionNeverBlocks =>
                        (pc[c] = "read" /\ Tcp!Heard(c) ~> pc[c] \in {"done", "failed"})
      BY DEF Tcp!AcceptedAreServed
  <1> DEFINE Reading == pc[c] = "read" /\ Tcp!Heard(c)
             Adding == pc[c] = "add"
             Replying == pc[c] = "reply"
             Over == pc[c] \in {"done", "failed"}
  <1>1. FairSpec => Spec /\ TaskFair(c)
        BY DEF FairSpec, Fairness
  <1>2. TcpP!IInv /\ Reading /\ [Next]_vars => Reading' \/ Adding' \/ Over'
        BY TaskMoves, TaskAdvances
  <1>3. TcpP!IInv /\ Reading /\ <<Next /\ Task(c)>>_vars => Adding' \/ Over'
        BY TaskAdvances
  <1>4. TcpP!IInv /\ Adding /\ [Next]_vars => Adding' \/ Replying' \/ Over'
        BY TaskMoves, TaskAdvances
  <1>5. TcpP!IInv /\ Adding /\ <<Next /\ Task(c)>>_vars => Replying' \/ Over'
        BY TaskAdvances
  <1>6. TcpP!IInv /\ Replying /\ [Next]_vars => Replying' \/ Over'
        BY TaskMoves, TaskAdvances
  <1>7. TcpP!IInv /\ Replying /\ <<Next /\ Task(c)>>_vars => Over'
        BY TaskAdvances
  <1>8. CompositionNeverBlocks =>
          (Reading \/ Adding \/ Replying => ENABLED <<Task(c)>>_vars)
        BY DEF CompositionNeverBlocks
  <1>9. /\ (pc[c] = "read" /\ Tcp!Heard(c)) <=> Reading
        /\ pc[c] \in {"done", "failed"} <=> Over
        OBVIOUS
  <1> HIDE DEF Reading, Adding, Replying, Over
  <1> QED BY <1>1, <1>2, <1>3, <1>4, <1>5, <1>6, <1>7, <1>8, <1>9, TcpInvariance, PTL
          DEF Spec, TaskFair
=============================================================================
