------------------------- MODULE LogDeliveryProofs --------------------------
(***************************************************************************)
(* RingLog implements LogDelivery, for any connections, threads and bounds.*)
(***************************************************************************)
EXTENDS RingLogProofs

\* The payloads in the memory of the process.
Memory == Range(mq) \cup Mq!Held \cup Range(outbox)

\* What the places of the messages rest on: a message has one payload, which is
\* in one place; only records are indexed; what the consumer has passed is not in
\* its batch and never will be.
PlaceInv ==
    /\ \A p, q \in Range(arrivals) : p.conn = q.conn => p = q
    /\ Range(arrivals) = Memory \cup Range(topic) \cup lost
    /\ Memory \cap (Range(topic) \cup lost) = {}
    /\ Range(topic) \cap lost = {}
    /\ arrivals \in Seq(Payload) /\ text \in [Conn -> 0..Size]
    /\ outbox \in Seq(Parsable) /\ topic \in Seq(Parsable)
    /\ \A i, j \in 1..Len(topic) : topic[i] = topic[j] => i = j
    /\ es \in [Parsable -> Nat] /\ \A p \in Parsable : es[p] > 0 => p \in Range(topic)
    /\ \A c \in answered : Queued(c)
    /\ \A c \in Conn : /\ pc[c] = "reply" => Queued(c)
                       /\ pc[c] = "add" => ~Queued(c)
    /\ skipped \subseteq 0..Len(topic) - 1 /\ committed \in -1..Len(topic)
    /\ first \in 0..Len(topic) /\ position \in 0..Len(topic)
    /\ phase = "idle" /\ assigned => committed <= position
    /\ phase = "listen" => \A i \in first..position - 1 : i >= committed /\ i \notin skipped

LEMMA PlaceInvHolds ==
    ASSUME TcpP!IInv, MqP!TypeOK, MqP!Conservation, KafkaP!IInv, KafkaP!CopiesInv, KafkaP!BehindInv
    PROVE  PlaceInv
  <1>1. arrivals \in Seq(Payload) /\ outbox \in Seq(Parsable)
        BY DEF MqP!TypeOK
  <1>2. KafkaP!TypeOK
        BY DEF KafkaP!IInv
  <1>3. topic \in Seq(Parsable) /\ Len(topic) \in Nat
        BY <1>2 DEF KafkaP!TypeOK
  <1>4. text \in [Conn -> 0..Size]
        BY DEF TcpP!IInv, TcpP!TypeOK
  <1>5. \A p, q \in Range(arrivals) : p.conn = q.conn => p = q
        BY <1>1 DEF TcpP!IInv, TcpP!QueueInv, Range
  <1>6. /\ Range(arrivals) = Memory \cup Range(topic) \cup lost
        /\ Memory \cap (Range(topic) \cup lost) = {}
        /\ Range(topic) \cap lost = {}
        BY DEF MqP!Conservation, MqP!Disjoint, MqP!Arrived, MqP!Held, MqP!Range, Range,
               Memory, Mq!Held
  <1>7. \A i, j \in 1..Len(topic) : topic[i] = topic[j] => i = j
        BY <1>3 DEF KafkaP!CopiesInv, KafkaP!IsInjective
  <1>8. es \in [Parsable -> Nat] /\ \A p \in Parsable : es[p] > 0 => p \in Range(topic)
        BY <1>2 DEF KafkaP!TypeOK, KafkaP!CopiesInv, KafkaP!Range, Range
  <1>9. /\ \A c \in answered : Queued(c)
        /\ \A c \in Conn : /\ pc[c] = "reply" => Queued(c)
                           /\ pc[c] = "add" => ~Queued(c)
        BY <1>1 DEF TcpP!IInv, TcpP!QueueInv, Queued, Range
  <1>10. /\ skipped \subseteq 0..Len(topic) - 1 /\ committed \in -1..Len(topic)
         /\ first \in 0..Len(topic) /\ position \in 0..Len(topic)
         BY <1>2, <1>3 DEF KafkaP!TypeOK, KafkaP!NoOffset
  <1>11. phase = "idle" /\ assigned => committed <= position
         BY DEF KafkaP!IInv, KafkaP!CommitInv, KafkaP!Safe
  <1>12. phase = "listen" => \A i \in first..position - 1 : i >= committed /\ i \notin skipped
         BY DEF KafkaP!BehindInv, KafkaP!Batch
  <1> QED BY <1>1, <1>3, <1>4, <1>5, <1>6, <1>7, <1>8, <1>9, <1>10, <1>11, <1>12 DEF PlaceInv

LEMMA PlaceInvariance == Spec => []PlaceInv
  <1>1. TcpP!IInv /\ MqP!TypeOK /\ MqP!Conservation
          /\ KafkaP!IInv /\ KafkaP!CopiesInv /\ KafkaP!BehindInv => PlaceInv
        BY PlaceInvHolds
  <1>2. Spec => []MqP!Conservation
        BY MqAssumptions, MqImplemented, MqP!ConservationHolds, PTL
  <1>3. Spec => []KafkaP!IInv /\ []KafkaP!CopiesInv /\ []KafkaP!BehindInv
        BY KafkaAssumptions, KafkaImplemented, KafkaP!Invariance, KafkaP!CopiesInvariance,
           KafkaP!BehindInvariance, PTL
  <1> QED BY <1>1, <1>2, <1>3, TcpInvariance, MqTyped, PTL

-----------------------------------------------------------------------------
(* How places change *)

\* What a place depends on.
FateVars == <<arrivals, lost, topic, es, committed, skipped>>

LEMMA FateStays ==
    ASSUME UNCHANGED FateVars, NEW c \in Conn
    PROVE  Place(c)' = Place(c)
  BY DEF FateVars, Place, Queued, Lost, Stored, Indexed, Passed

LEMMA Stutters ==
    ASSUME UNCHANGED FateVars, answered' = answered
    PROVE  UNCHANGED Delivery!vars
  BY FateStays DEF Delivery!vars

\* A set of messages moves on when each of them does and all others stay.
LEMMA MoveOn ==
    ASSUME NEW M \in SUBSET Conn, NEW from, NEW to,
           \A c \in M : Place(c) \in from /\ Place(c)' = to,
           \A c \in Conn \ M : Place(c)' = Place(c),
           answered' = answered
    PROVE  Delivery!Move(M, from, to)
  BY DEF Delivery!Move

\* Payloads that leave the memory of the process without being transmitted.
LEMMA Leaves ==
    ASSUME PlaceInv, NEW N \in SUBSET Memory, lost' = lost \cup N,
           UNCHANGED <<arrivals, topic, es, committed, skipped, answered>>
    PROVE  Delivery!Next
  <1> DEFINE M == {c \in Conn : \E p \in N : p.conn = c}
  <1>1. ASSUME NEW c \in M
        PROVE  Place(c) = "memory" /\ Place(c)' = "lost"
    <2>1. PICK p \in N : p.conn = c
          OBVIOUS
    <2>2. p \in Range(arrivals) /\ p \notin Range(topic) /\ p \notin lost
          BY DEF PlaceInv
    <2>3. Queued(c) /\ ~Lost(c) /\ ~Stored(c)
          BY <2>1, <2>2 DEF PlaceInv, Queued, Lost, Stored
    <2>4. ~Indexed(c)
          BY <2>3 DEF PlaceInv, Indexed, Stored
    <2>5. Queued(c)' /\ Lost(c)' /\ ~Stored(c)' /\ ~Indexed(c)'
          BY <2>1, <2>3, <2>4 DEF Queued, Lost, Stored, Indexed
    <2> QED BY <2>3, <2>4, <2>5 DEF Place
  <1>2. ASSUME NEW c \in Conn \ M
        PROVE  Place(c)' = Place(c)
    <2>1. Lost(c)' <=> Lost(c)
          BY DEF Lost
    <2>2. /\ Queued(c)' <=> Queued(c)
          /\ Stored(c)' <=> Stored(c)
          /\ Indexed(c)' <=> Indexed(c)
          /\ Passed(c)' <=> Passed(c)
          BY DEF Queued, Stored, Indexed, Passed
    <2> QED BY <2>1, <2>2 DEF Place
  <1>3. M \in SUBSET Conn
        OBVIOUS
  <1> HIDE DEF M
  <1>4. Delivery!Move(M, {"memory", "log"}, "lost")
        BY <1>1, <1>2, <1>3, MoveOn
  <1> QED BY <1>3, <1>4 DEF Delivery!Next

\* The elements of a sequence that got one more, or lost its first.
LEMMA Elements ==
    ASSUME NEW S, NEW s \in Seq(S)
    PROVE  /\ \A e \in S : Range(Append(s, e)) = Range(s) \cup {e}
           /\ s # <<>> => Head(s) \in Range(s)
  <1>1. \A e \in S : Range(Append(s, e)) = Range(s) \cup {e}
        BY MqAssumptions, MqP!RangeAppend DEF Range, MqP!Range
  <1>2. s # <<>> => 1 \in DOMAIN s /\ Head(s) = s[1]
        OBVIOUS
  <1> QED BY <1>1, <1>2 DEF Range

\* A task queues its payload.
LEMMA AddAccepts ==
    ASSUME PlaceInv, NEW c \in Conn, Add(c)
    PROVE  Delivery!Next
  <1> DEFINE p == [conn |-> c, size |-> text[c]]
  <1>1. /\ arrivals' = Append(arrivals, p) /\ pc[c] = "add"
        /\ UNCHANGED <<lost, topic, es, committed, skipped, answered>>
        BY DEF Add, Tcp!Add, Mq!Offer, consumer
  <1>2. p \in Payload
        BY DEF PlaceInv, Payload
  <1>3. Range(arrivals') = Range(arrivals) \cup {p}
        BY <1>1, <1>2, Elements DEF PlaceInv
  <1>4. \A d \in Conn : Queued(d)' <=> Queued(d) \/ d = c
    <2>1. p.conn = c
          OBVIOUS
    <2> HIDE DEF p
    <2> QED BY <1>3, <2>1 DEF Queued
  <1>5. \A d \in Conn : /\ Lost(d)' <=> Lost(d)
                        /\ Stored(d)' <=> Stored(d)
                        /\ Indexed(d)' <=> Indexed(d)
                        /\ Passed(d)' <=> Passed(d)
        BY <1>1 DEF Lost, Stored, Indexed, Passed
  <1>6. \A d \in Conn : Lost(d) \/ Stored(d) \/ Indexed(d) => Queued(d)
        BY DEF PlaceInv, Lost, Stored, Indexed, Queued
  <1>7. ~Queued(c)
        BY <1>1 DEF PlaceInv
  <1> HIDE DEF p
  <1>8. Place(c) = "client" /\ Place(c)' = "memory"
        BY <1>4, <1>5, <1>6, <1>7 DEF Place
  <1>9. \A d \in Conn \ {c} : Place(d)' = Place(d)
        BY <1>4, <1>5 DEF Place
  <1>10. {c} \in SUBSET Conn
        OBVIOUS
  <1>11. Delivery!Move({c}, {"client"}, "memory")
        BY <1>1, <1>8, <1>9, <1>10, MoveOn
  <1> QED BY <1>11 DEF Delivery!Next

\* The Kafka client writes a record to the log.
LEMMA TransmitStores ==
    ASSUME PlaceInv, Mq!Transmit, Kafka!Produce(Head(outbox)), UNCHANGED tcp
    PROVE  Delivery!Next
  <1>0. outbox # <<>>
        BY DEF Mq!Transmit
  <1>1. PICK p \in Parsable : p = Head(outbox)
        BY <1>0 DEF PlaceInv
  <1>2. /\ p \in Range(outbox) /\ topic' = Append(topic, p)
        /\ UNCHANGED <<arrivals, lost, es, committed, skipped, answered>>
        BY <1>0, <1>1, Elements DEF PlaceInv, Mq!Transmit, Kafka!Produce, tcp
  <1>3. PICK c \in Conn : c = p.conn
        BY ParsableAssumption DEF Payload
  <1>4. /\ p \in Range(arrivals) /\ p \notin Range(topic) /\ p \notin lost
        BY <1>2 DEF PlaceInv, Memory
  <1>5. Queued(c) /\ ~Lost(c) /\ ~Stored(c)
        BY <1>3, <1>4 DEF PlaceInv, Queued, Lost, Stored
  <1>6. Range(topic') = Range(topic) \cup {p}
        BY <1>1, <1>2, Elements DEF PlaceInv
  <1>7. \A d \in Conn : /\ Queued(d)' <=> Queued(d)
                        /\ Lost(d)' <=> Lost(d)
                        /\ Stored(d)' <=> Stored(d) \/ d = c
                        /\ Indexed(d)' <=> Indexed(d)
        BY <1>2, <1>3, <1>6 DEF Queued, Lost, Stored, Indexed
  <1>8. /\ Len(topic) \in Nat /\ Len(topic') = Len(topic) + 1
        /\ topic'[Len(topic) + 1] = p /\ \A i \in 1..Len(topic) : topic'[i] = topic[i]
        BY <1>2 DEF PlaceInv
  <1>9. Len(topic) \notin skipped /\ ~(Len(topic) + 1 <= committed)
        BY <1>8 DEF PlaceInv
  <1>10. \A d \in Conn : Passed(d)' <=> Passed(d)
        BY <1>2, <1>8, <1>9 DEF Passed
  <1>11. ~Passed(c) /\ ~Indexed(c)
    <2>1. ~Indexed(c)
          BY <1>5 DEF PlaceInv, Indexed, Stored
    <2>2. \A i \in 1..Len(topic) : topic[i] \in Range(topic)
          BY DEF PlaceInv, Range
    <2>3. ~Passed(c)
          BY <1>5, <2>2 DEF Passed, Stored
    <2> QED BY <2>1, <2>3
  <1>12. Place(c) = "memory" /\ Place(c)' = "log"
        BY <1>3, <1>5, <1>7, <1>10, <1>11 DEF Place
  <1>13. \A d \in Conn \ {c} : Place(d)' = Place(d)
        BY <1>7, <1>10 DEF Place
  <1>14. Delivery!Move({c}, {"memory"}, "log")
        BY <1>2, <1>3, <1>12, <1>13, MoveOn
  <1> QED BY <1>3, <1>14 DEF Delivery!Next

\* The consumer passes records that are not indexed: it commits its position, or
\* starts at the end of the log.
LEMMA Passes ==
    ASSUME PlaceInv, committed' >= committed, committed' \in Int, skipped \subseteq skipped',
           UNCHANGED <<arrivals, lost, topic, es, answered>>
    PROVE  Delivery!Next
  <1> DEFINE M == {c \in Conn : Place(c) = "log" /\ Passed(c)'}
  <1>1. \A c \in Conn : /\ Queued(c)' <=> Queued(c)
                        /\ Lost(c)' <=> Lost(c)
                        /\ Stored(c)' <=> Stored(c)
                        /\ Indexed(c)' <=> Indexed(c)
        BY DEF Queued, Lost, Stored, Indexed
  <1>2. \A c \in Conn : Passed(c) => Passed(c)'
        BY DEF PlaceInv, Passed
  <1>3. ASSUME NEW c \in M
        PROVE  Place(c) \in {"memory", "log"} /\ Place(c)' = "lost"
        BY <1>1 DEF Place
  <1>4. ASSUME NEW c \in Conn \ M
        PROVE  Place(c)' = Place(c)
        BY <1>1, <1>2 DEF Place
  <1>5. M \in SUBSET Conn
        OBVIOUS
  <1> HIDE DEF M
  <1>6. Delivery!Move(M, {"memory", "log"}, "lost")
        BY <1>3, <1>4, <1>5, MoveOn
  <1> QED BY <1>5, <1>6 DEF Delivery!Next

\* saveAll indexes some records of its batch, none of which was passed.
LEMMA SaveIndexes ==
    ASSUME PlaceInv, Kafka!Save, UNCHANGED <<tcp, arrivals, queue>>
    PROVE  Delivery!Next
  <1>1. PICK S \in SUBSET Kafka!RecordsOf(Kafka!Batch) :
          es' = [r \in Parsable |-> IF r \in S THEN es[r] + 1 ELSE es[r]]
        BY DEF Kafka!Save
  <1>2. UNCHANGED <<arrivals, lost, topic, committed, skipped, answered>> /\ phase = "listen"
        BY DEF Kafka!Save, tcp, queue
  <1>3. ASSUME NEW p \in S
        PROVE  \E i \in 1..Len(topic) : topic[i] = p /\ ~(i <= committed) /\ i - 1 \notin skipped
    <2>1. PICK j \in first..position - 1 : p = topic[j + 1]
          BY DEF Kafka!RecordsOf, Kafka!Batch
    <2>2. j + 1 \in 1..Len(topic) /\ ~(j + 1 <= committed) /\ (j + 1) - 1 \notin skipped
          BY <1>2, <2>1 DEF PlaceInv
    <2> QED BY <2>1, <2>2
  <1>4. DOMAIN topic = 1..Len(topic) /\ \A i \in 1..Len(topic) : topic[i] \in Parsable
        BY DEF PlaceInv
  <1>5. \A p \in S : p \in Range(topic) /\ p \in Parsable
        BY <1>3, <1>4 DEF Range
  <1>6. \A p \in Parsable : es'[p] > 0 <=> es[p] > 0 \/ p \in S
        BY <1>1 DEF PlaceInv
  <1> DEFINE M == {c \in Conn : Place(c) = "log" /\ \E p \in S : p.conn = c}
  <1>7. \A c \in Conn : /\ Queued(c)' <=> Queued(c)
                        /\ Lost(c)' <=> Lost(c)
                        /\ Stored(c)' <=> Stored(c)
                        /\ Passed(c)' <=> Passed(c)
                        /\ Indexed(c)' <=> Indexed(c) \/ \E p \in S : p.conn = c
        BY <1>2, <1>5, <1>6 DEF Queued, Lost, Stored, Passed, Indexed
  <1>8. ASSUME NEW p \in S
        PROVE  Queued(p.conn) /\ ~Lost(p.conn) /\ Stored(p.conn) /\ ~Passed(p.conn)
    <2>1. p \in Range(topic) /\ p \in Range(arrivals) /\ p \notin lost
          BY <1>5 DEF PlaceInv
    <2>2. Queued(p.conn) /\ ~Lost(p.conn) /\ Stored(p.conn)
          BY <2>1 DEF PlaceInv, Queued, Lost, Stored
    <2>3. PICK i \in 1..Len(topic) : topic[i] = p /\ ~(i <= committed) /\ i - 1 \notin skipped
          BY <1>3
    <2>4. \A j \in 1..Len(topic) : topic[j].conn = p.conn => j = i
      <3> SUFFICES ASSUME NEW j \in 1..Len(topic), topic[j].conn = p.conn
                   PROVE  j = i
          OBVIOUS
      <3>0. topic[j] \in Range(topic)
            BY <1>4 DEF Range
      <3>1. topic[j] \in Range(arrivals)
            BY <3>0 DEF PlaceInv
      <3>2. topic[j] = topic[i]
            BY <2>1, <2>3, <3>1 DEF PlaceInv
      <3> QED BY <3>2 DEF PlaceInv
    <2> QED BY <2>2, <2>3, <2>4 DEF Passed
  <1>9. ASSUME NEW c \in M
        PROVE  Place(c) \in {"log"} /\ Place(c)' = "indexed"
        BY <1>7, <1>8 DEF Place
  <1>10. ASSUME NEW c \in Conn \ M
         PROVE  Place(c)' = Place(c)
         BY <1>7, <1>8 DEF Place
  <1>11. M \in SUBSET Conn
         OBVIOUS
  <1> HIDE DEF M
  <1>12. Delivery!Move(M, {"log"}, "indexed")
         BY <1>2, <1>9, <1>10, <1>11, MoveOn
  <1> QED BY <1>11, <1>12 DEF Delivery!Next

-----------------------------------------------------------------------------

LEMMA TaskImplements ==
    ASSUME PlaceInv, NEW c \in Conn, Task(c)
    PROVE  [Delivery!Next]_(Delivery!vars)
  <1>1. CASE Tcp!Reply(c) /\ UNCHANGED <<queue, topic, consumer>>
    <2>1. UNCHANGED FateVars /\ answered' = answered \cup {c}
          BY <1>1 DEF Tcp!Reply, queue, consumer, FateVars
    <2>2. Queued(c)
          BY <1>1 DEF PlaceInv, Tcp!Reply
    <2>3. Place(c) # "client"
          BY <2>2 DEF Place
    <2>4. Delivery!Answer(c)
          BY <2>1, <2>3, FateStays DEF Delivery!Answer
    <2> QED BY <2>4 DEF Delivery!Next
  <1>2. CASE (Tcp!Read(c) \/ Tcp!TaskFails(c)) /\ UNCHANGED <<queue, topic, consumer>>
        BY <1>2, Stutters DEF Tcp!Read, Tcp!TaskFails, queue, consumer, FateVars
  <1>3. CASE AddThrows(c)
        BY <1>3, Stutters DEF AddThrows, Tcp!AddThrows, queue, consumer, FateVars
  <1> QED BY <1>1, <1>2, <1>3, AddAccepts DEF Task

LEMMA HandleImplements ==
    ASSUME PlaceInv, NEW t \in Thread, Handle(t)
    PROVE  [Delivery!Next]_(Delivery!vars)
  <1>1. CASE Mq!Send(t)
        BY <1>1, Stutters DEF Handle, Mq!Send, tcp, consumer, FateVars
  <1>2. CASE Mq!Drop(t)
    <2>1. {held[t]} \in SUBSET Memory
          BY <1>2 DEF Mq!Drop, Memory, Mq!Held
    <2>2. lost' = lost \cup {held[t]}
            /\ UNCHANGED <<arrivals, topic, es, committed, skipped, answered>>
          BY <1>2 DEF Handle, Mq!Drop, tcp, consumer
    <2> QED BY <2>1, <2>2, Leaves
  <1> QED BY <1>1, <1>2 DEF Handle, Mq!Handle

LEMMA TransmitImplements ==
    ASSUME PlaceInv, Transmit
    PROVE  [Delivery!Next]_(Delivery!vars)
  <1>1. CASE Mq!TransmitFails /\ UNCHANGED <<tcp, consumer>>
    <2>1. {Head(outbox)} \in SUBSET Memory
          BY <1>1, Elements DEF PlaceInv, Mq!TransmitFails, Memory
    <2>2. lost' = lost \cup {Head(outbox)}
            /\ UNCHANGED <<arrivals, topic, es, committed, skipped, answered>>
          BY <1>1 DEF Mq!TransmitFails, tcp, consumer
    <2> QED BY <2>1, <2>2, Leaves
  <1> QED BY <1>1, TransmitStores DEF Transmit

LEMMA ConsumerImplements ==
    ASSUME PlaceInv, Assign \/ AutoCommit \/ PollTopic \/ Listen \/ Revoke
    PROVE  [Delivery!Next]_(Delivery!vars)
  <1>1. CASE Assign
        BY <1>1, Passes DEF Assign, Kafka!Assign, PlaceInv, tcp, queue
  <1>2. CASE AutoCommit
        BY <1>2, Passes DEF AutoCommit, Kafka!AutoCommit, Kafka!consumer, PlaceInv, tcp, queue
  <1>3. CASE Kafka!Save /\ Listen
        BY <1>3, SaveIndexes DEF Listen
  <1>4. CASE PollTopic \/ Revoke \/ (Kafka!ListenThrows /\ Listen)
        BY <1>4, Stutters DEF PollTopic, Kafka!Poll, Revoke, Kafka!Revoke, Listen,
             Kafka!ListenThrows, tcp, queue, FateVars
  <1> QED BY <1>1, <1>2, <1>3, <1>4 DEF Listen

LEMMA CrashImplements ==
    ASSUME PlaceInv, Crash
    PROVE  [Delivery!Next]_(Delivery!vars)
  <1>1. UNCHANGED <<arrivals, topic, es, committed, skipped, answered>>
        BY DEF Crash, Mq!Crash, Kafka!Crash, Tcp!Restart
  <1>2. CASE Mq!Crash
    <2>1. lost' = lost \cup Memory
          BY <1>2 DEF Mq!Crash, Memory, Mq!Range, Range, Mq!Held
    <2> QED BY <1>1, <2>1, Leaves
  <1>3. CASE UNCHANGED <<arrivals, queue, topic>>
        BY <1>1, <1>3, Stutters DEF queue, FateVars
  <1> QED BY <1>2, <1>3 DEF Crash

LEMMA StepImplements == PlaceInv /\ [Next]_vars => [Delivery!Next]_(Delivery!vars)
  <1> SUFFICES ASSUME PlaceInv, [Next]_vars PROVE [Delivery!Next]_(Delivery!vars)
      OBVIOUS
  <1>1. ASSUME NEW c \in Conn, Client(c) \/ Finalize(c)
        PROVE  UNCHANGED Delivery!vars
        BY <1>1, Stutters DEF Client, Finalize, Tcp!Connect, Tcp!Deliver, Tcp!CloseOutput,
             Tcp!Break, Tcp!Finalize, queue, consumer, FateVars
  <1>2. CASE Accept
        BY <1>2, Stutters DEF Accept, Tcp!Accept, Tcp!AcceptThrows, queue, consumer, FateVars
  <1>3. CASE Create
        BY <1>3, Stutters DEF Create, Mq!CreateQueue, tcp, consumer, FateVars
  <1>4. ASSUME NEW t \in Thread, StartThread(t) \/ PollQueue(t)
        PROVE  UNCHANGED Delivery!vars
        BY <1>4, Stutters DEF StartThread, PollQueue, Mq!StartThread, Mq!Poll, tcp, consumer,
             FateVars
  <1>5. CASE UNCHANGED vars
        BY <1>5, Stutters DEF vars, tcp, queue, consumer, FateVars
  <1> QED BY <1>1, <1>2, <1>3, <1>4, <1>5, TaskImplements, HandleImplements,
             TransmitImplements, ConsumerImplements, CrashImplements DEF Next

\* The whole process keeps the promise of LogDelivery: "ok" is said of accepted
\* messages only, and a message goes forward from memory to the log to
\* Elasticsearch or is lost once and for all, wherever the process stops.
THEOREM ImplementsLogDeliveryHolds == Spec => ImplementsLogDelivery
  <1>1. Init => Delivery!Init
    <2> SUFFICES ASSUME Init PROVE Delivery!Init
        OBVIOUS
    <2>1. /\ arrivals = <<>> /\ answered = {} /\ lost = {} /\ topic = <<>>
          /\ \A p \in Parsable : es[p] = 0
          BY DEF Init, Tcp!Init, Mq!Init, Kafka!Init
    <2>2. \A c \in Conn : ~Queued(c) /\ ~Lost(c) /\ ~Stored(c) /\ ~Indexed(c)
          BY <2>1 DEF Queued, Lost, Stored, Indexed, Range
    <2>3. \A c \in Conn : Place(c) = "client"
          BY <2>2 DEF Place
    <2> QED BY <2>1, <2>3 DEF Delivery!Init
  <1> QED BY <1>1, StepImplements, PlaceInvariance, PTL
          DEF Spec, ImplementsLogDelivery, Delivery!Spec

-----------------------------------------------------------------------------
(* What the promise says of single messages *)

\* How far a message has come; both fates are the end of its way.
Stage == [p \in Delivery!Place |->
            CASE p = "client" -> 0
              [] p = "memory" -> 1
              [] p = "log" -> 2
              [] p \in {"indexed", "lost"} -> 3]

MessagesMoveForward ==
    [][\A c \in Conn : Place(c)' # Place(c) => Stage[Place(c)] < Stage[Place(c)']]_vars

\* A message only moves forward on its way through memory and log: no stop of
\* the process, replay, commit or rebalance makes an indexed message lost, takes
\* a lost one up again or sends one back.
THEOREM MessagesMoveForwardHolds == Spec => MessagesMoveForward
  <1> DEFINE Forward == \A c \in Conn : Place(c)' # Place(c) => Stage[Place(c)] < Stage[Place(c)']
  <1>1. /\ Stage["client"] = 0 /\ Stage["memory"] = 1 /\ Stage["log"] = 2
        /\ Stage["indexed"] = 3 /\ Stage["lost"] = 3
        BY DEF Stage, Delivery!Place
  <1>2. ASSUME NEW M, NEW from \in SUBSET Delivery!Place, NEW to \in Delivery!Place,
               \A p \in from : Stage[p] < Stage[to],
               Delivery!Move(M, from, to)
        PROVE  Forward
    <2> SUFFICES ASSUME NEW c \in Conn, Place(c)' # Place(c)
                 PROVE  Stage[Place(c)] < Stage[Place(c)']
        OBVIOUS
    <2>1. Place(c)' = IF c \in M THEN to ELSE Place(c)
          BY <1>2 DEF Delivery!Move
    <2>2. c \in M /\ Place(c) \in from
      <3>1. c \in M
            BY <2>1
      <3>2. [d \in Conn |-> Place(d)][c] \in from
            BY <1>2, <3>1 DEF Delivery!Move
      <3> QED BY <3>1, <3>2
    <2> QED BY <1>2, <2>1, <2>2
  <1>3. ASSUME UNCHANGED [c \in Conn |-> Place(c)]
        PROVE  Forward
    <2>1. \A c \in Conn : [d \in Conn |-> Place(d)]'[c] = [d \in Conn |-> Place(d)][c]
          BY <1>3
    <2> QED BY <2>1
  <1>4. [Delivery!Next]_Delivery!vars => Forward
    <2>1. ASSUME UNCHANGED Delivery!vars
          PROVE  Forward
          BY <1>3, <2>1 DEF Delivery!vars
    <2>2. ASSUME NEW m \in Conn, Delivery!Answer(m)
          PROVE  Forward
          BY <1>3, <2>2 DEF Delivery!Answer
    <2>3. ASSUME NEW m \in Conn, Delivery!Move({m}, {"client"}, "memory")
          PROVE  Forward
          BY <1>1, <1>2, <2>3 DEF Delivery!Place
    <2>4. ASSUME NEW m \in Conn, Delivery!Move({m}, {"memory"}, "log")
          PROVE  Forward
          BY <1>1, <1>2, <2>4 DEF Delivery!Place
    <2>5. ASSUME NEW M \in SUBSET Conn, Delivery!Move(M, {"log"}, "indexed")
          PROVE  Forward
          BY <1>1, <1>2, <2>5 DEF Delivery!Place
    <2>6. ASSUME NEW M \in SUBSET Conn, Delivery!Move(M, {"memory", "log"}, "lost")
          PROVE  Forward
          BY <1>1, <1>2, <2>6 DEF Delivery!Place
    <2> HIDE DEF Forward
    <2> QED BY <2>1, <2>2, <2>3, <2>4, <2>5, <2>6 DEF Delivery!Next
  <1>5. [Delivery!Next]_Delivery!vars => [Forward]_vars
        BY <1>4
  <1> QED BY <1>5, ImplementsLogDeliveryHolds, PTL
          DEF ImplementsLogDelivery, Delivery!Spec, MessagesMoveForward
=============================================================================
