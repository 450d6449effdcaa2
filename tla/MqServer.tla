------------------------------ MODULE MqServer ------------------------------
(***************************************************************************)
(* server/MqServer.java: the in-memory buffer queue between the listeners  *)
(* (TcpServer, UdpServer) and Kafka, and the threadNum consumer threads    *)
(* that drain it.  A payload is the byte[] of one request; only its        *)
(* identity and whether fastjson can parse it matter here, so each payload *)
(* arrives at most once.                                                   *)
(***************************************************************************)
EXTENDS Integers, Sequences, FiniteSets, Functions

CONSTANTS
    Payload,    \* the byte arrays that clients may send
    Parsable,   \* those that JSON.parse(buffer).toString() accepts
    Thread,     \* the consumer threads, mq.threadNum of them
    None        \* the null that poll() returns on an empty queue

ASSUME PayloadAssumption == Parsable \subseteq Payload /\ None \notin Payload
\* application.properties: mq.threadNum must be greater than 0.
ASSUME ThreadAssumption == IsFiniteSet(Thread) /\ Thread # {}

VARIABLES
    created,    \* is the static field mq not null
    started,    \* the consumer threads that were started
    mq,         \* the ConcurrentLinkedQueue, head first
    held,       \* held[t]: the local variable buffer of thread t, or None
    outbox,     \* records that send() left in the Kafka client's memory
    topic,      \* the records that reached the Kafka log
    lost,       \* payloads that are gone: dropped, never sent, or crashed
    arrivals    \* (history) the payloads added to mq, in order of arrival

process == <<created, started>>
vars == <<created, started, mq, held, outbox, topic, lost, arrivals>>

Init ==
    /\ created = FALSE
    /\ started = {}
    /\ mq = <<>>
    /\ held = [t \in Thread |-> None]
    /\ outbox = <<>>
    /\ topic = <<>>
    /\ lost = {}
    /\ arrivals = <<>>

Arrived == Range(arrivals)
Held == {held[t] : t \in Thread} \ {None}

-----------------------------------------------------------------------------
(* Operations with a plausible bug, for the mutation runs only. *)

\* The payload is put in front of the others.
OfferFirst(p) ==
    /\ created /\ p \notin Arrived
    /\ mq' = <<p>> \o mq /\ arrivals' = Append(arrivals, p)
    /\ UNCHANGED <<process, held, outbox, topic, lost>>

\* peek() in place of poll(): the payload stays for the next thread.
PollPeeks(t) ==
    /\ t \in started /\ held[t] = None /\ mq # <<>>
    /\ held' = [held EXCEPT ![t] = Head(mq)]
    /\ UNCHANGED <<process, mq, outbox, topic, lost, arrivals>>

\* The bytes are sent without JSON.parse.
SendUnparsed(t) ==
    /\ held[t] # None
    /\ outbox' = Append(outbox, held[t]) /\ held' = [held EXCEPT ![t] = None]
    /\ UNCHANGED <<process, mq, topic, lost, arrivals>>

\* The handler tries the same payload again.
DropRetries(t) == held[t] # None /\ UNCHANGED vars

-----------------------------------------------------------------------------
(* Operations *)

\* afterPropertiesSet: mq = new ConcurrentLinkedQueue<>()
CreateQueue ==
    /\ ~created
    /\ created' = TRUE
    /\ UNCHANGED <<started, mq, held, outbox, topic, lost, arrivals>>

\* afterPropertiesSet: the loop that starts the consumer threads
StartThread(t) ==
    /\ created
    /\ t \notin started
    /\ started' = started \cup {t}
    /\ UNCHANGED <<created, mq, held, outbox, topic, lost, arrivals>>

\* A listener thread adds the payload of a request; the queue has no bound.
Offer(p) ==
    /\ created
    /\ p \notin Arrived
    /\ mq' = Append(mq, p)
    /\ arrivals' = Append(arrivals, p)
    /\ UNCHANGED <<process, held, outbox, topic, lost>>

\* buffer = mq.poll() on a queue that is not empty
Poll(t) ==
    /\ t \in started
    /\ held[t] = None
    /\ mq # <<>>
    /\ held' = [held EXCEPT ![t] = Head(mq)]
    /\ mq' = Tail(mq)
    /\ UNCHANGED <<process, outbox, topic, lost, arrivals>>

\* poll() returned null: the thread goes round the loop again.
Spin(t) ==
    /\ t \in started
    /\ held[t] = None
    /\ mq = <<>>
    /\ UNCHANGED vars

\* The payload parses and kafkaTemplate.send hands it to the Kafka client,
\* whose future nobody looks at.
Send(t) ==
    /\ held[t] \in Parsable
    /\ outbox' = Append(outbox, held[t])
    /\ held' = [held EXCEPT ![t] = None]
    /\ UNCHANGED <<process, mq, topic, lost, arrivals>>

\* JSON.parse, toString or send throws; the handler prints, the payload is gone.
Drop(t) ==
    /\ held[t] # None
    /\ lost' = lost \cup {held[t]}
    /\ held' = [held EXCEPT ![t] = None]
    /\ UNCHANGED <<process, mq, outbox, topic, arrivals>>

Handle(t) == Send(t) \/ Drop(t)

\* The Kafka client's sender thread writes the oldest record to the log ...
Transmit ==
    /\ outbox # <<>>
    /\ topic' = Append(topic, Head(outbox))
    /\ outbox' = Tail(outbox)
    /\ UNCHANGED <<process, mq, held, lost, arrivals>>

\* ... or loses it: acks=0 asks for no answer and retries=0 for no second try.
TransmitFails ==
    /\ outbox # <<>>
    /\ lost' = lost \cup {Head(outbox)}
    /\ outbox' = Tail(outbox)
    /\ UNCHANGED <<process, mq, held, topic, arrivals>>

\* The process stops: everything that was only in its memory is gone.
Crash ==
    /\ created
    /\ lost' = lost \cup Range(mq) \cup Held \cup Range(outbox)
    /\ created' = FALSE
    /\ started' = {}
    /\ mq' = <<>>
    /\ held' = [t \in Thread |-> None]
    /\ outbox' = <<>>
    /\ UNCHANGED <<topic, arrivals>>

Next ==
    \/ CreateQueue
    \/ \E t \in Thread : StartThread(t) \/ Poll(t) \/ Spin(t) \/ Send(t) \/ Drop(t)
    \/ \E p \in Payload : Offer(p)
    \/ Transmit
    \/ TransmitFails
    \/ Crash

Spec == Init /\ [][Next]_vars

\* The main thread finishes afterPropertiesSet.  Polls of a lock-free queue
\* may keep failing for one thread but not for all; a thread that holds a
\* payload goes on; the Kafka client's sender thread runs.
Fairness ==
    /\ WF_vars(CreateQueue)
    /\ WF_vars(\E t \in Thread : StartThread(t))
    /\ WF_vars(\E t \in Thread : Poll(t))
    /\ \A t \in Thread : WF_vars(Handle(t))
    /\ WF_vars(Transmit \/ TransmitFails)

FairSpec == Spec /\ Fairness

-----------------------------------------------------------------------------
(* Properties *)

\* Every variable holds a value of its type; only started threads hold a
\* payload, and nothing lives in a process that has not created its queue.
TypeOK ==
    /\ created \in BOOLEAN
    /\ started \in SUBSET Thread
    /\ mq \in Seq(Payload)
    /\ held \in [Thread -> Payload \cup {None}]
    /\ outbox \in Seq(Parsable)
    /\ topic \in Seq(Parsable)
    /\ lost \in SUBSET Payload
    /\ arrivals \in Seq(Payload)
    /\ \A t \in Thread : held[t] # None => t \in started
    /\ ~created => started = {} /\ mq = <<>> /\ outbox = <<>>

\* No place holds a payload twice ...
NoCopies ==
    /\ IsInjective(mq)
    /\ IsInjective(outbox)
    /\ IsInjective(topic)
    /\ IsInjective(arrivals)
    /\ \A t, u \in Thread : held[t] = held[u] => t = u \/ held[t] = None

\* ... and no payload is in two places.
Disjoint ==
    /\ Range(mq) \cap (Held \cup Range(outbox) \cup Range(topic) \cup lost) = {}
    /\ Held \cap (Range(outbox) \cup Range(topic) \cup lost) = {}
    /\ Range(outbox) \cap (Range(topic) \cup lost) = {}
    /\ Range(topic) \cap lost = {}

\* Concurrent polls neither lose nor duplicate: whatever was added to the
\* queue is in exactly one place, so Kafka gets each payload at most once and
\* one that is not lost is still on its way.
Conservation ==
    /\ Arrived = Range(mq) \cup Held \cup Range(outbox) \cup Range(topic) \cup lost
    /\ NoCopies
    /\ Disjoint

\* The queue is the youngest part of what arrived, in order of arrival: a
\* payload leaves it only after all that arrived before it have left.
QueueInOrder ==
    /\ Len(mq) <= Len(arrivals)
    /\ \A i \in 1..Len(mq) : mq[i] = arrivals[Len(arrivals) - Len(mq) + i]

Before(p, q) ==
    \E i, j \in 1..Len(arrivals) : i < j /\ arrivals[i] = p /\ arrivals[j] = q

Written == topic \o outbox

\* The payloads that arrived before the k-th record but come after it.
Overtaken(k) ==
    {Written[m] : m \in {n \in k+1..Len(Written) : Before(Written[n], Written[k])}}

\* The threads race between poll and send, so records may leave their order
\* of arrival; but a record overtakes at most one payload for each of the
\* other threads, and with a single thread the order is kept.
OvertakingBounded ==
    \A k \in 1..Len(Written) : Cardinality(Overtaken(k)) < Cardinality(Thread)

\* Threads that race for a queue without a lock, that drop what they cannot
\* parse and die with the process are seen by the listeners as readers of a
\* queue: each poll takes the oldest payload, and for itself alone.
Promise == INSTANCE LogQueue WITH
    Value <- Payload, NoValue <- None, Reader <- Thread, queue <- mq, hand <- held
ImplementsLogQueue == Promise!Spec

\* A payload that was added to the queue does not stay in the process
\* forever: it reaches the Kafka log or is lost.
EveryPayloadSettles ==
    \A p \in Payload : p \in Arrived ~> p \in Range(topic) \cup lost

=============================================================================
