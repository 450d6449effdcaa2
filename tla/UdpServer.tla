----------------------------- MODULE UdpServer ------------------------------
(***************************************************************************)
(* server/UdpServer.java once it listens.  The listener thread allocates a *)
(* buffer, receives a datagram into it and puts the buffer itself, not a   *)
(* copy, into the queue, while the consumer threads of MqServer read       *)
(* buffers that they took earlier.  So buffers are objects on a heap and   *)
(* the queue holds references.  A byte is abstracted to the datagram it    *)
(* comes from.                                                             *)
(***************************************************************************)
EXTENDS Integers, Sequences, FiniteSets, Functions

CONSTANTS
    Msg,            \* the datagrams that clients may send
    Length,         \* Length[m]: bytes in datagram m
    Size,           \* udp.maxDataSize, in bytes
    Zero,           \* the byte a new buffer is filled with
    Thread,         \* the consumer threads, mq.threadNum of them
    MaxReceive      \* (bound) rounds of the receive loop

ASSUME MsgAssumption == Zero \notin Msg /\ Length \in [Msg -> Nat]
ASSUME SizeAssumption == Size \in Nat \ {0} /\ MaxReceive \in Nat

Buffer == [1..Size -> Msg \cup {Zero}]

\* A byte is no buffer.
ASSUME ZeroAssumption == Zero \notin Buffer

VARIABLES
    net,            \* the datagrams in flight
    heap,           \* heap[r]: contents of the buffer with reference r
    pc,             \* the next statement of the listener's loop
    mq,             \* MqServer.mq, references to buffers, head first
    held,           \* held[t]: the buffer thread t works on, 0 when it has none
    receipts        \* (history) the datagrams received, in order

vars == <<net, heap, pc, mq, held, receipts>>

buffer == Len(heap)     \* the listener's local variable: the newest buffer
NewBuffer == [i \in 1..Size |-> Zero]

Init ==
    /\ net = {}
    /\ heap = <<>>
    /\ pc = "new"
    /\ mq = <<>>
    /\ held = [t \in Thread |-> 0]
    /\ receipts = <<>>

-----------------------------------------------------------------------------
(* Operations with a plausible bug, for the mutation runs only. *)

\* One buffer is allocated before the loop and used for every datagram.
ReuseBuffer ==
    /\ pc = "new" /\ Len(heap) < MaxReceive
    /\ heap' = IF heap = <<>> THEN <<NewBuffer>> ELSE heap
    /\ pc' = "receive"
    /\ UNCHANGED <<net, mq, held, receipts>>

\* The buffer is put into the queue before the datagram is received into it.
AddFirst ==
    /\ pc = "new" /\ Len(heap) < MaxReceive
    /\ heap' = Append(heap, NewBuffer) /\ mq' = Append(mq, Len(heap'))
    /\ pc' = "receive"
    /\ UNCHANGED <<net, held, receipts>>

\* The length of the datagram is not checked against the buffer's.
ReceiveUncut(m) ==
    /\ pc = "receive" /\ m \in net /\ net' \in {net, net \ {m}}
    /\ heap' = [heap EXCEPT ![buffer] = [i \in 1..Length[m] |-> m]]
    /\ receipts' = Append(receipts, m) /\ pc' = "add"
    /\ UNCHANGED <<mq, held>>

-----------------------------------------------------------------------------
(* Clients and network: datagrams are lost, duplicated and reordered. *)

Transmit(m) ==
    /\ net' = net \cup {m}
    /\ UNCHANGED <<heap, pc, mq, held, receipts>>

Vanish(m) ==
    /\ net' = net \ {m}
    /\ UNCHANGED <<heap, pc, mq, held, receipts>>

-----------------------------------------------------------------------------
(* listenUdpMsg *)

\* new byte[size], filled with zeros, and the packet around it
Allocate ==
    /\ pc = "new"
    /\ Len(heap) < MaxReceive
    /\ heap' = Append(heap, NewBuffer)
    /\ pc' = "receive"
    /\ UNCHANGED <<net, mq, held, receipts>>

\* socket.receive(packet) writes the datagram over the front of the buffer and
\* drops the bytes that do not fit.  The network may have another copy.
Receive(m) ==
    /\ pc = "receive"
    /\ m \in net
    /\ net' \in {net, net \ {m}}
    /\ heap' = [heap EXCEPT ![buffer] = [i \in 1..Size |-> IF i <= Length[m] THEN m ELSE @[i]]]
    /\ receipts' = Append(receipts, m)
    /\ pc' = "add"
    /\ UNCHANGED <<mq, held>>

\* receive throws an IOException: printed, and the loop goes on.
ReceiveThrows ==
    /\ pc = "receive"
    /\ pc' = "new"
    /\ UNCHANGED <<net, heap, mq, held, receipts>>

\* MqServer.mq.add(packet.getData())
Add ==
    /\ pc = "add"
    /\ mq' = Append(mq, buffer)
    /\ pc' = "new"
    /\ UNCHANGED <<net, heap, held, receipts>>

-----------------------------------------------------------------------------
(* A consumer thread of MqServer *)

Poll(t) ==
    /\ held[t] = 0
    /\ mq # <<>>
    /\ held' = [held EXCEPT ![t] = Head(mq)]
    /\ mq' = Tail(mq)
    /\ UNCHANGED <<net, heap, pc, receipts>>

\* JSON.parse has read the buffer and the loop comes round again.
Parse(t) ==
    /\ held[t] # 0
    /\ held' = [held EXCEPT ![t] = 0]
    /\ UNCHANGED <<net, heap, pc, mq, receipts>>

Next ==
    \/ \E m \in Msg : Transmit(m) \/ Vanish(m) \/ Receive(m)
    \/ Allocate \/ ReceiveThrows \/ Add
    \/ \E t \in Thread : Poll(t) \/ Parse(t)

Spec == Init /\ [][Next]_vars

-----------------------------------------------------------------------------
(* Properties *)

\* Every variable holds a value of its type; references are to live buffers.
TypeOK ==
    /\ net \in SUBSET Msg
    /\ heap \in Seq(Buffer)
    /\ pc \in {"new", "receive", "add"}
    /\ mq \in Seq(1..Len(heap))
    /\ held \in [Thread -> 0..Len(heap)]
    /\ receipts \in Seq(Msg)

\* What is left of datagram m in a buffer of its own.
Received(m) == [i \in 1..Size |-> IF i <= Length[m] THEN m ELSE Zero]

\* The payloads behind the references: those in the queue, the consumers'.
Waiting == [i \in 1..Len(mq) |-> heap[mq[i]]]
InHand == [t \in Thread |-> IF held[t] = 0 THEN Zero ELSE heap[held[t]]]

\* The listener's buffer never changes under a consumer: seen from outside,
\* the queue of references behaves like a queue of immutable payloads.
Promise == INSTANCE LogQueue WITH
    Value <- {Received(m) : m \in Msg},
    NoValue <- Zero,
    Reader <- Thread,
    queue <- Waiting,
    hand <- InHand
ImplementsLogQueue == Promise!Spec

\* The payloads in the queue are the datagrams received last, each added
\* once, in the order of receipt, cut to Size bytes and mixed with no other.
PayloadsAreReceipts ==
    LET n == Len(receipts) - (IF pc = "add" THEN 1 ELSE 0) IN
    /\ Len(mq) <= n
    /\ \A i \in 1..Len(mq) : heap[mq[i]] = Received(receipts[n - Len(mq) + i])
=============================================================================
