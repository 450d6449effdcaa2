-------------------------- MODULE UdpServerProofs ---------------------------
(***************************************************************************)
(* Proofs about UdpServer, for any datagrams, size limit, bound and number *)
(* of consumer threads.                                                    *)
(***************************************************************************)
EXTENDS UdpServer, SequenceTheorems, TLAPS

\* From its allocation until it is added, nobody but the listener has the buffer.
OwnInv ==
    pc # "new" => /\ Len(heap) > 0
                  /\ \A t \in Thread : held[t] # buffer
                  /\ \A i \in 1..Len(mq) : mq[i] # buffer

\* The listener's buffer is empty, and then holds the datagram received last.
BufferInv ==
    /\ pc = "receive" => heap[buffer] = NewBuffer
    /\ pc = "add" => /\ Len(receipts) > 0
                     /\ heap[buffer] = Received(receipts[Len(receipts)])

IInv == TypeOK /\ OwnInv /\ BufferInv /\ PayloadsAreReceipts

-----------------------------------------------------------------------------
(* Facts about the data *)

LEMMA Lengths ==
    ASSUME TypeOK
    PROVE  Len(heap) \in Nat /\ Len(mq) \in Nat /\ Len(receipts) \in Nat
  BY LenProperties DEF TypeOK

\* References in the queue are to live buffers.
LEMMA References ==
    ASSUME TypeOK, NEW i \in 1..Len(mq)
    PROVE  mq[i] \in 1..Len(heap) /\ heap[mq[i]] \in Buffer
  <1>1. mq[i] \in 1..Len(heap)
        BY ElementOfSeq DEF TypeOK
  <1> QED BY <1>1, ElementOfSeq DEF TypeOK

LEMMA ReceivedType == \A m \in Msg : Received(m) \in Buffer
  BY DEF Received, Buffer

\* The buffers behind a sequence of references are a sequence of that length.
LEMMA BuffersBehind ==
    ASSUME NEW h \in Seq(Buffer), NEW q \in Seq(1..Len(h)),
           NEW w, w = [i \in 1..Len(q) |-> h[q[i]]]
    PROVE  /\ w \in Seq(Buffer) /\ Len(w) = Len(q)
           /\ \A i \in 1..Len(q) : w[i] = h[q[i]]
  <1>1. \A i \in 1..Len(q) : q[i] \in 1..Len(h)
        BY ElementOfSeq
  <1>2. w \in [1..Len(q) -> Buffer]
        BY <1>1, ElementOfSeq
  <1>3. Len(q) \in Nat
        BY LenProperties
  <1>4. w \in Seq(Buffer)
        BY <1>2, <1>3, SeqDef
  <1>5. DOMAIN w = 1..Len(q) /\ DOMAIN w = 1..Len(w) /\ Len(w) \in Nat
        BY <1>2, <1>4, LenProperties
  <1>6. Len(w) = Len(q)
        BY <1>3, <1>5
  <1> QED BY <1>4, <1>6

\* What taking the head of the queue does.
LEMMA QueueHeadTail ==
    ASSUME TypeOK, mq # <<>>
    PROVE  /\ Len(mq) > 0 /\ Head(mq) = mq[1] /\ Head(mq) \in 1..Len(heap)
           /\ Tail(mq) \in Seq(1..Len(heap)) /\ Len(Tail(mq)) = Len(mq) - 1
           /\ \A i \in 1..Len(mq) - 1 : Tail(mq)[i] = mq[i + 1]
  BY HeadTailProperties, EmptySeq DEF TypeOK

\* The buffer that receive() fills holds the datagram, cut and padded.
LEMMA ReceiveFills ==
    ASSUME TypeOK, OwnInv, BufferInv, NEW m \in Msg, Receive(m)
    PROVE  /\ heap' \in Seq(Buffer) /\ Len(heap') = Len(heap)
           /\ heap'[Len(heap)] = Received(m)
           /\ \A r \in 1..Len(heap) : r # Len(heap) => heap'[r] = heap[r]
  <1>1. Len(heap) \in 1..Len(heap)
        BY Lengths DEF OwnInv, Receive
  <1>2. heap' = [heap EXCEPT ![Len(heap)] =
                   [i \in 1..Size |-> IF i <= Length[m] THEN m ELSE heap[Len(heap)][i]]]
        BY DEF Receive, buffer
  <1>3. [i \in 1..Size |-> IF i <= Length[m] THEN m ELSE heap[Len(heap)][i]] = Received(m)
        BY DEF Received, BufferInv, NewBuffer, Receive, buffer
  <1>4. heap' = [heap EXCEPT ![Len(heap)] = Received(m)]
        BY <1>2, <1>3
  <1> QED BY <1>1, <1>4, ReceivedType, ExceptSeq DEF TypeOK

-----------------------------------------------------------------------------

LEMMA InitInv == Init => IInv
  BY DEF Init, IInv, TypeOK, OwnInv, BufferInv, PayloadsAreReceipts

LEMMA NextInv == IInv /\ [Next]_vars => IInv'
  <1> SUFFICES ASSUME TypeOK, OwnInv, BufferInv, PayloadsAreReceipts, [Next]_vars PROVE IInv'
      BY DEF IInv
  <1>0. Len(heap) \in Nat /\ Len(mq) \in Nat /\ Len(receipts) \in Nat
        BY Lengths
  <1>r. \A i \in 1..Len(mq) : mq[i] \in 1..Len(heap)
        BY References
  <1> USE DEF IInv, OwnInv, BufferInv, PayloadsAreReceipts, buffer
  <1>1. ASSUME NEW m \in Msg, Transmit(m) \/ Vanish(m) PROVE IInv'
        BY <1>1 DEF Transmit, Vanish, TypeOK
  <1>2. CASE Allocate
    <2>1. /\ pc = "new" /\ pc' = "receive" /\ heap' = Append(heap, NewBuffer)
          /\ net' = net /\ mq' = mq /\ held' = held /\ receipts' = receipts
          BY <1>2 DEF Allocate
    <2>2. NewBuffer \in Buffer
          BY DEF NewBuffer, Buffer
    <2>3. /\ heap' \in Seq(Buffer) /\ Len(heap') = Len(heap) + 1
          /\ heap'[Len(heap) + 1] = NewBuffer
          /\ \A r \in 1..Len(heap) : heap'[r] = heap[r]
          BY <2>1, <2>2 DEF TypeOK
    <2>4. mq' \in Seq(1..Len(heap'))
          BY <1>0, <2>1, <2>3, SeqMonotonic DEF TypeOK
    <2>5. TypeOK'
          BY <1>0, <2>1, <2>3, <2>4 DEF TypeOK
    <2>6. OwnInv'
          BY <1>0, <1>r, <2>1, <2>3 DEF TypeOK
    <2>7. BufferInv' /\ PayloadsAreReceipts'
          BY <1>0, <1>r, <2>1, <2>3
    <2> QED BY <2>5, <2>6, <2>7
  <1>3. ASSUME NEW m \in Msg, Receive(m) PROVE IInv'
    <2>1. /\ pc = "receive" /\ pc' = "add" /\ receipts' = Append(receipts, m)
          /\ net' \in {net, net \ {m}} /\ mq' = mq /\ held' = held
          BY <1>3 DEF Receive
    <2>2. /\ heap' \in Seq(Buffer) /\ Len(heap') = Len(heap)
          /\ heap'[Len(heap)] = Received(m)
          /\ \A r \in 1..Len(heap) : r # Len(heap) => heap'[r] = heap[r]
          BY <1>3, ReceiveFills
    <2>3. /\ receipts' \in Seq(Msg) /\ Len(receipts') = Len(receipts) + 1
          /\ receipts'[Len(receipts) + 1] = m
          /\ \A i \in 1..Len(receipts) : receipts'[i] = receipts[i]
          BY <2>1 DEF TypeOK
    <2>4. TypeOK'
          BY <2>1, <2>2, <2>3 DEF TypeOK
    <2>5. OwnInv' /\ BufferInv'
          BY <1>0, <2>1, <2>2, <2>3
    <2>6. PayloadsAreReceipts'
      <3>1. \A i \in 1..Len(mq) : heap'[mq[i]] = heap[mq[i]]
            BY <1>r, <2>1, <2>2
      <3>2. /\ Len(mq) <= Len(receipts)
            /\ \A i \in 1..Len(mq) : heap[mq[i]] = Received(receipts[Len(receipts) - Len(mq) + i])
            BY <1>0, <2>1
      <3>3. \A i \in 1..Len(mq) : Len(receipts) - Len(mq) + i \in 1..Len(receipts)
            BY <1>0, <3>2
      <3>4. \A i \in 1..Len(mq) :
              heap'[mq[i]] = Received(receipts'[Len(receipts) - Len(mq) + i])
            BY <2>3, <3>1, <3>2, <3>3
      <3>5. Len(receipts') - (IF pc' = "add" THEN 1 ELSE 0) = Len(receipts)
            BY <1>0, <2>1, <2>3
      <3> QED BY <2>1, <3>2, <3>4, <3>5 DEF Received
    <2> QED BY <2>4, <2>5, <2>6
  <1>4. CASE ReceiveThrows
        BY <1>0, <1>4 DEF ReceiveThrows, TypeOK
  <1>5. CASE Add
    <2>1. /\ pc = "add" /\ pc' = "new" /\ mq' = Append(mq, Len(heap)) /\ Len(heap) > 0
          /\ net' = net /\ heap' = heap /\ held' = held /\ receipts' = receipts
          BY <1>5 DEF Add
    <2>2. Len(heap) \in 1..Len(heap)
          BY <1>0, <2>1
    <2>3. /\ mq' \in Seq(1..Len(heap)) /\ Len(mq') = Len(mq) + 1
          /\ mq'[Len(mq) + 1] = Len(heap)
          /\ \A i \in 1..Len(mq) : mq'[i] = mq[i]
          BY <2>1, <2>2 DEF TypeOK
    <2>4. TypeOK'
          BY <2>1, <2>3 DEF TypeOK
    <2>5. PayloadsAreReceipts'
      <3>1. /\ Len(mq) <= Len(receipts) - 1 /\ heap[Len(heap)] = Received(receipts[Len(receipts)])
            /\ \A i \in 1..Len(mq) :
                 heap[mq[i]] = Received(receipts[Len(receipts) - 1 - Len(mq) + i])
            BY <1>0, <2>1
      <3> SUFFICES ASSUME NEW i \in 1..Len(mq) + 1
                   PROVE  heap[mq'[i]] = Received(receipts[Len(receipts) - (Len(mq) + 1) + i])
          BY <1>0, <2>1, <2>3, <3>1 DEF Received
      <3>2. CASE i = Len(mq) + 1
        <4>1. Len(receipts) - (Len(mq) + 1) + i = Len(receipts)
              BY <1>0, <3>2
        <4> QED BY <2>3, <3>1, <3>2, <4>1
      <3>3. CASE i # Len(mq) + 1
        <4>1. /\ i \in 1..Len(mq)
              /\ Len(receipts) - (Len(mq) + 1) + i = Len(receipts) - 1 - Len(mq) + i
              BY <1>0, <3>3
        <4> QED BY <2>3, <3>1, <4>1
      <3> QED BY <3>2, <3>3
    <2> QED BY <2>1, <2>4, <2>5
  <1>6. ASSUME NEW t \in Thread, Poll(t) PROVE IInv'
    <2>1. /\ mq # <<>> /\ held' = [held EXCEPT ![t] = Head(mq)] /\ mq' = Tail(mq)
          /\ net' = net /\ heap' = heap /\ pc' = pc /\ receipts' = receipts
          BY <1>6 DEF Poll
    <2>2. /\ Len(mq) > 0 /\ Head(mq) = mq[1] /\ Head(mq) \in 1..Len(heap)
          /\ Tail(mq) \in Seq(1..Len(heap)) /\ Len(Tail(mq)) = Len(mq) - 1
          /\ \A i \in 1..Len(mq) - 1 : Tail(mq)[i] = mq[i + 1]
          BY <2>1, QueueHeadTail
    <2>3. TypeOK'
          BY <1>0, <2>1, <2>2 DEF TypeOK
    <2>4. \A i \in 1..Len(mq') : i + 1 \in 1..Len(mq) /\ mq'[i] = mq[i + 1]
          BY <1>0, <2>1, <2>2
    <2>5. OwnInv' /\ BufferInv'
          BY <1>0, <2>1, <2>2, <2>4 DEF TypeOK
    <2>6. PayloadsAreReceipts'
      <3> DEFINE n == Len(receipts) - (IF pc = "add" THEN 1 ELSE 0)
      <3>1. n \in Int /\ Len(mq) <= n
            BY <1>0
      <3>2. \A i \in 1..Len(mq') : n - Len(mq') + i = n - Len(mq) + (i + 1)
            BY <1>0, <2>1, <2>2, <3>1
      <3>3. \A i \in 1..Len(mq') : heap[mq'[i]] = Received(receipts[n - Len(mq') + i])
            BY <2>4, <3>2
      <3>4. Len(mq') <= n
            BY <1>0, <2>1, <2>2, <3>1
      <3> QED BY <2>1, <3>3, <3>4 DEF Received
    <2> QED BY <2>3, <2>5, <2>6
  <1>7. ASSUME NEW t \in Thread, Parse(t) PROVE IInv'
        BY <1>0, <1>7 DEF Parse, TypeOK
  <1>8. CASE UNCHANGED vars
        BY <1>8 DEF vars, TypeOK
  <1> QED BY <1>1, <1>2, <1>3, <1>4, <1>5, <1>6, <1>7, <1>8 DEF Next

LEMMA Invariance == Spec => []IInv
  <1> QED BY InitInv, NextInv, PTL DEF Spec

-----------------------------------------------------------------------------
(* The queue of references implements the queue of values. *)

\* As long as the references stay and the buffers behind them too, nothing is
\* seen from outside.
LEMMA Unseen ==
    ASSUME TypeOK, mq' = mq, held' = held,
           \A i \in 1..Len(mq) : heap'[mq[i]] = heap[mq[i]],
           \A t \in Thread : held[t] # 0 => heap'[held[t]] = heap[held[t]]
    PROVE  UNCHANGED Promise!vars
  <1>1. Waiting' = Waiting
        BY DEF Waiting
  <1>2. InHand' = InHand
        BY DEF InHand
  <1> QED BY <1>1, <1>2 DEF Promise!vars

\* Adding the reference puts the payload behind it.
LEMMA AddPuts ==
    ASSUME IInv, IInv', Add
    PROVE  \E v \in {Received(m) : m \in Msg} : Promise!Put(v)
  <1>1. /\ pc = "add" /\ mq' = Append(mq, Len(heap)) /\ Len(heap) > 0
        /\ heap' = heap /\ held' = held
        BY DEF Add, IInv, OwnInv, buffer
  <1>2. Len(heap) \in Nat /\ Len(mq) \in Nat /\ Len(receipts) \in Nat
        BY Lengths DEF IInv
  <1>3. /\ Len(mq') = Len(mq) + 1 /\ mq'[Len(mq) + 1] = Len(heap)
        /\ \A i \in 1..Len(mq) : mq'[i] = mq[i]
        BY <1>1 DEF IInv, TypeOK
  <1>4. PICK m \in Msg : heap[Len(heap)] = Received(m)
    <2>1. Len(receipts) \in 1..Len(receipts) /\ heap[Len(heap)] = Received(receipts[Len(receipts)])
          BY <1>1, <1>2 DEF IInv, BufferInv, buffer
    <2>2. receipts[Len(receipts)] \in Msg
          BY <2>1, ElementOfSeq DEF IInv, TypeOK
    <2> QED BY <2>1, <2>2
  <1>5. Received(m) \in Buffer
        BY ReceivedType
  <1>6. /\ Waiting \in Seq(Buffer) /\ Len(Waiting) = Len(mq)
        /\ \A i \in 1..Len(mq) : Waiting[i] = heap[mq[i]]
        BY BuffersBehind DEF IInv, TypeOK, Waiting
  <1>7. /\ Waiting' \in Seq(Buffer) /\ Len(Waiting') = Len(mq')
        /\ \A i \in 1..Len(mq') : Waiting'[i] = heap'[mq'[i]]
        BY BuffersBehind DEF IInv, TypeOK, Waiting
  <1>8. Append(Waiting, Received(m)) \in Seq(Buffer) /\ Len(Append(Waiting, Received(m))) = Len(mq) + 1
        BY <1>5, <1>6
  <1>9. \A i \in 1..Len(mq) + 1 : Waiting'[i] = Append(Waiting, Received(m))[i]
        BY <1>1, <1>2, <1>3, <1>4, <1>5, <1>6, <1>7
  <1>10. Waiting' = Append(Waiting, Received(m))
        BY <1>3, <1>7, <1>8, <1>9, SeqEqual
  <1>11. InHand' = InHand
        BY <1>1 DEF InHand
  <1> QED BY <1>10, <1>11 DEF Promise!Put

\* Polling a reference takes the payload behind it.
LEMMA PollTakes ==
    ASSUME IInv, IInv', NEW t \in Thread, Poll(t)
    PROVE  Promise!Take(t)
  <1>1. /\ held[t] = 0 /\ held' = [held EXCEPT ![t] = Head(mq)]
        /\ mq # <<>> /\ mq' = Tail(mq) /\ heap' = heap
        BY DEF Poll
  <1>2. /\ Len(mq) > 0 /\ Head(mq) = mq[1] /\ Head(mq) \in 1..Len(heap)
        /\ Tail(mq) \in Seq(1..Len(heap)) /\ Len(Tail(mq)) = Len(mq) - 1
        /\ \A i \in 1..Len(mq) - 1 : Tail(mq)[i] = mq[i + 1]
        BY <1>1, QueueHeadTail DEF IInv
  <1>3. Len(mq) \in Nat
        BY Lengths DEF IInv
  <1>4. /\ Waiting \in Seq(Buffer) /\ Len(Waiting) = Len(mq)
        /\ \A i \in 1..Len(mq) : Waiting[i] = heap[mq[i]]
        BY BuffersBehind DEF IInv, TypeOK, Waiting
  <1>5. /\ Waiting' \in Seq(Buffer) /\ Len(Waiting') = Len(mq')
        /\ \A i \in 1..Len(mq') : Waiting'[i] = heap'[mq'[i]]
        BY BuffersBehind DEF IInv, TypeOK, Waiting
  <1>6. Waiting # <<>> /\ Head(Waiting) = heap[Head(mq)]
        BY <1>2, <1>3, <1>4
  <1>7. /\ Tail(Waiting) \in Seq(Buffer) /\ Len(Tail(Waiting)) = Len(mq) - 1
        /\ \A i \in 1..Len(mq) - 1 : Tail(Waiting)[i] = Waiting[i + 1]
        BY <1>4, <1>6, HeadTailProperties
  <1>8. \A i \in 1..Len(mq) - 1 : Waiting'[i] = Tail(Waiting)[i]
        BY <1>1, <1>2, <1>3, <1>4, <1>5, <1>7 DEF IInv
  <1>9. Waiting' = Tail(Waiting)
        BY <1>1, <1>2, <1>5, <1>7, <1>8, SeqEqual DEF IInv
  <1>10. held' = [held EXCEPT ![t] = Head(mq)] /\ held \in [Thread -> 0..Len(heap)]
        BY <1>1 DEF IInv, TypeOK
  <1>11. Head(mq) # 0 /\ Head(Waiting) = heap'[Head(mq)]
        BY <1>1, <1>2, <1>6, Lengths DEF IInv
  <1>12. \A u \in Thread : held'[u] = IF u = t THEN Head(mq) ELSE held[u]
        BY <1>10
  <1>13. \A u \in Thread :
           InHand'[u] = IF u = t THEN Head(Waiting) ELSE InHand[u]
        BY <1>1, <1>11, <1>12 DEF InHand
  <1>14. InHand[t] = Zero
        BY <1>1 DEF InHand
  <1>15. /\ InHand' = [u \in Thread |-> InHand'[u]]
         /\ [InHand EXCEPT ![t] = Head(Waiting)]
              = [u \in Thread |-> IF u = t THEN Head(Waiting) ELSE InHand[u]]
        BY DEF InHand
  <1>16. InHand' = [InHand EXCEPT ![t] = Head(Waiting)]
        BY <1>13, <1>15
  <1> QED BY <1>6, <1>9, <1>14, <1>16 DEF Promise!Take

LEMMA InitImplements == Init => Promise!Init
  BY DEF Init, Promise!Init, Waiting, InHand

LEMMA NextImplements == IInv /\ IInv' /\ [Next]_vars => [Promise!Next]_(Promise!vars)
  <1> SUFFICES ASSUME IInv, IInv', [Next]_vars PROVE Promise!Next \/ UNCHANGED Promise!vars
      OBVIOUS
  <1>r. \A i \in 1..Len(mq) : mq[i] \in 1..Len(heap)
        BY References DEF IInv
  <1>t. TypeOK /\ held \in [Thread -> 0..Len(heap)] /\ Len(heap) \in Nat
        BY Lengths DEF IInv, TypeOK
  <1>1. CASE UNCHANGED <<heap, mq, held>>
        BY <1>1, <1>t, Unseen
  <1>2. CASE Allocate
    <2>1. /\ mq' = mq /\ held' = held /\ heap' = Append(heap, NewBuffer)
          BY <1>2 DEF Allocate
    <2>2. \A r \in 1..Len(heap) : heap'[r] = heap[r]
          BY <2>1, <1>t DEF TypeOK
    <2> QED BY <1>r, <1>t, <2>1, <2>2, Unseen
  <1>3. ASSUME NEW m \in Msg, Receive(m) PROVE UNCHANGED Promise!vars
    <2>1. mq' = mq /\ held' = held /\ pc # "new"
          BY <1>3 DEF Receive
    <2>2. \A r \in 1..Len(heap) : r # Len(heap) => heap'[r] = heap[r]
          BY <1>3, ReceiveFills DEF IInv
    <2>3. /\ \A t \in Thread : held[t] # Len(heap)
          /\ \A i \in 1..Len(mq) : mq[i] # Len(heap)
          BY <2>1 DEF IInv, OwnInv, buffer
    <2> QED BY <1>r, <1>t, <2>1, <2>2, <2>3, Unseen
  <1>4. CASE Add
        BY <1>4, AddPuts DEF Promise!Next
  <1>5. ASSUME NEW t \in Thread, Poll(t) PROVE Promise!Next
        BY <1>5, PollTakes DEF Promise!Next
  <1>6. ASSUME NEW t \in Thread, Parse(t) PROVE Promise!Next
    <2>1. held[t] # 0 /\ held' = [held EXCEPT ![t] = 0] /\ mq' = mq /\ heap' = heap
          BY <1>6 DEF Parse
    <2>2. heap[held[t]] \in Buffer
          BY <1>t, <2>1, ElementOfSeq DEF TypeOK
    <2>3. InHand[t] # Zero /\ InHand' = [InHand EXCEPT ![t] = Zero]
          BY <1>t, <2>1, <2>2, ZeroAssumption DEF InHand
    <2>4. Waiting' = Waiting
          BY <2>1 DEF Waiting
    <2> QED BY <2>3, <2>4 DEF Promise!Next, Promise!Finish
  <1>7. CASE \E m \in Msg : Transmit(m) \/ Vanish(m)
        BY <1>1, <1>7 DEF Transmit, Vanish
  <1>8. CASE ReceiveThrows \/ UNCHANGED vars
        BY <1>1, <1>8 DEF ReceiveThrows, vars
  <1> QED BY <1>2, <1>3, <1>4, <1>5, <1>6, <1>7, <1>8 DEF Next

-----------------------------------------------------------------------------
(* Theorems *)

\* References in the queue and in the consumer's hand are to live buffers, and
\* every buffer has the configured size.
THEOREM TypeCorrect == Spec => []TypeOK
  <1>1. IInv => TypeOK
        BY DEF IInv
  <1> QED BY <1>1, Invariance, PTL

\* The payloads in the queue are the datagrams received last, in order, cut to
\* the size limit and mixed with no other.
THEOREM PayloadsAreReceiptsHolds == Spec => []PayloadsAreReceipts
  <1>1. IInv => PayloadsAreReceipts
        BY DEF IInv
  <1> QED BY <1>1, Invariance, PTL

\* Handing over the buffer itself is as good as handing over a copy.
THEOREM ImplementsLogQueueHolds == Spec => ImplementsLogQueue
  <1> QED BY InitImplements, NextImplements, Invariance, PTL
          DEF Spec, ImplementsLogQueue, Promise!Spec
=============================================================================
