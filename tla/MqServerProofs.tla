--------------------------- MODULE MqServerProofs ---------------------------
(***************************************************************************)
(* Theorems about the buffer queue of MqServer.tla, for every set of       *)
(* payloads and every number of consumer threads.                          *)
(***************************************************************************)
EXTENDS MqServer, FiniteSetTheorems, SequenceTheorems, TLAPS

(***************************************************************************)
(* Sequences without duplicates: what Append, Head and Tail do to the set  *)
(* of their elements.                                                      *)
(***************************************************************************)

\* Append adds the element to the range.
LEMMA RangeAppend ==
    ASSUME NEW S, NEW s \in Seq(S), NEW e \in S
    PROVE  Range(Append(s, e)) = Range(s) \cup {e}
<1>1. Append(s, e) \in Seq(S) /\ Len(Append(s, e)) = Len(s) + 1
  OBVIOUS
<1>2. Append(s, e)[Len(s) + 1] = e
  OBVIOUS
<1>3. \A i \in 1..Len(s) : Append(s, e)[i] = s[i]
  OBVIOUS
<1>4. DOMAIN s = 1..Len(s) /\ DOMAIN Append(s, e) = 1..(Len(s) + 1) /\ Len(s) \in Nat
  BY <1>1, LenProperties
<1>5. 1..(Len(s) + 1) = 1..Len(s) \cup {Len(s) + 1}
  BY <1>4
<1> QED
  BY <1>2, <1>3, <1>4, <1>5 DEF Range

\* A nonempty sequence consists of its head and the elements of its tail.
LEMMA RangeHeadTail ==
    ASSUME NEW S, NEW s \in Seq(S), s # <<>>
    PROVE  Range(s) = {Head(s)} \cup Range(Tail(s))
<1>1. /\ Head(s) = s[1]
      /\ Tail(s) \in Seq(S)
      /\ Len(Tail(s)) = Len(s) - 1
      /\ \A i \in 1..Len(Tail(s)) : Tail(s)[i] = s[i + 1]
  BY HeadTailProperties
<1>2. /\ DOMAIN s = 1..Len(s)
      /\ DOMAIN Tail(s) = 1..(Len(s) - 1)
      /\ Len(s) \in Nat \ {0}
  BY <1>1, LenProperties, EmptySeq
<1>3. \A i \in 1..Len(s) : i = 1 \/ (i - 1 \in 1..(Len(s) - 1) /\ s[i] = Tail(s)[i - 1])
  BY <1>1, <1>2
<1>4. Range(s) \subseteq {Head(s)} \cup Range(Tail(s))
  <2>1. SUFFICES ASSUME NEW i \in 1..Len(s), i # 1
                 PROVE  s[i] \in Range(Tail(s))
    BY <1>1, <1>2 DEF Range
  <2>2. i - 1 \in DOMAIN Tail(s) /\ s[i] = Tail(s)[i - 1]
    BY <1>2, <1>3, <2>1
  <2> QED
    BY <2>2 DEF Range
<1>5. Range(Tail(s)) \subseteq Range(s)
  <2>1. \A i \in 1..(Len(s) - 1) : i + 1 \in 1..Len(s) /\ Tail(s)[i] = s[i + 1]
    BY <1>1, <1>2
  <2> QED
    BY <1>2, <2>1 DEF Range
<1>6. Head(s) \in Range(s)
  <2>1. 1 \in DOMAIN s
    BY <1>2
  <2> QED
    BY <1>1, <2>1 DEF Range
<1> QED
  BY <1>4, <1>5, <1>6

\* Appending a new element keeps a sequence free of duplicates.
LEMMA InjectiveAppend ==
    ASSUME NEW S, NEW s \in Seq(S), NEW e \in S, IsInjective(s), e \notin Range(s)
    PROVE  IsInjective(Append(s, e))
<1>1. /\ DOMAIN s = 1..Len(s)
      /\ DOMAIN Append(s, e) = 1..(Len(s) + 1)
      /\ Len(s) \in Nat
  BY LenProperties
<1>2. \A i \in 1..Len(s) : Append(s, e)[i] = s[i] /\ s[i] # e
  BY <1>1 DEF Range
<1>3. Append(s, e)[Len(s) + 1] = e
  OBVIOUS
<1> QED
  BY <1>1, <1>2, <1>3 DEF IsInjective

\* Taking the head of a sequence without duplicates takes the element away.
LEMMA InjectiveTail ==
    ASSUME NEW S, NEW s \in Seq(S), s # <<>>, IsInjective(s)
    PROVE  IsInjective(Tail(s)) /\ Head(s) \notin Range(Tail(s))
<1>1. /\ Head(s) = s[1]
      /\ Tail(s) \in Seq(S)
      /\ Len(Tail(s)) = Len(s) - 1
      /\ \A i \in 1..Len(Tail(s)) : Tail(s)[i] = s[i + 1]
  BY HeadTailProperties
<1>2. /\ DOMAIN s = 1..Len(s)
      /\ DOMAIN Tail(s) = 1..(Len(s) - 1)
      /\ Len(s) \in Nat \ {0}
  BY <1>1, LenProperties, EmptySeq
<1>3. \A i \in 1..(Len(s) - 1) : i + 1 \in 1..Len(s) /\ Tail(s)[i] = s[i + 1]
  BY <1>1, <1>2
<1> QED
  BY <1>1, <1>2, <1>3 DEF IsInjective, Range

(***************************************************************************)
(* What a thread that takes or gives up a payload does to the set Held.    *)
(***************************************************************************)

\* An idle thread that takes p adds p to the payloads in the threads' hands.
LEMMA TakeHeld ==
    ASSUME held \in [Thread -> Payload \cup {None}],
           NEW t \in Thread, held[t] = None,
           NEW p \in Payload, held' = [held EXCEPT ![t] = p]
    PROVE  Held' = Held \cup {p}
BY PayloadAssumption DEF Held

\* When no other thread holds the same payload, releasing it removes it.
LEMMA ReleaseHeld ==
    ASSUME held \in [Thread -> Payload \cup {None}],
           \A t, u \in Thread : held[t] = held[u] => t = u \/ held[t] = None,
           NEW t \in Thread, held[t] # None,
           held' = [held EXCEPT ![t] = None]
    PROVE  Held' = Held \ {held[t]}
BY DEF Held

-----------------------------------------------------------------------------
(***************************************************************************)
(* Type correctness                                                        *)
(***************************************************************************)

\* TypeOK holds initially and no operation of the queue, of a consumer thread
\* or of the Kafka client breaks it.
THEOREM TypeCorrect == Spec => []TypeOK
<1>1. Init => TypeOK
  <2>1. <<>> \in Seq(Payload) /\ <<>> \in Seq(Parsable)
    OBVIOUS
  <2> QED
    BY <2>1 DEF Init, TypeOK
<1>2. TypeOK /\ [Next]_vars => TypeOK'
  <2> SUFFICES ASSUME TypeOK, [Next]_vars
               PROVE  TypeOK'
    OBVIOUS
  <2> USE PayloadAssumption DEF TypeOK, process
  <2>1. CASE CreateQueue
    BY <2>1 DEF CreateQueue
  <2>2. ASSUME NEW t \in Thread, StartThread(t)
        PROVE  TypeOK'
    BY <2>2 DEF StartThread
  <2>3. ASSUME NEW p \in Payload, Offer(p)
        PROVE  TypeOK'
    BY <2>3 DEF Offer
  <2>4. ASSUME NEW t \in Thread, Poll(t)
        PROVE  TypeOK'
    <3>1. Head(mq) \in Payload /\ Tail(mq) \in Seq(Payload)
      BY <2>4, HeadTailProperties DEF Poll
    <3> QED
      BY <2>4, <3>1 DEF Poll
  <2>5. ASSUME NEW t \in Thread, Spin(t)
        PROVE  TypeOK'
    BY <2>5 DEF Spin, vars
  <2>6. ASSUME NEW t \in Thread, Send(t)
        PROVE  TypeOK'
    BY <2>6 DEF Send
  <2>7. ASSUME NEW t \in Thread, Drop(t)
        PROVE  TypeOK'
    BY <2>7 DEF Drop
  <2>8. CASE Transmit
    BY <2>8, HeadTailProperties DEF Transmit
  <2>9. CASE TransmitFails
    BY <2>9, HeadTailProperties DEF TransmitFails
  <2>10. CASE Crash
    <3>1. Range(mq) \subseteq Payload /\ Range(outbox) \subseteq Payload /\ Held \subseteq Payload
      BY DEF Range, Held
    <3>2. <<>> \in Seq(Payload) /\ <<>> \in Seq(Parsable)
      OBVIOUS
    <3> QED
      BY <2>10, <3>1, <3>2 DEF Crash
  <2>11. CASE UNCHANGED vars
    BY <2>11 DEF vars
  <2> QED
    BY <2>1, <2>2, <2>3, <2>4, <2>5, <2>6, <2>7, <2>8, <2>9, <2>10, <2>11 DEF Next
<1> QED
  BY <1>1, <1>2, PTL DEF Spec

-----------------------------------------------------------------------------
(***************************************************************************)
(* Conservation: every payload that was added is in exactly one place.     *)
(* With TypeOK the property is inductive as it stands.                     *)
(***************************************************************************)

\* No step of a consumer thread, a listener, the Kafka client or a crash
\* loses a payload without recording it or leaves it in two places.
LEMMA ConservationStep ==
    ASSUME TypeOK, Conservation, [Next]_vars
    PROVE  Conservation'
<1> USE PayloadAssumption DEF TypeOK, process
<1>a. /\ Range(mq) \subseteq Payload
      /\ Range(outbox) \subseteq Payload
      /\ Held \subseteq Payload
  BY DEF Range, Held
<1>1. CASE CreateQueue
  BY <1>1 DEF CreateQueue, Conservation, NoCopies, Disjoint, Held, Arrived
<1>2. ASSUME NEW t \in Thread, StartThread(t)
      PROVE  Conservation'
  BY <1>2 DEF StartThread, Conservation, NoCopies, Disjoint, Held, Arrived
<1>3. ASSUME NEW p \in Payload, Offer(p)
      PROVE  Conservation'
  <2>1. p \notin Range(mq) \cup Held \cup Range(outbox) \cup Range(topic) \cup lost
    BY <1>3 DEF Offer, Conservation
  <2>2. Range(mq') = Range(mq) \cup {p} /\ Arrived' = Arrived \cup {p}
    BY <1>3, RangeAppend DEF Offer, Arrived
  <2>3. IsInjective(mq') /\ IsInjective(arrivals')
    BY <1>3, <2>1, InjectiveAppend DEF Offer, Arrived, Conservation, NoCopies
  <2>4. UNCHANGED <<held, outbox, topic, lost>> /\ Held' = Held
    BY <1>3 DEF Offer, Held
  <2>5. NoCopies'
    BY <2>3, <2>4 DEF Conservation, NoCopies
  <2> QED
    BY <2>1, <2>2, <2>4, <2>5 DEF Conservation, Disjoint
<1>4. ASSUME NEW t \in Thread, Poll(t)
      PROVE  Conservation'
  <2> DEFINE p == Head(mq)
  <2>1. /\ p \in Payload
        /\ Range(mq) = {p} \cup Range(mq')
        /\ p \notin Range(mq')
        /\ IsInjective(mq')
    <3>1. mq \in Seq(Payload) /\ mq # <<>> /\ mq' = Tail(mq) /\ IsInjective(mq)
      BY <1>4 DEF Poll, Conservation, NoCopies
    <3> QED
      BY <3>1, HeadTailProperties, RangeHeadTail, InjectiveTail
  <2>2. held' = [held EXCEPT ![t] = p] /\ held[t] = None
    BY <1>4 DEF Poll
  <2>3. UNCHANGED <<outbox, topic, lost, arrivals>>
    BY <1>4 DEF Poll
  <2>4. Held' = Held \cup {p}
    BY <2>1, <2>2, TakeHeld
  <2>5. NoCopies'
    <3>1. \A u \in Thread : held[u] # p
      BY <2>1 DEF Conservation, Disjoint, Held
    <3> QED
      BY <2>1, <2>2, <2>3, <3>1 DEF Conservation, NoCopies
  <2> QED
    BY <2>1, <2>3, <2>4, <2>5 DEF Conservation, Disjoint, Arrived
<1>5. ASSUME NEW t \in Thread, Spin(t)
      PROVE  Conservation'
  BY <1>5 DEF Spin, vars, Conservation, NoCopies, Disjoint, Held, Arrived
<1>6. ASSUME NEW t \in Thread, Send(t)
      PROVE  Conservation'
  <2> DEFINE p == held[t]
  <2>1. p \in Parsable /\ p # None /\ p \in Held /\ p \notin Range(outbox)
    BY <1>6 DEF Send, Held, Conservation, Disjoint
  <2>2. Range(outbox') = Range(outbox) \cup {p} /\ IsInjective(outbox')
    BY <1>6, <2>1, RangeAppend, InjectiveAppend DEF Send, Conservation, NoCopies
  <2>3. Held' = Held \ {p}
    BY <1>6, <2>1, ReleaseHeld DEF Send, Conservation, NoCopies
  <2>4. UNCHANGED <<mq, topic, lost, arrivals>>
    BY <1>6 DEF Send
  <2>5. NoCopies'
    BY <1>6, <2>2, <2>4 DEF Send, Conservation, NoCopies
  <2> QED
    BY <2>1, <2>2, <2>3, <2>4, <2>5 DEF Conservation, Disjoint, Arrived
<1>7. ASSUME NEW t \in Thread, Drop(t)
      PROVE  Conservation'
  <2> DEFINE p == held[t]
  <2>1. p # None /\ p \in Held
    BY <1>7 DEF Drop, Held
  <2>2. Held' = Held \ {p}
    BY <1>7, <2>1, ReleaseHeld DEF Drop, Conservation, NoCopies
  <2>3. UNCHANGED <<mq, outbox, topic, arrivals>> /\ lost' = lost \cup {p}
    BY <1>7 DEF Drop
  <2>4. NoCopies'
    BY <1>7, <2>3 DEF Drop, Conservation, NoCopies
  <2> QED
    BY <2>1, <2>2, <2>3, <2>4 DEF Conservation, Disjoint, Arrived
<1>8. ASSUME outbox # <<>>
      PROVE  /\ Head(outbox) \in Parsable
             /\ Range(outbox) = {Head(outbox)} \cup Range(Tail(outbox))
             /\ Head(outbox) \notin Range(Tail(outbox))
             /\ IsInjective(Tail(outbox))
  BY <1>8, HeadTailProperties, RangeHeadTail, InjectiveTail DEF Conservation, NoCopies
<1>9. CASE Transmit
  <2> DEFINE p == Head(outbox)
  <2>1. UNCHANGED <<mq, held, lost, arrivals>> /\ Held' = Held /\ outbox' = Tail(outbox)
    BY <1>9 DEF Transmit, Held
  <2>2. p \notin Range(topic)
    BY <1>8, <1>9 DEF Transmit, Conservation, Disjoint
  <2>3. Range(topic') = Range(topic) \cup {p} /\ IsInjective(topic')
    BY <1>8, <1>9, <2>2, RangeAppend, InjectiveAppend DEF Transmit, Conservation, NoCopies
  <2>4. NoCopies'
    BY <1>8, <1>9, <2>1, <2>3 DEF Transmit, Conservation, NoCopies
  <2> QED
    BY <1>8, <1>9, <2>1, <2>3, <2>4 DEF Transmit, Conservation, Disjoint, Arrived
<1>10. CASE TransmitFails
  <2>1. /\ UNCHANGED <<mq, held, topic, arrivals>>
        /\ Held' = Held
        /\ outbox' = Tail(outbox)
        /\ lost' = lost \cup {Head(outbox)}
    BY <1>10 DEF TransmitFails, Held
  <2>2. NoCopies'
    BY <1>8, <1>10, <2>1 DEF TransmitFails, Conservation, NoCopies
  <2> QED
    BY <1>8, <1>10, <2>1, <2>2 DEF TransmitFails, Conservation, Disjoint, Arrived
<1>11. CASE Crash
  <2>1. mq' = <<>> /\ outbox' = <<>> /\ Held' = {} /\ UNCHANGED <<topic, arrivals>>
    BY <1>11 DEF Crash, Held
  <2>2. Range(mq') = {} /\ Range(outbox') = {} /\ IsInjective(mq') /\ IsInjective(outbox')
    BY <2>1 DEF Range, IsInjective
  <2>3. NoCopies'
    BY <1>11, <2>1, <2>2 DEF Crash, Conservation, NoCopies
  <2> QED
    BY <1>11, <2>1, <2>2, <2>3 DEF Crash, Conservation, Disjoint, Arrived
<1>12. CASE UNCHANGED vars
  BY <1>12 DEF vars, Conservation, NoCopies, Disjoint, Held, Arrived
<1> QED
  BY <1>1, <1>2, <1>3, <1>4, <1>5, <1>6, <1>7, <1>9, <1>10, <1>11, <1>12 DEF Next

\* Conservation is an invariant: concurrent polls and crashes neither lose a
\* payload silently nor send it twice.
THEOREM ConservationHolds == Spec => []Conservation
<1>1. Init => Conservation
  <2>1. ASSUME Init
        PROVE  /\ Range(<<>>) = {}
               /\ IsInjective(<<>>)
               /\ Held = {}
    BY <2>1 DEF Init, Range, IsInjective, Held
  <2> QED
    BY <2>1 DEF Init, Conservation, NoCopies, Disjoint, Arrived
<1>2. TypeOK /\ Conservation /\ [Next]_vars => Conservation'
  BY ConservationStep
<1> QED
  BY <1>1, <1>2, TypeCorrect, PTL DEF Spec

-----------------------------------------------------------------------------
(***************************************************************************)
(* Order of the queue                                                      *)
(***************************************************************************)

\* Only Offer and Poll touch the two ends of the queue, and both keep it the
\* youngest part of the arrivals.
LEMMA QueueInOrderStep ==
    ASSUME TypeOK, QueueInOrder, [Next]_vars
    PROVE  QueueInOrder'
<1> USE DEF TypeOK
<1>1. mq \in Seq(Payload) /\ arrivals \in Seq(Payload) /\ Len(mq) \in Nat /\ Len(arrivals) \in Nat
  OBVIOUS
<1>2. ASSUME UNCHANGED <<mq, arrivals>>
      PROVE  QueueInOrder'
  BY <1>2 DEF QueueInOrder
<1>3. ASSUME NEW p \in Payload, Offer(p)
      PROVE  QueueInOrder'
  <2>1. mq' = Append(mq, p) /\ arrivals' = Append(arrivals, p)
    BY <1>3 DEF Offer
  <2>2. Len(mq') = Len(mq) + 1 /\ Len(arrivals') = Len(arrivals) + 1
    BY <2>1
  <2>3. ASSUME NEW i \in 1..Len(mq')
        PROVE  mq'[i] = arrivals'[Len(arrivals') - Len(mq') + i]
    <3>1. CASE i = Len(mq) + 1
      <4>1. mq'[i] = p /\ arrivals'[Len(arrivals) + 1] = p
        BY <2>1, <3>1
      <4>2. Len(arrivals') - Len(mq') + i = Len(arrivals) + 1
        BY <1>1, <2>2, <3>1
      <4> QED
        BY <4>1, <4>2
    <3>2. CASE i # Len(mq) + 1
      <4>1. i \in 1..Len(mq)
        BY <1>1, <2>2, <3>2
      <4> DEFINE j == Len(arrivals) - Len(mq) + i
      <4>2. j \in 1..Len(arrivals) /\ mq[i] = arrivals[j]
        BY <1>1, <4>1 DEF QueueInOrder
      <4>3. mq'[i] = mq[i] /\ arrivals'[j] = arrivals[j]
        BY <2>1, <4>1, <4>2
      <4>4. Len(arrivals') - Len(mq') + i = j
        BY <1>1, <2>2
      <4> QED
        BY <4>2, <4>3, <4>4
    <3> QED
      BY <3>1, <3>2
  <2> QED
    BY <1>1, <2>2, <2>3 DEF QueueInOrder
<1>4. ASSUME NEW t \in Thread, Poll(t)
      PROVE  QueueInOrder'
  <2>1. mq # <<>> /\ mq' = Tail(mq) /\ arrivals' = arrivals
    BY <1>4 DEF Poll
  <2>2. Len(mq') = Len(mq) - 1 /\ \A i \in 1..Len(mq') : mq'[i] = mq[i + 1]
    BY <2>1, HeadTailProperties
  <2>3. ASSUME NEW i \in 1..Len(mq')
        PROVE  mq'[i] = arrivals'[Len(arrivals') - Len(mq') + i]
    <3>1. i + 1 \in 1..Len(mq)
      BY <1>1, <2>2
    <3>2. Len(arrivals') - Len(mq') + i = Len(arrivals) - Len(mq) + (i + 1)
      BY <1>1, <2>1, <2>2
    <3> QED
      BY <2>1, <2>2, <3>1, <3>2 DEF QueueInOrder
  <2> QED
    BY <1>1, <2>1, <2>2, <2>3 DEF QueueInOrder
<1>5. CASE Crash
  BY <1>1, <1>5 DEF Crash, QueueInOrder
<1> QED
  BY <1>2, <1>3, <1>4, <1>5
     DEF Next, CreateQueue, StartThread, Spin, Send, Drop, Transmit, TransmitFails, vars

\* In every reachable state the queue holds the youngest arrivals, oldest first.
THEOREM QueueInOrderHolds == Spec => []QueueInOrder
<1>1. Init => QueueInOrder
  BY DEF Init, QueueInOrder
<1>2. TypeOK /\ QueueInOrder /\ [Next]_vars => QueueInOrder'
  BY QueueInOrderStep
<1> QED
  BY <1>1, <1>2, TypeCorrect, PTL DEF Spec

-----------------------------------------------------------------------------
(***************************************************************************)
(* Order of the records                                                    *)
(***************************************************************************)

InWritten(q) == \E i \in 1..Len(Written) : Written[i] = q
WrittenBefore(q, p) ==
    \E i, j \in 1..Len(Written) : i < j /\ Written[i] = q /\ Written[j] = p

\* The payloads that record q overtook, and those in the threads' hands that
\* it may still overtake.
Late(q) == {p \in Payload : Before(p, q) /\ (p \in Held \/ WrittenBefore(q, p))}

\* Inductive, because a payload enters Late(q) only when q is written: then it
\* is in the hands of another thread.  Overtaken alone grows with every send.
LateInv ==
    \A q \in Payload :
        InWritten(q) => IsFiniteSet(Late(q)) /\ Cardinality(Late(q)) < Cardinality(Thread)

OrderInv == TypeOK /\ Conservation /\ QueueInOrder /\ LateInv

\* A part of a small set is small.
LEMMA SmallPart ==
    ASSUME NEW S, NEW T, IsFiniteSet(S), Cardinality(S) < Cardinality(Thread), T \subseteq S
    PROVE  IsFiniteSet(T) /\ Cardinality(T) < Cardinality(Thread)
<1>1. IsFiniteSet(T) /\ Cardinality(T) <= Cardinality(S)
  BY FS_Subset
<1>2. Cardinality(T) \in Nat /\ Cardinality(S) \in Nat /\ Cardinality(Thread) \in Nat
  BY <1>1, FS_CardinalityType, ThreadAssumption
<1> QED
  BY <1>1, <1>2

\* When one thread has nothing in its hands, fewer payloads than threads are held.
LEMMA HeldByOthers ==
    ASSUME NEW h \in [Thread -> Payload \cup {None}], NEW t \in Thread, h[t] = None
    PROVE  LET H == {h[u] : u \in Thread} \ {None}
           IN  IsFiniteSet(H) /\ Cardinality(H) < Cardinality(Thread)
<1> DEFINE H == {h[u] : u \in Thread} \ {None}
           f == [p \in H |-> CHOOSE u \in Thread : h[u] = p]
           T == Thread \ {t}
<1>1. \A p \in H : f[p] \in Thread /\ h[f[p]] = p
  OBVIOUS
<1>2. f \in [H -> T]
  BY <1>1
<1>3. f \in Injection(H, T)
  BY <1>1, <1>2 DEF Injection, IsInjective
<1>4. IsFiniteSet(T) /\ Cardinality(T) = Cardinality(Thread) - 1
  BY ThreadAssumption, FS_RemoveElement
<1> HIDE DEF f, T, H
<1>5. IsFiniteSet(H) /\ Cardinality(H) <= Cardinality(T)
  BY <1>3, <1>4, FS_Injection
<1>6. Cardinality(H) \in Nat /\ Cardinality(T) \in Nat /\ Cardinality(Thread) \in Nat
  BY <1>4, <1>5, FS_CardinalityType, ThreadAssumption
<1> QED
  BY <1>4, <1>5, <1>6 DEF H

\* The records, by position.
LEMMA WrittenAt ==
    ASSUME NEW a \in Seq(Parsable), NEW b \in Seq(Parsable)
    PROVE  /\ Len(a) \in Nat /\ Len(b) \in Nat
           /\ Len(a \o b) = Len(a) + Len(b)
           /\ \A i \in 1..Len(a) : (a \o b)[i] = a[i]
           /\ \A i \in 1..Len(b) : (a \o b)[Len(a) + i] = b[i]
           /\ a \o b \in Seq(Parsable)
OBVIOUS

\* A step after which no record and no place has more that is late.
LEMMA LateShrinks ==
    ASSUME LateInv,
           \A q \in Payload : InWritten(q)' => InWritten(q) /\ Late(q)' \subseteq Late(q)
    PROVE  LateInv'
<1> SUFFICES ASSUME NEW q \in Payload, InWritten(q)'
             PROVE  IsFiniteSet(Late(q)') /\ Cardinality(Late(q)') < Cardinality(Thread)
  BY DEF LateInv
<1>1. /\ IsFiniteSet(Late(q)) /\ Cardinality(Late(q)) < Cardinality(Thread)
      /\ Late(q)' \subseteq Late(q)
  BY DEF LateInv
<1> HIDE DEF Late
<1> QED
  BY <1>1, SmallPart

\* Records may disappear, the others keep their order: m[i] is where the i-th
\* record was before.
LEMMA RecordsFade ==
    ASSUME LateInv, arrivals' = arrivals, Held' \subseteq Held,
           NEW m \in [1..Len(Written') -> 1..Len(Written)],
           \A i \in 1..Len(Written') : Written'[i] = Written[m[i]],
           \A i, j \in 1..Len(Written') : i < j => m[i] < m[j]
    PROVE  LateInv'
<1>1. \A q : InWritten(q)' => InWritten(q)
  BY DEF InWritten
<1>2. \A p, q : WrittenBefore(q, p)' => WrittenBefore(q, p)
  BY DEF WrittenBefore
<1>3. \A p, q : Before(p, q)' => Before(p, q)
  BY DEF Before
<1>4. \A q \in Payload : Late(q)' \subseteq Late(q)
  BY <1>2, <1>3 DEF Late
<1> QED
  BY <1>1, <1>4, LateShrinks

\* Nothing changes for the records.
LEMMA RecordsStay ==
    ASSUME LateInv, TypeOK, arrivals' = arrivals, Held' \subseteq Held, Written' = Written
    PROVE  LateInv'
<1> DEFINE m == [i \in 1..Len(Written') |-> i]
<1>1. m \in [1..Len(Written') -> 1..Len(Written)]
  OBVIOUS
<1>2. \A i, j \in 1..Len(Written') : Written'[i] = Written[m[i]] /\ (i < j => m[i] < m[j])
  OBVIOUS
<1> HIDE DEF m
<1> QED
  BY <1>1, <1>2, RecordsFade

\* Records are in the log or in the Kafka client's memory.
LEMMA WrittenWhere ==
    ASSUME TypeOK, NEW q, InWritten(q)
    PROVE  q \in Range(topic) \cup Range(outbox)
<1>1. topic \in Seq(Parsable) /\ outbox \in Seq(Parsable)
  BY DEF TypeOK
<1>2. PICK i \in 1..Len(Written) : Written[i] = q
  BY DEF InWritten
<1>3. CASE i \in 1..Len(topic)
  BY <1>1, <1>2, <1>3, WrittenAt DEF Written, Range
<1>4. CASE i \notin 1..Len(topic)
  <2>1. i - Len(topic) \in 1..Len(outbox)
    BY <1>1, <1>2, <1>4, WrittenAt DEF Written
  <2>2. q = outbox[i - Len(topic)]
    BY <1>1, <1>2, <2>1, WrittenAt DEF Written
  <2> QED
    BY <1>1, <2>1, <2>2 DEF Range
<1> QED
  BY <1>3, <1>4

\* A new payload comes after all records.
LEMMA OfferLate ==
    ASSUME OrderInv, NEW p \in Payload, Offer(p)
    PROVE  LateInv'
<1>1. /\ arrivals \in Seq(Payload) /\ arrivals' = Append(arrivals, p) /\ p \notin Arrived
      /\ Held' = Held /\ Written' = Written
  BY DEF OrderInv, TypeOK, Offer, Held, Written
<1>2. \A q : InWritten(q)' <=> InWritten(q)
  BY <1>1 DEF InWritten
<1>3. \A q \in Payload : InWritten(q) => q # p
  BY <1>1, WrittenWhere DEF OrderInv, Conservation
<1>4. \A q, r : q # p /\ Before(r, q)' => Before(r, q)
  <2> SUFFICES ASSUME NEW q, NEW r, q # p, Before(r, q)'
               PROVE  Before(r, q)
    OBVIOUS
  <2>1. PICK i, j \in 1..Len(arrivals') : i < j /\ arrivals'[i] = r /\ arrivals'[j] = q
    BY DEF Before
  <2>2. Len(arrivals') = Len(arrivals) + 1 /\ arrivals'[Len(arrivals) + 1] = p
    BY <1>1
  <2>3. j # Len(arrivals) + 1
    BY <2>1, <2>2
  <2>4. i \in 1..Len(arrivals) /\ j \in 1..Len(arrivals)
    BY <1>1, <2>1, <2>2, <2>3
  <2>5. arrivals'[i] = arrivals[i] /\ arrivals'[j] = arrivals[j]
    BY <1>1, <2>4
  <2> QED
    BY <2>1, <2>4, <2>5 DEF Before
<1>5. \A q, r : WrittenBefore(q, r)' <=> WrittenBefore(q, r)
  BY <1>1 DEF WrittenBefore
<1>6. \A q \in Payload : InWritten(q)' => InWritten(q) /\ Late(q)' \subseteq Late(q)
  BY <1>1, <1>2, <1>3, <1>4, <1>5 DEF Late
<1> QED
  BY <1>6, LateShrinks DEF OrderInv

\* What a thread polls arrived after all payloads that are written already.
LEMMA PollLate ==
    ASSUME OrderInv, NEW t \in Thread, Poll(t)
    PROVE  LateInv'
<1> DEFINE p == Head(mq)
           n == Len(arrivals) - Len(mq)
<1>1. /\ mq \in Seq(Payload) /\ mq # <<>> /\ arrivals \in Seq(Payload)
      /\ arrivals' = arrivals /\ Written' = Written
      /\ held \in [Thread -> Payload \cup {None}] /\ held[t] = None
      /\ held' = [held EXCEPT ![t] = p]
  BY DEF OrderInv, TypeOK, Poll, Written
<1>2. p \in Payload /\ p = mq[1] /\ Len(mq) \in Nat \ {0} /\ Len(arrivals) \in Nat
  BY <1>1
<1>3. Held' = Held \cup {p}
  BY <1>1, <1>2, TakeHeld
<1>4. n \in Nat /\ \A i \in 1..Len(mq) : mq[i] = arrivals[n + i]
  BY <1>2 DEF OrderInv, QueueInOrder
<1>5. ASSUME NEW q \in Payload, InWritten(q)
      PROVE  ~Before(p, q)
  <2> SUFFICES ASSUME NEW i \in 1..Len(arrivals), NEW j \in 1..Len(arrivals), i < j,
                      arrivals[i] = p, arrivals[j] = q
               PROVE  FALSE
    BY DEF Before
  <2>1. DOMAIN arrivals = 1..Len(arrivals) /\ DOMAIN mq = 1..Len(mq)
    BY <1>1
  <2>2. p = arrivals[n + 1] /\ n + 1 \in 1..Len(arrivals)
    BY <1>2, <1>4
  <2>3. i = n + 1
    BY <2>1, <2>2 DEF OrderInv, Conservation, NoCopies, IsInjective
  <2>4. j - n \in 1..Len(mq) /\ q = mq[j - n]
    <3> DEFINE k == j - n
    <3> HIDE DEF p
    <3>1. k \in 1..Len(mq) /\ n + k = j
      BY <1>2, <1>4, <2>3
    <3>2. mq[k] = arrivals[n + k]
      BY <1>4, <3>1
    <3> QED
      BY <3>1, <3>2
  <2>5. q \in Range(mq)
    BY <2>1, <2>4 DEF Range
  <2>6. q \in Range(topic) \cup Range(outbox)
    BY <1>5, WrittenWhere DEF OrderInv
  <2> QED
    BY <2>5, <2>6 DEF OrderInv, Conservation, Disjoint
<1>6. \A q : InWritten(q)' <=> InWritten(q)
  BY <1>1 DEF InWritten
<1>7. \A q, r : (WrittenBefore(q, r)' <=> WrittenBefore(q, r)) /\ (Before(r, q)' <=> Before(r, q))
  BY <1>1 DEF WrittenBefore, Before
<1> HIDE DEF p
<1>8. \A q \in Payload : InWritten(q)' => InWritten(q) /\ Late(q)' \subseteq Late(q)
  BY <1>3, <1>5, <1>6, <1>7 DEF Late
<1> QED
  BY <1>8, LateShrinks DEF OrderInv

\* The new record may overtake what the other threads hold; for the records
\* before it, it was late already.
LEMMA SendLate ==
    ASSUME OrderInv, NEW t \in Thread, Send(t)
    PROVE  LateInv'
<1> DEFINE p == held[t]
<1>1. /\ topic \in Seq(Parsable) /\ outbox \in Seq(Parsable) /\ p \in Parsable
      /\ topic' = topic /\ outbox' = Append(outbox, p) /\ arrivals' = arrivals
      /\ held \in [Thread -> Payload \cup {None}] /\ held' = [held EXCEPT ![t] = None]
  BY DEF OrderInv, TypeOK, Send
<1>2. p \in Payload /\ p # None
  BY <1>1, PayloadAssumption
<1>3. p \in Held /\ Held' \subseteq Held
  BY <1>1, <1>2 DEF Held
<1>4. /\ Written \in Seq(Parsable) /\ Written' = Append(Written, p)
      /\ Len(Written) \in Nat /\ Len(Written') = Len(Written) + 1
      /\ Written'[Len(Written) + 1] = p
      /\ \A i \in 1..Len(Written) : Written'[i] = Written[i]
  <2>1. Written \in Seq(Parsable)
    BY <1>1 DEF Written
  <2>2. Written' = Append(Written, p)
    BY <1>1 DEF Written
  <2> QED
    BY <1>1, <2>1, <2>2
<1>5. \A q, r : Before(r, q)' <=> Before(r, q)
  BY <1>1 DEF Before
<1> HIDE DEF p
<1>6. ASSUME NEW q \in Payload, InWritten(q)
      PROVE  IsFiniteSet(Late(q)') /\ Cardinality(Late(q)') < Cardinality(Thread)
  <2>1. ASSUME NEW r, WrittenBefore(q, r)'
        PROVE  WrittenBefore(q, r) \/ r = p
    BY <1>4, <2>1 DEF WrittenBefore
  <2>2. Late(q)' \subseteq Late(q)
    BY <1>2, <1>3, <1>5, <2>1 DEF Late
  <2>3. IsFiniteSet(Late(q)) /\ Cardinality(Late(q)) < Cardinality(Thread)
    BY <1>6 DEF OrderInv, LateInv
  <2> HIDE DEF Late
  <2> QED
    BY <2>2, <2>3, SmallPart
<1>7. ASSUME NEW q \in Payload, InWritten(q)', ~InWritten(q)
      PROVE  IsFiniteSet(Late(q)') /\ Cardinality(Late(q)') < Cardinality(Thread)
  <2>1. \A i \in 1..Len(Written) : Written'[i] # q
    BY <1>4, <1>7 DEF InWritten
  <2>2. \A r : ~WrittenBefore(q, r)'
    BY <1>4, <2>1 DEF WrittenBefore
  <2>3. Late(q)' \subseteq Held'
    BY <2>2 DEF Late
  <2>4. held' \in [Thread -> Payload \cup {None}] /\ held'[t] = None
    BY <1>1
  <2>5. IsFiniteSet(Held') /\ Cardinality(Held') < Cardinality(Thread)
    BY <2>4, HeldByOthers DEF Held
  <2> HIDE DEF Late, Held
  <2> QED
    BY <2>3, <2>5, SmallPart
<1> QED
  BY <1>6, <1>7 DEF LateInv

\* The log and the client's memory, seen together, keep their order.
LEMMA TransmitLate ==
    ASSUME OrderInv, Transmit
    PROVE  LateInv'
<1>1. /\ topic \in Seq(Parsable) /\ outbox \in Seq(Parsable) /\ outbox # <<>>
      /\ topic' = Append(topic, Head(outbox)) /\ outbox' = Tail(outbox)
      /\ arrivals' = arrivals /\ Held' = Held
  BY DEF OrderInv, TypeOK, Transmit, Held
<1>2. Written' = Written
  BY <1>1 DEF Written
<1> QED
  BY <1>1, <1>2, RecordsStay DEF OrderInv

LEMMA TransmitFailsLate ==
    ASSUME OrderInv, TransmitFails
    PROVE  LateInv'
<1>1. /\ topic \in Seq(Parsable) /\ outbox \in Seq(Parsable) /\ outbox # <<>>
      /\ topic' = topic /\ outbox' = Tail(outbox) /\ outbox' \in Seq(Parsable)
      /\ arrivals' = arrivals /\ Held' = Held
  BY DEF OrderInv, TypeOK, TransmitFails, Held
<1>2. /\ Len(outbox') = Len(outbox) - 1 /\ Len(outbox) \in Nat \ {0} /\ Len(topic) \in Nat
      /\ \A i \in 1..Len(outbox') : outbox'[i] = outbox[i + 1]
  BY <1>1, HeadTailProperties
<1>3. /\ Len(Written) = Len(topic) + Len(outbox)
      /\ \A i \in 1..Len(topic) : Written[i] = topic[i]
      /\ \A i \in 1..Len(outbox) : Written[Len(topic) + i] = outbox[i]
  BY <1>1, WrittenAt DEF Written
<1>4. /\ Len(Written') = Len(topic) + Len(outbox')
      /\ \A i \in 1..Len(topic) : Written'[i] = topic[i]
      /\ \A i \in 1..Len(outbox') : Written'[Len(topic) + i] = outbox'[i]
  BY <1>1, WrittenAt DEF Written
<1> DEFINE m == [i \in 1..Len(Written') |-> IF i <= Len(topic) THEN i ELSE i + 1]
<1>5. m \in [1..Len(Written') -> 1..Len(Written)]
  BY <1>2, <1>3, <1>4
<1>6. \A i, j \in 1..Len(Written') : i < j => m[i] < m[j]
  BY <1>2, <1>4
<1>7. ASSUME NEW i \in 1..Len(Written')
      PROVE  Written'[i] = Written[m[i]]
  <2>1. CASE i <= Len(topic)
    BY <1>2, <1>3, <1>4, <2>1
  <2>2. CASE ~(i <= Len(topic))
    <3> DEFINE k == i - Len(topic)
    <3>1. k \in 1..Len(outbox') /\ k + 1 \in 1..Len(outbox) /\ i = Len(topic) + k
      BY <1>2, <1>4, <2>2
    <3>2. m[i] = Len(topic) + (k + 1)
      BY <1>2, <2>2, <3>1
    <3> HIDE DEF m, k
    <3>3. Written'[i] = outbox'[k] /\ outbox'[k] = outbox[k + 1]
      BY <1>2, <1>4, <3>1
    <3>4. Written[m[i]] = outbox[k + 1]
      BY <1>3, <3>1, <3>2
    <3> QED
      BY <3>3, <3>4
  <2> QED
    BY <2>1, <2>2
<1> HIDE DEF m
<1> QED
  BY <1>1, <1>5, <1>6, <1>7, RecordsFade DEF OrderInv

\* Only the log survives a crash, and no thread holds anything.
LEMMA CrashLate ==
    ASSUME OrderInv, Crash
    PROVE  LateInv'
<1>1. /\ topic \in Seq(Parsable) /\ outbox \in Seq(Parsable)
      /\ topic' = topic /\ outbox' = <<>> /\ arrivals' = arrivals
      /\ held' = [t \in Thread |-> None]
  BY DEF OrderInv, TypeOK, Crash
<1>2. Held' \subseteq Held
  BY <1>1 DEF Held
<1>3. Written' = topic
  BY <1>1 DEF Written
<1>4. /\ Len(topic) \in Nat /\ Len(outbox) \in Nat /\ Len(Written) = Len(topic) + Len(outbox)
      /\ \A i \in 1..Len(topic) : Written[i] = topic[i]
  BY <1>1, WrittenAt DEF Written
<1> DEFINE m == [i \in 1..Len(topic) |-> i]
<1>5. /\ m \in [1..Len(topic) -> 1..Len(Written)]
      /\ \A i \in 1..Len(topic) : topic[i] = Written[m[i]]
      /\ \A i, j \in 1..Len(topic) : i < j => m[i] < m[j]
  BY <1>4
<1> HIDE DEF m
<1> QED
  BY <1>1, <1>2, <1>3, <1>5, RecordsFade DEF OrderInv

LEMMA LateStep ==
    ASSUME OrderInv, [Next]_vars
    PROVE  LateInv'
<1>1. ASSUME Held' = Held, UNCHANGED <<arrivals, topic, outbox>>
      PROVE  LateInv'
  BY <1>1, RecordsStay DEF OrderInv, Written
<1>2. CASE CreateQueue
  BY <1>1, <1>2 DEF CreateQueue, Held
<1>3. ASSUME NEW t \in Thread, StartThread(t) \/ Spin(t)
      PROVE  LateInv'
  BY <1>1, <1>3 DEF StartThread, Spin, vars, Held
<1>4. ASSUME NEW t \in Thread, Drop(t)
      PROVE  LateInv'
  <2>1. Held' \subseteq Held /\ UNCHANGED <<arrivals, topic, outbox>>
    BY <1>4 DEF Drop, Held, OrderInv, TypeOK
  <2> QED
    BY <2>1, RecordsStay DEF OrderInv, Written
<1>5. CASE UNCHANGED vars
  BY <1>1, <1>5 DEF vars, Held
<1> QED
  BY <1>2, <1>3, <1>4, <1>5, OfferLate, PollLate, SendLate, TransmitLate, TransmitFailsLate,
     CrashLate DEF Next

\* Records leave their order of arrival only as far as the race between poll
\* and send allows: each overtakes less payloads than there are threads.
THEOREM OvertakingBoundedHolds == Spec => []OvertakingBounded
<1>1. Init => LateInv
  BY DEF Init, LateInv, InWritten, Written
<1>2. OrderInv /\ [Next]_vars => LateInv'
  BY LateStep
<1>3. TypeOK /\ LateInv => OvertakingBounded
  <2> SUFFICES ASSUME TypeOK, LateInv, NEW k \in 1..Len(Written)
               PROVE  Cardinality(Overtaken(k)) < Cardinality(Thread)
    BY DEF OvertakingBounded
  <2> DEFINE q == Written[k]
  <2>1. Written \in Seq(Parsable)
    BY DEF TypeOK, Written
  <2>2. q \in Payload /\ \A i \in 1..Len(Written) : Written[i] \in Payload
    BY <2>1, PayloadAssumption
  <2>3. InWritten(q)
    BY DEF InWritten
  <2>4. Overtaken(k) \subseteq Late(q)
    BY <2>1, <2>2 DEF Overtaken, Late, WrittenBefore
  <2> HIDE DEF q
  <2>5. IsFiniteSet(Late(q)) /\ Cardinality(Late(q)) < Cardinality(Thread)
    BY <2>2, <2>3 DEF LateInv
  <2> QED
    BY <2>4, <2>5, SmallPart
<1>4. TypeOK /\ Conservation /\ QueueInOrder /\ LateInv => OrderInv
  BY DEF OrderInv
<1> QED
  BY <1>1, <1>2, <1>3, <1>4, TypeCorrect, ConservationHolds, QueueInOrderHolds, PTL DEF Spec

\* With a single consumer thread the records keep their order of arrival: no
\* payload is written before one that arrived earlier.
THEOREM SingleThreadKeepsOrder ==
    ASSUME Cardinality(Thread) = 1
    PROVE  Spec => [](\A k \in 1..Len(Written) : Overtaken(k) = {})
<1> DEFINE InOrder == \A k \in 1..Len(Written) : Overtaken(k) = {}
<1>1. TypeOK /\ OvertakingBounded => InOrder
  <2> SUFFICES ASSUME TypeOK, OvertakingBounded, NEW k \in 1..Len(Written)
               PROVE  Overtaken(k) = {}
    OBVIOUS
  <2>1. Len(Written) \in Nat
    BY WrittenAt DEF TypeOK, Written
  <2> DEFINE N == {n \in k+1..Len(Written) : Before(Written[n], Written[k])}
             record == [n \in N |-> Written[n]]
  <2>2. IsFiniteSet(N)
    <3>1. IsFiniteSet(k+1..Len(Written))
      BY <2>1, FS_Interval
    <3> QED
      BY <3>1, FS_Subset
  <2>3. IsFiniteSet(Overtaken(k))
    <3>1. record \in Surjection(N, Overtaken(k))
      BY DEF Surjection, Overtaken
    <3> QED
      BY <2>2, <3>1, FS_Surjection
  <2>4. Cardinality(Overtaken(k)) < 1
    BY DEF OvertakingBounded
  <2> HIDE DEF Overtaken
  <2> QED
    BY <2>3, <2>4, FS_CardinalityType, FS_EmptySet
<1> QED
  BY <1>1, TypeCorrect, OvertakingBoundedHolds, PTL

(***************************************************************************)
(* The queue and the threads' buffers implement LogQueue.                  *)
(***************************************************************************)

LEMMA InitImplements == Init => Promise!Init
  BY DEF Init, Promise!Init

\* A listener puts, a poll takes, both ways of being done with a payload finish
\* and a crash is the stop; what happens behind the threads is not seen.
LEMMA StepImplements ==
    ASSUME TypeOK, Next
    PROVE  [Promise!Next]_<<mq, held>>
<1>1. held \in [Thread -> Payload \cup {None}]
  BY DEF TypeOK
<1>2. ASSUME NEW p \in Payload, Offer(p)
      PROVE  Promise!Next
  BY <1>2 DEF Offer, Promise!Put, Promise!Next
<1>3. ASSUME NEW t \in Thread, Poll(t)
      PROVE  Promise!Next
  BY <1>3 DEF Poll, Promise!Take, Promise!Next
<1>4. ASSUME NEW t \in Thread, Send(t) \/ Drop(t)
      PROVE  Promise!Next
  <2>1. held[t] # None
    BY <1>4, PayloadAssumption DEF Send, Drop
  <2>2. Promise!Finish(t)
    BY <1>4, <2>1 DEF Send, Drop, Promise!Finish
  <2> QED
    BY <2>2 DEF Promise!Next
<1>5. CASE Crash
  BY <1>5 DEF Crash, Promise!Stop, Promise!Next
<1>6. ASSUME NEW t \in Thread, StartThread(t) \/ Spin(t)
      PROVE  UNCHANGED <<mq, held>>
  BY <1>6 DEF StartThread, Spin, vars
<1>7. CASE CreateQueue \/ Transmit \/ TransmitFails
  BY <1>7 DEF CreateQueue, Transmit, TransmitFails
<1> QED
  BY <1>2, <1>3, <1>4, <1>5, <1>6, <1>7 DEF Next

\* The threads race for the queue, drop and crash, and yet the listeners have a
\* queue with readers: the oldest payload goes first, and to one thread alone.
THEOREM ImplementsLogQueueHolds == Spec => ImplementsLogQueue
<1>1. TypeOK /\ [Next]_vars => [Promise!Next]_Promise!vars
  <2>1. CASE UNCHANGED vars
    BY <2>1 DEF vars, Promise!vars
  <2>2. ASSUME TypeOK, Next
        PROVE  [Promise!Next]_Promise!vars
    BY <2>2, StepImplements DEF Promise!vars
  <2> QED
    BY <2>1, <2>2
<1> QED
  BY <1>1, InitImplements, TypeCorrect, PTL DEF Spec, ImplementsLogQueue, Promise!Spec
=============================================================================
