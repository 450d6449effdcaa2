-------------------------- MODULE TcpServerProofs ---------------------------
(***************************************************************************)
(* Proofs about TcpServer, for any connections, messages and limits.       *)
(***************************************************************************)
EXTENDS TcpServer, FiniteSetTheorems, TLAPS

\* What a payload in the queue says of the task that added it.
QueueInv ==
    /\ \A i, j \in 1..Len(mq) : mq[i].conn = mq[j].conn => i = j
    /\ \A i \in 1..Len(mq) :
         LET c == mq[i].conn IN
         /\ pc[c] \in {"reply", "done", "failed"}
         /\ c \in answered \cup reset \/ pc[c] = "reply"
    /\ \A c \in answered : \E i \in 1..Len(mq) : mq[i].conn = c
    /\ \A c \in Conn : pc[c] = "reply" => \E i \in 1..Len(mq) : mq[i].conn = c

\* A text is what its read() found, already before it is queued.
TextInv ==
    /\ TextIsDelivered
    /\ \A c \in Conn : pc[c] = "add" =>
         /\ text[c] <= delivered[c] /\ text[c] <= BeforeNul[c]
         /\ text[c] = 0 => BeforeNul[c] = 0 \/ (c \in closing /\ delivered[c] = 0)

\* A socket is open only while its task is not through with it.
OpenInv == open \subseteq {c \in Conn : pc[c] \in {"read", "add", "reply", "failed"}}

IInv == TypeOK /\ QueueInv /\ TextInv /\ OpenInv

-----------------------------------------------------------------------------

LEMMA InitInv == Init => IInv
  <1> SUFFICES ASSUME Init PROVE IInv
      OBVIOUS
  <1> USE DEF Init
  <1>1. TypeOK
        BY ConnAssumption, SizeAssumption DEF TypeOK, Step
  <1>2. QueueInv
        BY DEF QueueInv
  <1>3. TextInv
        BY DEF TextInv, TextIsDelivered
  <1>4. OpenInv
        BY DEF OpenInv
  <1> QED BY <1>1, <1>2, <1>3, <1>4 DEF IInv

\* What the copy loop takes is bounded by all three.
LEMMA CopiedBounds ==
    ASSUME delivered \in [Conn -> Nat], NEW c \in Conn
    PROVE  /\ Copied(c) \in Nat /\ Copied(c) <= Size
           /\ Copied(c) <= delivered[c] /\ Copied(c) <= BeforeNul[c]
           /\ Copied(c) \in {delivered[c], Size, BeforeNul[c]}
  <1>1. delivered[c] \in Nat /\ BeforeNul[c] \in Nat /\ Size \in Nat
        BY ConnAssumption, SizeAssumption
  <1> QED BY <1>1 DEF Copied, Smaller

\* Every step keeps the types.
LEMMA NextType == TypeOK /\ [Next]_vars => TypeOK'
  <1> SUFFICES ASSUME TypeOK, [Next]_vars PROVE TypeOK'
      OBVIOUS
  <1> USE DEF TypeOK, Step, client
  <1>1. CASE AcceptThrows
        BY <1>1 DEF AcceptThrows
  <1>2. ASSUME NEW c \in Conn, Connect(c) PROVE TypeOK'
        BY <1>2 DEF Connect
  <1>3. ASSUME NEW c \in Conn, Deliver(c) PROVE TypeOK'
    <2>1. PICK n \in 1..Length[c] - delivered[c] : delivered' = [delivered EXCEPT ![c] = @ + n]
          BY <1>3 DEF Deliver
    <2>2. Length[c] \in Nat /\ delivered[c] \in Nat
          BY ConnAssumption
    <2>3. delivered[c] + n \in Nat /\ delivered[c] + n <= Length[c]
          BY <2>2
    <2>4. delivered' \in [Conn -> Nat]
          BY <2>1, <2>3
    <2>5. \A d \in Conn : delivered'[d] <= Length[d]
          BY <2>1, <2>3
    <2> QED BY <1>3, <2>4, <2>5 DEF Deliver
  <1>4. ASSUME NEW c \in Conn, CloseOutput(c) PROVE TypeOK'
        BY <1>4 DEF CloseOutput
  <1>5. ASSUME NEW c \in Conn, Break(c) PROVE TypeOK'
        BY <1>5 DEF Break
  <1>6. ASSUME NEW c \in Conn, Accept(c) PROVE TypeOK'
        BY <1>6 DEF Accept
  <1>7. ASSUME NEW c \in Conn, Read(c) PROVE TypeOK'
    <2>1. Copied(c) \in 0..Size
          BY CopiedBounds, SizeAssumption
    <2>2. text' \in [Conn -> 0..Size]
          BY <1>7, <2>1 DEF Read
    <2> QED BY <1>7, <2>2 DEF Read
  <1>8. ASSUME NEW c \in Conn, Add(c) PROVE TypeOK'
    <2>1. [conn |-> c, size |-> text[c]] \in Payload
          BY SizeAssumption DEF Payload
    <2>2. mq' \in Seq(Payload)
          BY <1>8, <2>1 DEF Add
    <2> QED BY <1>8, <2>2 DEF Add
  <1>9. ASSUME NEW c \in Conn, Reply(c) PROVE TypeOK'
        BY <1>9 DEF Reply
  <1>10. ASSUME NEW c \in Conn, TaskFails(c) PROVE TypeOK'
        BY <1>10 DEF TaskFails
  <1>11. ASSUME NEW c \in Conn, Finalize(c) PROVE TypeOK'
        BY <1>11 DEF Finalize
  <1>12. CASE UNCHANGED vars
        BY <1>12 DEF vars
  <1>13. ASSUME NEW c \in Conn, AddThrows(c) PROVE TypeOK'
        BY <1>13 DEF AddThrows
  <1>14. CASE Restart
        BY <1>14 DEF Restart
  <1> QED BY <1>1, <1>2, <1>3, <1>4, <1>5, <1>6, <1>7, <1>8, <1>9, <1>10, <1>11, <1>12, <1>13,
             <1>14 DEF Next

-----------------------------------------------------------------------------

\* A payload in the queue names its connection and has a length.
LEMMA QueuedConn ==
    ASSUME TypeOK, NEW i \in 1..Len(mq)
    PROVE  mq[i].conn \in Conn /\ mq[i].size \in Nat
  <1>1. mq[i] \in Payload
        BY DEF TypeOK
  <1> QED BY <1>1 DEF Payload

\* What Add does to the queue.
LEMMA AddAppends ==
    ASSUME TypeOK, NEW c \in Conn, Add(c)
    PROVE  /\ Len(mq) \in Nat /\ Len(mq') = Len(mq) + 1
           /\ mq'[Len(mq) + 1] = [conn |-> c, size |-> text[c]]
           /\ \A i \in 1..Len(mq) : mq'[i] = mq[i] /\ mq[i].conn \in Conn
  <1>1. mq \in Seq(Payload) /\ [conn |-> c, size |-> text[c]] \in Payload
        BY SizeAssumption DEF TypeOK, Payload
  <1>2. mq' = Append(mq, [conn |-> c, size |-> text[c]])
        BY DEF Add
  <1> QED BY <1>1, <1>2, QueuedConn

\* Every step keeps the payloads and their tasks together.
LEMMA NextQueue == TypeOK /\ QueueInv /\ [Next]_vars => QueueInv'
  <1> SUFFICES ASSUME TypeOK, QueueInv, [Next]_vars PROVE QueueInv'
      OBVIOUS
  <1>0. \A i \in 1..Len(mq) : mq[i].conn \in Conn
        BY QueuedConn
  <1>p. pc \in [Conn -> Step]
        BY DEF TypeOK
  <1> USE DEF QueueInv, client
  <1>1. CASE AcceptThrows
        BY <1>1 DEF AcceptThrows
  <1>2. ASSUME NEW c \in Conn, Connect(c) PROVE QueueInv'
        BY <1>0, <1>p, <1>2 DEF Connect
  <1>3. ASSUME NEW c \in Conn, Deliver(c) PROVE QueueInv'
        BY <1>3 DEF Deliver
  <1>4. ASSUME NEW c \in Conn, CloseOutput(c) PROVE QueueInv'
        BY <1>4 DEF CloseOutput
  <1>5. ASSUME NEW c \in Conn, Break(c) PROVE QueueInv'
        BY <1>5 DEF Break
  <1>6. ASSUME NEW c \in Conn, Accept(c) PROVE QueueInv'
        BY <1>0, <1>p, <1>6 DEF Accept
  <1>7. ASSUME NEW c \in Conn, Read(c) PROVE QueueInv'
        BY <1>0, <1>p, <1>7 DEF Read
  <1>8. ASSUME NEW c \in Conn, Add(c) PROVE QueueInv'
    <2>1. /\ pc[c] = "add" /\ pc' = [pc EXCEPT ![c] = "reply"] /\ pc \in [Conn -> Step]
          /\ answered' = answered /\ reset' = reset
          BY <1>8 DEF Add, TypeOK
    <2>2. \A i \in 1..Len(mq) : mq[i].conn # c
          BY <2>1
    <2>3. /\ Len(mq) \in Nat /\ Len(mq') = Len(mq) + 1
          /\ mq'[Len(mq) + 1] = [conn |-> c, size |-> text[c]]
          /\ \A i \in 1..Len(mq) : mq'[i] = mq[i] /\ mq[i].conn \in Conn
          BY <1>8, AddAppends
    <2>4. \A i \in 1..Len(mq') : i \in 1..Len(mq) \/ i = Len(mq) + 1
          BY <2>3
    <2>5. (\A i, j \in 1..Len(mq) : mq[i].conn = mq[j].conn => i = j)'
          BY <2>2, <2>3, <2>4
    <2>6. \A i \in 1..Len(mq') :
            LET d == mq'[i].conn IN
            /\ pc'[d] \in {"reply", "done", "failed"}
            /\ d \in answered' \cup reset' \/ pc'[d] = "reply"
          BY <2>1, <2>2, <2>3, <2>4
    <2>7. \A d \in answered' : \E i \in 1..Len(mq') : mq'[i].conn = d
          BY <2>1, <2>3
    <2>8. \A d \in Conn : pc'[d] = "reply" => \E i \in 1..Len(mq') : mq'[i].conn = d
      <3>1. Len(mq) + 1 \in 1..Len(mq') /\ \A i \in 1..Len(mq) : i \in 1..Len(mq')
            BY <2>3
      <3>2. \A d \in Conn : pc'[d] = "reply" => d = c \/ pc[d] = "reply"
            BY <2>1
      <3> QED BY <2>3, <3>1, <3>2
    <2> QED BY <2>5, <2>6, <2>7, <2>8
  <1>9. ASSUME NEW c \in Conn, Reply(c) PROVE QueueInv'
    <2>1. /\ mq' = mq /\ answered' = answered \cup {c} /\ reset' = reset
          /\ pc[c] = "reply" /\ pc' = [pc EXCEPT ![c] = "done"]
          BY <1>9 DEF Reply
    <2>2. \E i \in 1..Len(mq) : mq[i].conn = c
          BY <2>1
    <2>3. \A i \in 1..Len(mq) :
            /\ pc'[mq[i].conn] \in {"reply", "done", "failed"}
            /\ mq[i].conn \in answered' \cup reset \/ pc'[mq[i].conn] = "reply"
          BY <1>0, <1>p, <2>1
    <2>4. \A d \in Conn : pc'[d] = "reply" => pc[d] = "reply"
          BY <1>p, <2>1
    <2> QED BY <2>1, <2>2, <2>3, <2>4
  <1>10. ASSUME NEW c \in Conn, TaskFails(c) PROVE QueueInv'
        BY <1>0, <1>p, <1>10 DEF TaskFails
  <1>11. ASSUME NEW c \in Conn, Finalize(c) PROVE QueueInv'
        BY <1>11 DEF Finalize
  <1>12. CASE UNCHANGED vars
        BY <1>12 DEF vars
  <1>13. ASSUME NEW c \in Conn, AddThrows(c) PROVE QueueInv'
        BY <1>0, <1>p, <1>13 DEF AddThrows
  <1>14. CASE Restart
        BY <1>0, <1>p, <1>14 DEF Restart
  <1> QED BY <1>1, <1>2, <1>3, <1>4, <1>5, <1>6, <1>7, <1>8, <1>9, <1>10, <1>11, <1>12, <1>13,
             <1>14 DEF Next

\* Every step keeps what a text says of its message.
LEMMA NextText == TypeOK /\ TextInv /\ [Next]_vars => TextInv'
  <1> SUFFICES ASSUME TypeOK, TextInv, [Next]_vars PROVE TextInv'
      OBVIOUS
  <1>0. \A i \in 1..Len(mq) : mq[i].conn \in Conn
        BY QueuedConn
  <1>p. /\ pc \in [Conn -> Step] /\ text \in [Conn -> 0..Size]
        /\ delivered \in [Conn -> Nat]
        BY DEF TypeOK
  <1> USE DEF TextInv, TextIsDelivered, client
  <1>1. CASE AcceptThrows
        BY <1>1 DEF AcceptThrows
  <1>2. ASSUME NEW c \in Conn, Connect(c) PROVE TextInv'
        BY <1>p, <1>2 DEF Connect
  <1>3. ASSUME NEW c \in Conn, Deliver(c) PROVE TextInv'
    <2>1. /\ c \notin closing /\ closing' = closing /\ mq' = mq /\ text' = text /\ pc' = pc
          BY <1>p, <1>3 DEF Deliver
    <2>2. \A d \in Conn : delivered[d] <= delivered'[d] /\ (d # c => delivered'[d] = delivered[d])
          BY <1>p, <1>3, ConnAssumption DEF Deliver
    <2>3. \A d \in Conn : delivered[d] \in Nat /\ delivered'[d] \in Nat
          BY <1>p, <1>3, ConnAssumption DEF Deliver
    <2>4. \A i \in 1..Len(mq) : mq[i].size \in Nat
          BY QueuedConn
    <2>5. \A d \in Conn : text[d] \in Nat
          BY <1>p, SizeAssumption
    <2> QED BY <1>0, <2>1, <2>2, <2>3, <2>4, <2>5
  <1>4. ASSUME NEW c \in Conn, CloseOutput(c) PROVE TextInv'
        BY <1>4 DEF CloseOutput
  <1>5. ASSUME NEW c \in Conn, Break(c) PROVE TextInv'
        BY <1>5 DEF Break
  <1>6. ASSUME NEW c \in Conn, Accept(c) PROVE TextInv'
        BY <1>p, <1>6 DEF Accept
  <1>7. ASSUME NEW c \in Conn, Read(c) PROVE TextInv'
    <2>1. /\ Copied(c) <= delivered[c] /\ Copied(c) <= BeforeNul[c]
          /\ Copied(c) = 0 => BeforeNul[c] = 0 \/ (c \in closing /\ delivered[c] = 0)
          BY <1>p, <1>7, CopiedBounds, SizeAssumption DEF Read
    <2> QED BY <1>p, <1>7, <2>1 DEF Read
  <1>8. ASSUME NEW c \in Conn, Add(c) PROVE TextInv'
    <2>1. /\ pc[c] = "add" /\ pc' = [pc EXCEPT ![c] = "reply"]
          /\ text' = text /\ closing' = closing /\ delivered' = delivered
          BY <1>8 DEF Add
    <2>2. /\ Len(mq) \in Nat /\ Len(mq') = Len(mq) + 1
          /\ mq'[Len(mq) + 1] = [conn |-> c, size |-> text[c]]
          /\ \A i \in 1..Len(mq) : mq'[i] = mq[i] /\ mq[i].conn \in Conn
          BY <1>8, AddAppends
    <2>3. \A i \in 1..Len(mq') : i \in 1..Len(mq) \/ i = Len(mq) + 1
          BY <2>2
    <2>4. ASSUME NEW i \in 1..Len(mq')
          PROVE  LET d == mq'[i].conn
                     n == mq'[i].size IN
                 /\ n <= delivered'[d] /\ n <= Size /\ n <= BeforeNul[d]
                 /\ n = 0 => BeforeNul[d] = 0 \/ (d \in closing' /\ delivered'[d] = 0)
      <3>1. CASE i \in 1..Len(mq)
            BY <2>1, <2>2, <3>1
      <3>2. CASE i = Len(mq) + 1
            BY <1>p, <2>1, <2>2, <3>2, SizeAssumption
      <3> QED BY <2>3, <3>1, <3>2
    <2> QED BY <1>p, <2>1, <2>4
  <1>9. ASSUME NEW c \in Conn, Reply(c) PROVE TextInv'
        BY <1>p, <1>9 DEF Reply
  <1>10. ASSUME NEW c \in Conn, TaskFails(c) PROVE TextInv'
        BY <1>p, <1>10 DEF TaskFails
  <1>11. ASSUME NEW c \in Conn, Finalize(c) PROVE TextInv'
        BY <1>11 DEF Finalize
  <1>12. CASE UNCHANGED vars
        BY <1>12 DEF vars
  <1>13. ASSUME NEW c \in Conn, AddThrows(c) PROVE TextInv'
        BY <1>p, <1>13 DEF AddThrows
  <1>14. CASE Restart
        BY <1>p, <1>14 DEF Restart
  <1> QED BY <1>1, <1>2, <1>3, <1>4, <1>5, <1>6, <1>7, <1>8, <1>9, <1>10, <1>11, <1>12, <1>13,
             <1>14 DEF Next

\* Every step opens and closes sockets with their tasks.
LEMMA NextOpen == TypeOK /\ OpenInv /\ [Next]_vars => OpenInv'
  <1> SUFFICES ASSUME pc \in [Conn -> Step], open \subseteq Conn, OpenInv, [Next]_vars
               PROVE  OpenInv'
      BY DEF TypeOK
  <1> USE DEF OpenInv
  <1>1. CASE AcceptThrows
        BY <1>1 DEF AcceptThrows
  <1>2. ASSUME NEW c \in Conn, Connect(c) PROVE OpenInv'
        BY <1>2 DEF Connect
  <1>3. ASSUME NEW c \in Conn, Deliver(c) \/ CloseOutput(c) \/ Break(c) PROVE OpenInv'
        BY <1>3 DEF Deliver, CloseOutput, Break
  <1>4. ASSUME NEW c \in Conn, Accept(c) PROVE OpenInv'
        BY <1>4 DEF Accept
  <1>5. ASSUME NEW c \in Conn, Read(c) \/ Add(c) PROVE OpenInv'
        BY <1>5 DEF Read, Add
  <1>6. ASSUME NEW c \in Conn, Reply(c) PROVE OpenInv'
        BY <1>6 DEF Reply
  <1>7. ASSUME NEW c \in Conn, TaskFails(c) \/ Finalize(c) PROVE OpenInv'
        BY <1>7 DEF TaskFails, Finalize
  <1>8. CASE UNCHANGED vars
        BY <1>8 DEF vars
  <1>9. ASSUME NEW c \in Conn, AddThrows(c) PROVE OpenInv'
        BY <1>9 DEF AddThrows
  <1>10. CASE Restart
        BY <1>10 DEF Restart
  <1> QED BY <1>1, <1>2, <1>3, <1>4, <1>5, <1>6, <1>7, <1>8, <1>9, <1>10 DEF Next

-----------------------------------------------------------------------------

LEMMA Invariance == Spec => []IInv
  <1>1. IInv /\ [Next]_vars => IInv'
        BY NextType, NextQueue, NextText, NextOpen DEF IInv
  <1> QED BY <1>1, InitInv, PTL DEF Spec

\* The invariant about single payloads counts them.
LEMMA QueueCounts == QueueInv => OkMeansQueuedOnce
  <1> SUFFICES ASSUME QueueInv, NEW c \in Conn
               PROVE  /\ Cardinality(QueuedAt(c)) <= 1
                      /\ c \in answered => QueuedAt(c) # {}
                      /\ QueuedAt(c) # {} => c \in answered \cup reset \/ pc[c] = "reply"
      BY DEF OkMeansQueuedOnce
  <1>1. CASE QueuedAt(c) = {}
    <2>1. Cardinality(QueuedAt(c)) = 0
          BY <1>1, FS_EmptySet
    <2>2. c \notin answered
          BY <1>1 DEF QueueInv, QueuedAt
    <2> QED BY <1>1, <2>1, <2>2
  <1>2. CASE QueuedAt(c) # {}
    <2>1. PICK i \in QueuedAt(c) : TRUE
          BY <1>2
    <2>2. QueuedAt(c) = {i}
          BY <2>1 DEF QueueInv, QueuedAt
    <2>3. Cardinality(QueuedAt(c)) = 1
          BY <2>2, FS_Singleton
    <2>4. c \in answered \cup reset \/ pc[c] = "reply"
          BY <2>1 DEF QueueInv, QueuedAt
    <2> QED BY <1>2, <2>3, <2>4
  <1> QED BY <1>1, <1>2

\* Only the sockets of unfinished tasks are open.
LEMMA OpenAreUnfinished == OpenInv => open = Unfinished
  BY DEF OpenInv, Unfinished

-----------------------------------------------------------------------------
(* Theorems *)

\* The listener, the sockets and the queue keep their types; no text is longer
\* than the size limit.
THEOREM TypeCorrect == Spec => []TypeOK
  <1>1. IInv => TypeOK
        BY DEF IInv
  <1> QED BY <1>1, Invariance, PTL

\* "ok" means queued, a connection queues once, and a payload without "ok"
\* belongs to a connection that still gets it or broke.
THEOREM OkMeansQueuedOnceHolds == Spec => []OkMeansQueuedOnce
  <1>1. IInv => OkMeansQueuedOnce
        BY QueueCounts DEF IInv
  <1> QED BY <1>1, Invariance, PTL

\* A payload holds no character that was not delivered, nor one behind a U+0000;
\* it is empty only if the message starts with U+0000 or the client ended its
\* output with nothing sent.
THEOREM TextIsDeliveredHolds == Spec => []TextIsDelivered
  <1>1. IInv => TextIsDelivered
        BY DEF IInv, TextInv
  <1> QED BY <1>1, Invariance, PTL

\* Only unfinished tasks can use up the sockets and so end the listener, also
\* when the process was stopped and started again.
THEOREM ListenerLostOnlyToUnfinishedHolds == Spec => ListenerLostOnlyToUnfinished
  <1> DEFINE Lost == listening /\ ~listening' => Cardinality(Unfinished) >= FdLimit
  <1>1. IInv /\ [Next]_vars => [Lost]_vars
    <2> SUFFICES ASSUME IInv, Next, listening, ~listening'
                 PROVE  Cardinality(Unfinished) >= FdLimit
        OBVIOUS
    <2>1. Cardinality(open) >= FdLimit
          BY DEF Next, AcceptThrows, Restart, Connect, Deliver, CloseOutput, Break, Accept,
                 Read, Add, AddThrows, Reply, TaskFails, Finalize
    <2> QED BY <2>1, OpenAreUnfinished DEF IInv
  <1> QED BY <1>1, Invariance, PTL DEF Spec, ListenerLostOnlyToUnfinished

-----------------------------------------------------------------------------
(* Liveness: what is left to TLC is that a task at one of its calls can make *)
(* it (TasksNeverBlock).                                                     *)

\* A client cannot take back that it did something, and only its task moves a
\* connection that was accepted, or the end of the process.
LEMMA TaskMoves ==
    ASSUME pc \in [Conn -> Step], delivered \in [Conn -> Nat], NEW c \in Conn,
           pc[c] \in {"read", "add", "reply"}, [Next]_vars
    PROVE  /\ Task(c) \/ pc'[c] = pc[c] \/ pc'[c] = "failed"
           /\ Heard(c) => Heard(c)'
  <1> USE DEF Heard, client, Step
  <1>1. CASE AcceptThrows \/ UNCHANGED vars
        BY <1>1 DEF AcceptThrows, vars
  <1>2. ASSUME NEW d \in Conn, Connect(d) \/ Accept(d) PROVE pc'[c] = pc[c] /\ (Heard(c) => Heard(c)')
        BY <1>2 DEF Connect, Accept
  <1>3. ASSUME NEW d \in Conn, Deliver(d) PROVE pc'[c] = pc[c] /\ (Heard(c) => Heard(c)')
    <2>1. PICK n \in 1..Length[d] - delivered[d] : delivered' = [delivered EXCEPT ![d] = @ + n]
          BY <1>3 DEF Deliver
    <2>2. n > 0 /\ n \in Int /\ delivered[d] \in Nat /\ delivered[c] \in Nat
          BY ConnAssumption, <2>1
    <2>3. delivered'[c] >= delivered[c] /\ delivered'[c] \in Nat
          BY <2>1, <2>2
    <2> QED BY <1>3, <2>2, <2>3 DEF Deliver
  <1>4. ASSUME NEW d \in Conn, CloseOutput(d) \/ Break(d) \/ Finalize(d)
        PROVE  pc'[c] = pc[c] /\ (Heard(c) => Heard(c)')
        BY <1>4 DEF CloseOutput, Break, Finalize
  <1>5. ASSUME NEW d \in Conn, Task(d) PROVE (d = c \/ pc'[c] = pc[c]) /\ (Heard(c) => Heard(c)')
        BY <1>5 DEF Task, Read, Add, AddThrows, Reply, TaskFails
  <1>6. CASE Restart
        BY <1>6 DEF Restart
  <1> QED BY <1>1, <1>2, <1>3, <1>4, <1>5, <1>6 DEF Next, Task

\* The calls of a task follow one another; a missing queue ends it.
LEMMA TaskAdvances ==
    ASSUME pc \in [Conn -> Step], NEW c \in Conn, Task(c)
    PROVE  /\ pc[c] = "read" => pc'[c] \in {"add", "failed"}
           /\ pc[c] = "add" => pc'[c] \in {"reply", "failed"}
           /\ pc[c] = "reply" => pc'[c] \in {"done", "failed"}
  BY DEF Task, Read, Add, AddThrows, Reply, TaskFails

\* Every accepted connection whose client does anything is served to its end.
THEOREM AcceptedAreServedHolds == FairSpec /\ []TasksNeverBlock => AcceptedAreServed
  <1> SUFFICES ASSUME NEW c \in Conn
               PROVE  FairSpec /\ []TasksNeverBlock =>
                        (pc[c] = "read" /\ Heard(c) ~> pc[c] \in {"done", "failed"})
      BY DEF AcceptedAreServed
  <1> DEFINE Reading == pc[c] = "read" /\ Heard(c)
             Adding == pc[c] = "add"
             Replying == pc[c] = "reply"
             Over == pc[c] \in {"done", "failed"}
  <1>1. FairSpec => TaskFair(c)
        BY DEF FairSpec, Fairness
  <1>2. TypeOK /\ Reading /\ [Next]_vars => Reading' \/ Adding' \/ Over'
        BY TaskMoves, TaskAdvances DEF TypeOK
  <1>3. TypeOK /\ Reading /\ <<Next /\ Task(c)>>_vars => Adding' \/ Over'
        BY TaskAdvances DEF TypeOK
  <1>4. TypeOK /\ Adding /\ [Next]_vars => Adding' \/ Replying' \/ Over'
        BY TaskMoves, TaskAdvances DEF TypeOK
  <1>5. TypeOK /\ Adding /\ <<Next /\ Task(c)>>_vars => Replying' \/ Over'
        BY TaskAdvances DEF TypeOK
  <1>6. TypeOK /\ Replying /\ [Next]_vars => Replying' \/ Over'
        BY TaskMoves, TaskAdvances DEF TypeOK
  <1>7. TypeOK /\ Replying /\ <<Next /\ Task(c)>>_vars => Over'
        BY TaskAdvances DEF TypeOK
  <1>8. TasksNeverBlock => (Reading \/ Adding \/ Replying => ENABLED <<Task(c)>>_vars)
        BY DEF TasksNeverBlock
  <1> HIDE DEF Reading, Adding, Replying, Over
  <1>9. FairSpec /\ []TasksNeverBlock => (Reading ~> Over)
        BY <1>1, <1>2, <1>3, <1>4, <1>5, <1>6, <1>7, <1>8, TypeCorrect, PTL
           DEF FairSpec, Spec, TaskFair
  <1> QED BY <1>9 DEF Reading, Over
=============================================================================
