----------------------------- MODULE TcpServer ------------------------------
(***************************************************************************)
(* server/TcpServer.java once it listens: the accept loop and one task     *)
(* thread per connection.  A client delivers its message piece by piece,   *)
(* the task calls read() once, adds what it got to the buffer queue and    *)
(* answers "ok".  The text of a message is abstracted to its length and to *)
(* where its first U+0000 is: a payload is the connection it came from and *)
(* how many leading characters of the message it holds.                    *)
(***************************************************************************)
EXTENDS Integers, Sequences, FiniteSets, Functions

CONSTANTS
    Conn,       \* the connections that clients may open
    Length,     \* Length[c]: characters in the message of connection c
    BeforeNul,  \* BeforeNul[c]: those before its first U+0000, all if it has none
    Size,       \* tcp.maxDataSize, in characters
    FdLimit     \* sockets the process may have open at once

ASSUME ConnAssumption ==
    /\ IsFiniteSet(Conn)
    /\ Length \in [Conn -> Nat \ {0}]
    /\ BeforeNul \in [Conn -> Nat] /\ \A c \in Conn : BeforeNul[c] <= Length[c]
ASSUME SizeAssumption == Size \in Nat \ {0} /\ FdLimit \in Nat \ {0}

VARIABLES
    listening,  \* is the listener thread still in its accept loop
    pc,         \* pc[c]: how far the connection and its task are
    open,       \* the accepted sockets that are not closed
    delivered,  \* delivered[c]: characters that reached the server
    closing,    \* the connections whose client has ended its output
    reset,      \* the connections that broke
    text,       \* text[c]: length of the string the task built
    mq,         \* (history) the payloads added to MqServer.mq, in order
    answered    \* the connections whose client was sent "ok"

client == <<delivered, closing, reset>>
vars == <<listening, pc, open, client, text, mq, answered>>

\* "none": not opened, "backlog": waits for accept, "read", "add", "reply":
\* the call the task makes next, "done": closed, "failed": left by an
\* exception or ended with its process.
Step == {"none", "backlog", "read", "add", "reply", "done", "failed"}

Payload == [conn : Conn, size : Nat]
Smaller(m, n) == IF m < n THEN m ELSE n

\* The buffer holds what has arrived and fits, then U+0000 up to its end; the
\* copy loop stops at the first U+0000, of the message or of the buffer.
Copied(c) == Smaller(Smaller(delivered[c], Size), BeforeNul[c])

Init ==
    /\ listening = TRUE
    /\ pc = [c \in Conn |-> "none"]
    /\ open = {}
    /\ delivered = [c \in Conn |-> 0]
    /\ closing = {}
    /\ reset = {}
    /\ text = [c \in Conn |-> 0]
    /\ mq = <<>>
    /\ answered = {}

-----------------------------------------------------------------------------
(* Operations with a plausible bug, for the mutation runs only. *)

\* "ok" is written before the payload is added.
ReadThenAnswer(c) ==
    /\ pc[c] = "read" /\ c \notin reset /\ (delivered[c] > 0 \/ c \in closing)
    /\ text' = [text EXCEPT ![c] = Copied(c)]
    /\ answered' = answered \cup {c} /\ pc' = [pc EXCEPT ![c] = "add"]
    /\ UNCHANGED <<listening, open, client, mq>>

\* read() does not wait for the first character.
ReadDoesNotWait(c) ==
    /\ pc[c] = "read" /\ c \notin reset
    /\ text' = [text EXCEPT ![c] = Copied(c)]
    /\ pc' = [pc EXCEPT ![c] = "add"]
    /\ UNCHANGED <<listening, open, client, mq, answered>>

\* The task waits for the end of the client's output.
ReadToEnd(c) ==
    /\ pc[c] = "read" /\ c \in closing \ reset
    /\ text' = [text EXCEPT ![c] = Copied(c)]
    /\ pc' = [pc EXCEPT ![c] = "add"]
    /\ UNCHANGED <<listening, open, client, mq, answered>>

\* The size limit is not applied.
ReadUncut(c) ==
    /\ pc[c] = "read" /\ c \notin reset /\ (delivered[c] > 0 \/ c \in closing)
    /\ text' = [text EXCEPT ![c] = Smaller(delivered[c], BeforeNul[c])]
    /\ pc' = [pc EXCEPT ![c] = "add"]
    /\ UNCHANGED <<listening, open, client, mq, answered>>

\* run() catches the exception and the task goes on with its answer.
AddThrowsUnnoticed(c) ==
    /\ pc[c] = "add" /\ pc' = [pc EXCEPT ![c] = "reply"]
    /\ UNCHANGED <<listening, open, client, text, mq, answered>>

\* The three close() calls are missing.
ReplyKeepsOpen(c) ==
    /\ pc[c] = "reply" /\ c \notin reset
    /\ answered' = answered \cup {c} /\ pc' = [pc EXCEPT ![c] = "done"]
    /\ UNCHANGED <<listening, open, client, text, mq>>

-----------------------------------------------------------------------------
(* The clients and the network *)

\* The socket of c works in both directions.
Connected(c) == pc[c] \in {"backlog", "read", "add", "reply"} /\ c \notin reset

Connect(c) ==
    /\ pc[c] = "none"
    /\ pc' = [pc EXCEPT ![c] = "backlog"]
    /\ UNCHANGED <<listening, open, client, text, mq, answered>>

\* The next piece of the message arrives, whole characters of it.
Deliver(c) ==
    /\ Connected(c) /\ c \notin closing
    /\ \E n \in 1..Length[c] - delivered[c] :
         delivered' = [delivered EXCEPT ![c] = @ + n]
    /\ UNCHANGED <<listening, pc, open, closing, reset, text, mq, answered>>

\* The client ends its output, maybe before its whole message is out.
CloseOutput(c) ==
    /\ Connected(c) /\ c \notin closing
    /\ closing' = closing \cup {c}
    /\ UNCHANGED <<listening, pc, open, delivered, reset, text, mq, answered>>

Break(c) ==
    /\ Connected(c)
    /\ reset' = reset \cup {c}
    /\ UNCHANGED <<listening, pc, open, delivered, closing, text, mq, answered>>

-----------------------------------------------------------------------------
(* listenTcpMsg *)

\* server.accept() returns a socket and a new thread runs its Task.
Accept(c) ==
    /\ listening
    /\ pc[c] = "backlog"
    /\ Cardinality(open) < FdLimit
    /\ open' = open \cup {c}
    /\ pc' = [pc EXCEPT ![c] = "read"]
    /\ UNCHANGED <<listening, client, text, mq, answered>>

\* accept() throws: contextInitialized prints the exception, its thread ends.
AcceptThrows ==
    /\ listening
    /\ \E c \in Conn : pc[c] = "backlog"
    /\ Cardinality(open) >= FdLimit
    /\ listening' = FALSE
    /\ UNCHANGED <<pc, open, client, text, mq, answered>>

-----------------------------------------------------------------------------
(* Task.run and handleSocket *)

\* The only br.read(buffer) and the copy loop: waits for a first character or
\* the end of the stream, takes what has arrived and fits, leaves the rest.
Read(c) ==
    /\ pc[c] = "read"
    /\ c \notin reset
    /\ delivered[c] > 0 \/ c \in closing
    /\ text' = [text EXCEPT ![c] = Copied(c)]
    /\ pc' = [pc EXCEPT ![c] = "add"]
    /\ UNCHANGED <<listening, open, client, mq, answered>>

\* MqServer.mq.add(bufString.toString().getBytes())
Add(c) ==
    /\ pc[c] = "add"
    /\ mq' = Append(mq, [conn |-> c, size |-> text[c]])
    /\ pc' = [pc EXCEPT ![c] = "reply"]
    /\ UNCHANGED <<listening, open, client, text, answered>>

\* MqServer.mq is null until MqServer has created it; when that is, this module
\* leaves open. The NullPointerException ends the task, which closes nothing.
AddThrows(c) ==
    /\ pc[c] = "add"
    /\ pc' = [pc EXCEPT ![c] = "failed"]
    /\ UNCHANGED <<listening, open, client, text, mq, answered>>

\* writer.write("ok"), flush and the three close() calls
Reply(c) ==
    /\ pc[c] = "reply"
    /\ c \notin reset
    /\ answered' = answered \cup {c}
    /\ open' = open \ {c}
    /\ pc' = [pc EXCEPT ![c] = "done"]
    /\ UNCHANGED <<listening, client, text, mq>>

\* read() or flush() throws: run() prints the exception and closes nothing.
TaskFails(c) ==
    /\ pc[c] \in {"read", "reply"}
    /\ c \in reset
    /\ pc' = [pc EXCEPT ![c] = "failed"]
    /\ UNCHANGED <<listening, open, client, text, mq, answered>>

\* The garbage collector finalizes the socket of a task that failed.
Finalize(c) ==
    /\ pc[c] = "failed"
    /\ c \in open
    /\ open' = open \ {c}
    /\ UNCHANGED <<listening, pc, client, text, mq, answered>>

Task(c) == Read(c) \/ Add(c) \/ AddThrows(c) \/ Reply(c) \/ TaskFails(c)

-----------------------------------------------------------------------------
(* The process stops and starts again. *)

\* Every connection breaks, the sockets are closed, and the next process
\* listens with no task.
Restart ==
    LET alive == {c \in Conn : pc[c] \in {"backlog", "read", "add", "reply"}} IN
    /\ listening' = TRUE
    /\ open' = {}
    /\ pc' = [c \in Conn |-> IF c \in alive THEN "failed" ELSE pc[c]]
    /\ reset' = reset \cup alive
    /\ UNCHANGED <<delivered, closing, text, mq, answered>>

Next ==
    \/ AcceptThrows
    \/ Restart
    \/ \E c \in Conn :
         \/ Connect(c) \/ Deliver(c) \/ CloseOutput(c) \/ Break(c)
         \/ Accept(c) \/ Read(c) \/ Add(c) \/ AddThrows(c) \/ Reply(c) \/ TaskFails(c)
         \/ Finalize(c)

Spec == Init /\ [][Next]_vars

\* The listener and every task have a thread of their own.  Clients and the
\* garbage collector owe nothing.
ListenerFair == WF_vars((\E c \in Conn : Accept(c)) \/ AcceptThrows)
TaskFair(c) == WF_vars(Task(c))

Fairness == ListenerFair /\ \A c \in Conn : TaskFair(c)

FairSpec == Spec /\ Fairness

-----------------------------------------------------------------------------
(* Properties *)

\* Every variable holds a value of its type.
TypeOK ==
    /\ listening \in BOOLEAN
    /\ pc \in [Conn -> Step]
    /\ open \in SUBSET Conn
    /\ delivered \in [Conn -> Nat]
    /\ \A c \in Conn : delivered[c] <= Length[c]
    /\ closing \in SUBSET Conn
    /\ reset \in SUBSET Conn
    /\ text \in [Conn -> 0..Size]
    /\ mq \in Seq(Payload)
    /\ answered \in SUBSET Conn

\* The positions of c's payloads in the queue.
QueuedAt(c) == {i \in 1..Len(mq) : mq[i].conn = c}

\* A connection adds at most one payload however its task interleaves with
\* its client and the other tasks; "ok" is never sent for nothing; and once a
\* payload is queued, only a broken connection keeps its client from the "ok".
OkMeansQueuedOnce ==
    \A c \in Conn :
        /\ Cardinality(QueuedAt(c)) <= 1
        /\ c \in answered => QueuedAt(c) # {}
        /\ QueuedAt(c) # {} => c \in answered \cup reset \/ pc[c] = "reply"

\* A payload holds characters that arrived, none past the size limit or behind
\* a U+0000. It is empty for one of two reasons: the message starts with U+0000,
\* or the client ended its output with nothing sent. A client that is merely
\* slow makes the task wait.
TextIsDelivered ==
    \A i \in 1..Len(mq) :
        LET c == mq[i].conn
            n == mq[i].size IN
        /\ n <= delivered[c] /\ n <= Size /\ n <= BeforeNul[c]
        /\ n = 0 => BeforeNul[c] = 0 \/ (c \in closing /\ delivered[c] = 0)

\* The tasks that hold a socket: what they wait for, or the exception that
\* ended them, has kept them from closing it.
Unfinished == {c \in open : pc[c] \in {"read", "add", "reply", "failed"}}

\* The listener is lost only when unfinished tasks hold as many sockets as the
\* process may open: an answered connection costs nothing.
ListenerLostOnlyToUnfinished ==
    [][listening /\ ~listening' => Cardinality(Unfinished) >= FdLimit]_vars

\* The client of c gave its read() a reason to return.
Heard(c) == delivered[c] > 0 \/ c \in closing \cup reset

\* The hypothesis of the liveness theorem, which is about ENABLED: a task that
\* is at a call, and was heard if that is read(), can make a step.
TasksNeverBlock ==
    \A c \in Conn :
        (pc[c] = "read" /\ Heard(c)) \/ pc[c] \in {"add", "reply"} => ENABLED <<Task(c)>>_vars

\* A connection that was accepted is served to its end once its client does
\* anything at all, whether or not the listener is still alive.
AcceptedAreServed ==
    \A c \in Conn : pc[c] = "read" /\ Heard(c) ~> pc[c] \in {"done", "failed"}

\* As long as the listener lives, a connection on which something happens is
\* served to its end, also next to clients that stay silent forever.
Served ==
    \A c \in Conn :
        pc[c] \in {"backlog", "read"} /\ Heard(c)
            ~> pc[c] \in {"done", "failed"} \/ ~listening

\* (does not hold) A client that was answered "ok", and whose whole message
\* reached the server within the size limit, has the whole message queued.
OkMeansWhole ==
    \A c \in answered :
        delivered[c] = Length[c] /\ Length[c] <= Size
            => \E i \in QueuedAt(c) : mq[i].size = Length[c]
=============================================================================
