------------------------------ MODULE Startup -------------------------------
(***************************************************************************)
(* How the process comes up.  Tomcat starts the listener threads of        *)
(* TcpServer and UdpServer before the main thread creates the beans, among *)
(* them TcpConfig, UdpConfig and MqServer, which fill static fields that   *)
(* are neither volatile nor guarded by a lock.  A listener thread spins    *)
(* until it sees its port, so it runs next to the rest of the startup.     *)
(* No @DependsOn or @Order fixes the order of the beans.                   *)
(***************************************************************************)
EXTENDS Integers, FiniteSets

CONSTANTS
    Port,       \* values of tcp.port and udp.port, -1 for "do not listen"
    SizeOf,     \* SizeOf[l]: tcp.maxDataSize and udp.maxDataSize
    Request,    \* messages that TCP clients send, one per connection
    Datagram,   \* messages that UDP clients send
    Hoisting    \* may the JIT compiler move the read of port out of the spin

Listener == {"tcp", "udp"}
Bean == {"tcp", "udp", "mq", "other"}   \* TcpConfig, UdpConfig, MqServer, the rest

ASSUME ConfigAssumption ==
    /\ Port \in SUBSET (Int \ {0})
    /\ SizeOf \in [Listener -> Nat \ {0}]
    /\ Hoisting \in BOOLEAN

VARIABLES
    main,       \* the main thread: "boot", "ready" or "aborted"
    todo,       \* the beans that are not initialized yet
    bean,       \* the config bean between its two assignments, or "none"
    port, size, \* the static fields of TcpConfig and UdpConfig
    queue,      \* is MqServer.mq not null
    lis,        \* lis[l]: where the listener thread is
    udpBuffer,  \* length of the UDP listener's buffer
    task,       \* task[r]: where the task thread of a TCP request is
    array,      \* array[r]: length of the task's char array
    queued,     \* payloads in the queue, with the length of their buffer
    late,       \* (history) requests accepted after the startup was complete
    cut         \* (history) datagrams cut to nothing after it was complete

boot == <<main, todo, bean, port, size, queue>>
tcp == <<task, array, late>>
udp == <<udpBuffer, cut>>
vars == <<boot, lis, udp, tcp, queued>>

Init ==
    /\ main = "boot"
    /\ todo = Bean
    /\ bean = "none"
    /\ port = [l \in Listener |-> 0]
    /\ size = [l \in Listener |-> 0]
    /\ queue = FALSE
    /\ lis = [l \in Listener |-> "none"]
    /\ udpBuffer = 0
    /\ task = [r \in Request |-> "none"]
    /\ array = [r \in Request |-> 0]
    /\ queued = {}
    /\ late = {}
    /\ cut = {}

-----------------------------------------------------------------------------
(* Operations with a plausible bug, for the mutation runs only. *)

\* The application counts as started while beans are still missing.
ReadyEarly ==
    /\ main = "boot" /\ bean = "none" /\ todo # Bean
    /\ main' = "ready"
    /\ UNCHANGED <<todo, bean, port, size, queue, lis, udp, tcp, queued>>

\* afterPropertiesSet forgets port ...
PortForgotten(l) ==
    /\ main = "boot" /\ bean = "none" /\ \A k \in Listener : lis[k] # "none"
    /\ l \in todo /\ bean' = l
    /\ UNCHANGED <<main, todo, port, size, queue, lis, udp, tcp, queued>>

\* ... or assigns the port to size.
PortAsSize(l) ==
    /\ bean = l /\ bean' = "none" /\ todo' = todo \ {l}
    /\ size' = [size EXCEPT ![l] = port[l]]
    /\ UNCHANGED <<main, port, queue, lis, udp, tcp, queued>>

\* A missing queue is passed over in silence.
AddIfQueue(r) ==
    /\ task[r] = "add" /\ task' = [task EXCEPT ![r] = "reply"]
    /\ queued' = IF queue THEN queued \cup {<<r, array[r]>>} ELSE queued
    /\ UNCHANGED <<boot, lis, udp, array, late>>

\* The buffer of the UDP listener is allocated before the loop.
ReceiveIntoSameBuffer(d) ==
    /\ lis["udp"] = "receive" /\ \A n \in {0, SizeOf["udp"]} : <<d, n>> \notin queued
    /\ cut' = IF main = "ready" /\ udpBuffer = 0 THEN cut \cup {d} ELSE cut
    /\ lis' = [lis EXCEPT !["udp"] = IF queue THEN "receive" ELSE "dead"]
    /\ queued' = IF queue THEN queued \cup {<<d, udpBuffer>>} ELSE queued
    /\ UNCHANGED <<boot, udpBuffer, tcp>>

-----------------------------------------------------------------------------
(* The main thread: SpringApplication.run *)

\* Tomcat calls contextInitialized, which starts the listener's thread.
StartListener(l) ==
    /\ main = "boot"
    /\ lis[l] = "none"
    /\ lis' = [lis EXCEPT ![l] = "wait"]
    /\ UNCHANGED <<boot, udp, tcp, queued>>

CanCreateBean(b) ==
    /\ main = "boot" /\ bean = "none"
    /\ \A l \in Listener : lis[l] # "none"
    /\ b \in todo

\* TcpConfig and UdpConfig.afterPropertiesSet: first port ...
SetPort(l) ==
    /\ CanCreateBean(l)
    /\ \E p \in Port : port' = [port EXCEPT ![l] = p]
    /\ bean' = l
    /\ UNCHANGED <<main, todo, size, queue, lis, udp, tcp, queued>>

\* ... then size.
SetSize(l) ==
    /\ bean = l
    /\ size' = [size EXCEPT ![l] = SizeOf[l]]
    /\ bean' = "none"
    /\ todo' = todo \ {l}
    /\ UNCHANGED <<main, port, queue, lis, udp, tcp, queued>>

\* MqServer.afterPropertiesSet
InitQueue ==
    /\ CanCreateBean("mq")
    /\ queue' = TRUE
    /\ todo' = todo \ {"mq"}
    /\ UNCHANGED <<main, bean, port, size, lis, udp, tcp, queued>>

InitOther ==
    /\ CanCreateBean("other")
    /\ todo' = todo \ {"other"}
    /\ UNCHANGED <<main, bean, port, size, queue, lis, udp, tcp, queued>>

\* A bean cannot be created: run() throws, but the threads keep running.
Abort ==
    /\ CanCreateBean("other")
    /\ main' = "aborted"
    /\ UNCHANGED <<todo, bean, port, size, queue, lis, udp, tcp, queued>>

Ready ==
    /\ main = "boot" /\ todo = {}
    /\ main' = "ready"
    /\ UNCHANGED <<todo, bean, port, size, queue, lis, udp, tcp, queued>>

-----------------------------------------------------------------------------
(* The listener threads up to their accept and receive loops *)

\* The spin ends; -1 ends the thread, and so does a port that is taken.
SeePort(l) ==
    /\ lis[l] = "wait"
    /\ port[l] # 0
    /\ lis' \in {[lis EXCEPT ![l] = s] : s \in IF port[l] = -1 THEN {"off"} ELSE {"up", "unbound"}}
    /\ UNCHANGED <<boot, udp, tcp, queued>>

\* The compiled spin does not read the field again.
Hoist(l) ==
    /\ Hoisting
    /\ lis[l] = "wait"
    /\ port[l] = 0
    /\ lis' = [lis EXCEPT ![l] = "stuck"]
    /\ UNCHANGED <<boot, udp, tcp, queued>>

-----------------------------------------------------------------------------
(* A TCP task: the message has arrived when the task begins, see TcpServer. *)

\* accept(), new Thread(new Task(socket)).start()
Accept(r) ==
    /\ lis["tcp"] = "up"
    /\ task[r] = "none"
    /\ task' = [task EXCEPT ![r] = "alloc"]
    /\ late' = IF main = "ready" THEN late \cup {r} ELSE late
    /\ UNCHANGED <<boot, lis, udp, array, queued>>

\* new char[TcpConfig.getTcpMaxDataSize()] and the read into it
Alloc(r) ==
    /\ task[r] = "alloc"
    /\ array' = [array EXCEPT ![r] = size["tcp"]]
    /\ task' = [task EXCEPT ![r] = "copy"]
    /\ UNCHANGED <<boot, lis, udp, late, queued>>

\* The copy loop asks for the size again and may run over the array.
Copy(r) ==
    /\ task[r] = "copy"
    /\ task' = [task EXCEPT ![r] = IF array[r] < size["tcp"] THEN "failed" ELSE "add"]
    /\ UNCHANGED <<boot, lis, udp, array, late, queued>>

\* MqServer.mq.add; a NullPointerException while there is no queue
Add(r) ==
    /\ task[r] = "add"
    /\ IF queue
         THEN /\ queued' = queued \cup {<<r, array[r]>>}
              /\ task' = [task EXCEPT ![r] = "reply"]
         ELSE /\ task' = [task EXCEPT ![r] = "failed"]
              /\ UNCHANGED queued
    /\ UNCHANGED <<boot, lis, udp, array, late>>

Reply(r) ==
    /\ task[r] = "reply"
    /\ task' = [task EXCEPT ![r] = "answered"]
    /\ UNCHANGED <<boot, lis, udp, array, late, queued>>

-----------------------------------------------------------------------------
(* The UDP listener's loop *)

\* new byte[UdpConfig.getUdpMaxDataSize()], then receive() waits.
UdpAlloc ==
    /\ lis["udp"] = "up"
    /\ udpBuffer' = size["udp"]
    /\ lis' = [lis EXCEPT !["udp"] = "receive"]
    /\ UNCHANGED <<boot, tcp, cut, queued>>

\* receive and MqServer.mq.add; no handler catches the NullPointerException.
UdpReceive(d) ==
    /\ lis["udp"] = "receive"
    /\ \A n \in {0, SizeOf["udp"]} : <<d, n>> \notin queued
    /\ IF queue
         THEN /\ queued' = queued \cup {<<d, udpBuffer>>}
              /\ lis' = [lis EXCEPT !["udp"] = "up"]
         ELSE /\ lis' = [lis EXCEPT !["udp"] = "dead"]
              /\ UNCHANGED queued
    /\ cut' = IF main = "ready" /\ udpBuffer = 0 THEN cut \cup {d} ELSE cut
    /\ UNCHANGED <<boot, udpBuffer, tcp>>

Next ==
    \/ InitQueue \/ InitOther \/ Abort \/ Ready \/ UdpAlloc
    \/ \E l \in Listener :
         StartListener(l) \/ SetPort(l) \/ SetSize(l) \/ SeePort(l) \/ Hoist(l)
    \/ \E r \in Request : Accept(r) \/ Alloc(r) \/ Copy(r) \/ Add(r) \/ Reply(r)
    \/ \E d \in Datagram : UdpReceive(d)

Spec == Init /\ [][Next]_vars

\* The main thread and the listener threads run; a spin that was compiled
\* without the read stays a spin.
Main ==
    \/ InitQueue \/ InitOther \/ Ready
    \/ \E l \in Listener : StartListener(l) \/ SetPort(l) \/ SetSize(l)
MainFair == WF_vars(Main)
SpinFair(l) == WF_vars(SeePort(l))
FairSpec == Spec /\ MainFair /\ \A l \in Listener : SpinFair(l)

-----------------------------------------------------------------------------
(* Properties *)

\* Every variable holds a value of its type.
TypeOK ==
    /\ main \in {"boot", "ready", "aborted"}
    /\ todo \in SUBSET Bean
    /\ bean \in Listener \cup {"none"}
    /\ \A l \in Listener : port[l] \in Port \cup {0} /\ size[l] \in {0, SizeOf[l]}
    /\ queue \in BOOLEAN
    /\ lis \in [Listener ->
         {"none", "wait", "stuck", "off", "unbound", "up", "receive", "dead"}]
    /\ udpBuffer \in {0, SizeOf["udp"]}
    /\ task \in [Request ->
         {"none", "alloc", "copy", "add", "reply", "answered", "failed"}]
    /\ array \in [Request -> {0, SizeOf["tcp"]}]
    /\ queued \in SUBSET ((Request \cup Datagram) \X Nat)
    /\ late \in SUBSET Request
    /\ cut \in SUBSET Datagram

\* Even during startup "ok" is not sent for a payload that no queue has.
OkMeansQueued ==
    \A r \in Request : task[r] = "answered" => <<r, array[r]>> \in queued

\* The races of the startup end with it: a TCP request that was accepted once
\* all beans were there does not fail and has a buffer of the full size.
LateRequestsAreSafe ==
    \A r \in late :
        /\ task[r] # "failed"
        /\ task[r] \notin {"none", "alloc"} => array[r] = SizeOf["tcp"]

\* They end for the UDP listener too: once all beans are there it does not die,
\* and at most one datagram, the one its last buffer waits for, is cut to the
\* size that was not set yet.
LateDatagramsAreSafe ==
    [][main = "ready" => /\ lis'["udp"] = "dead" => lis["udp"] = "dead"
                         /\ cut # {} => cut' = cut]_vars

\* Once the startup is complete the spin of a listener can end: no bean has
\* left it without a port.
SpinCanEnd ==
    main = "ready" =>
        \A l \in Listener : lis[l] = "wait" => ENABLED <<SeePort(l)>>_vars

LeavesSpin(l) ==
    main = "ready" ~> lis[l] \in {"off", "unbound", "up", "receive", "dead"}

\* Unless the read of the port is compiled away, a listener leaves its spin
\* once the startup is complete, whatever the order of the beans.
ListenersComeUp == \A l \in Listener : [](lis[l] # "stuck") => LeavesSpin(l)

\* (does not hold) It does so in every build.
ListenersAlwaysComeUp == \A l \in Listener : LeavesSpin(l)

\* (does not hold) A listener listens only after its settings are in memory.
ListensAfterLoading ==
    \A l \in Listener : lis[l] \in {"up", "receive"} => size[l] # 0

\* (does not hold) The UDP listener goes on listening.
UdpKeepsListening == lis["udp"] # "dead"
=============================================================================
