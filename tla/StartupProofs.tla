--------------------------- MODULE StartupProofs ----------------------------
(***************************************************************************)
(* Proofs about Startup, for any ports, sizes, requests and datagrams.     *)
(***************************************************************************)
EXTENDS Startup, TLAPS

\* The static fields are functions of the listener.
FieldsOK == port \in [Listener -> Int] /\ size \in [Listener -> Nat]

\* What is initialised stays so, and all of it is when the startup is complete.
BeansInv ==
    /\ bean # "none" => bean \in todo
    /\ main = "ready" => todo = {}
    /\ \A l \in Listener : l \notin todo => size[l] = SizeOf[l]
    /\ "mq" \notin todo => queue

\* A payload that was added is in the queue, with the length its array had.
AddedInv ==
    \A r \in Request :
        task[r] \in {"reply", "answered"} => <<r, array[r]>> \in queued

\* Late requests were accepted by a complete process.
LateInv ==
    /\ late # {} => main = "ready"
    /\ \A r \in late : /\ task[r] \notin {"none", "failed"}
                       /\ task[r] # "alloc" => array[r] = SizeOf["tcp"]

\* The buffer that a late datagram was cut by is not used again.
CutInv ==
    /\ cut # {} => main = "ready"
    /\ cut # {} /\ lis["udp"] = "receive" => udpBuffer # 0

\* The first bean finds both listener threads started.
StartedInv ==
    todo # Bean \/ bean # "none" => \A l \in Listener : lis[l] # "none"

IInv == TypeOK /\ FieldsOK /\ BeansInv /\ AddedInv /\ LateInv /\ CutInv /\ StartedInv

-----------------------------------------------------------------------------

LEMMA InitInv == Init => IInv
  <1> SUFFICES ASSUME Init PROVE IInv
      OBVIOUS
  <1> USE DEF Init
  <1>1. TypeOK
        BY DEF TypeOK
  <1>2. FieldsOK
        BY DEF FieldsOK
  <1>3. BeansInv
        BY DEF BeansInv, Listener, Bean
  <1>4. AddedInv /\ LateInv
        BY DEF AddedInv, LateInv
  <1>5. CutInv /\ StartedInv
        BY DEF CutInv, StartedInv
  <1> QED BY <1>1, <1>2, <1>3, <1>4, <1>5 DEF IInv

\* The steps of the main thread.
MainStep ==
    \/ InitQueue \/ InitOther \/ Abort \/ Ready
    \/ \E l \in Listener : SetPort(l) \/ SetSize(l)

\* The main thread leaves listeners and tasks alone, and they leave its fields.
LEMMA Separate ==
    ASSUME [Next]_vars
    PROVE  \/ MainStep /\ UNCHANGED <<lis, udpBuffer, task, array, late, cut, queued>>
           \/ UNCHANGED boot
  BY DEF Next, vars, boot, udp, tcp, MainStep, InitQueue, InitOther, Abort, Ready, SetPort, SetSize,
         UdpAlloc, StartListener, SeePort, Hoist, Accept, Alloc, Copy, Add, Reply, UdpReceive

\* The main thread keeps the types of the fields and initialises them for good.
LEMMA MainKeepsBeans ==
    ASSUME TypeOK, FieldsOK, BeansInv, MainStep
    PROVE  /\ main' \in {"boot", "ready", "aborted"} /\ todo' \in SUBSET Bean
           /\ bean' \in Listener \cup {"none"} /\ queue' \in BOOLEAN
           /\ \A l \in Listener : port'[l] \in Port \cup {0} /\ size'[l] \in {0, SizeOf[l]}
           /\ FieldsOK' /\ BeansInv'
           /\ main = "ready" => main' = "ready"
  <1> USE ConfigAssumption DEF TypeOK, FieldsOK, BeansInv, CanCreateBean, Bean, Listener
  <1>1. CASE InitQueue
        BY <1>1 DEF InitQueue
  <1>2. CASE InitOther
        BY <1>2 DEF InitOther
  <1>3. CASE Abort
        BY <1>3 DEF Abort
  <1>4. CASE Ready
        BY <1>4 DEF Ready
  <1>5. CASE \E l \in Listener : SetPort(l)
    <2>1. PICK l \in Listener : SetPort(l)
          BY <1>5
    <2>2. PICK p \in Port : port' = [port EXCEPT ![l] = p]
          BY <2>1 DEF SetPort
    <2>3. /\ main' = main /\ todo' = todo /\ size' = size /\ queue' = queue /\ bean' = l
          /\ main = "boot" /\ l \in todo
          BY <2>1 DEF SetPort
    <2>4. FieldsOK' /\ \A k \in Listener : port'[k] \in Port \cup {0}
          BY <2>2, <2>3
    <2>5. BeansInv'
          BY <2>3
    <2> QED BY <2>3, <2>4, <2>5
  <1>6. CASE \E l \in Listener : SetSize(l)
    <2>1. PICK l \in Listener : SetSize(l)
          BY <1>6
    <2>2. /\ main' = main /\ port' = port /\ queue' = queue /\ bean' = "none"
          /\ bean = l /\ todo' = todo \ {l} /\ size' = [size EXCEPT ![l] = SizeOf[l]]
          BY <2>1 DEF SetSize
    <2>3. SizeOf[l] \in Nat
          BY <2>1
    <2>4. FieldsOK' /\ \A k \in Listener : size'[k] = IF k = l THEN SizeOf[l] ELSE size[k]
          BY <2>2, <2>3
    <2>5. BeansInv'
          BY <2>2, <2>4
    <2> QED BY <2>2, <2>4, <2>5
  <1> QED BY <1>1, <1>2, <1>3, <1>4, <1>5, <1>6 DEF MainStep

-----------------------------------------------------------------------------

\* The types of what listeners and tasks own.
ThreadsOK ==
    /\ lis \in [Listener ->
         {"none", "wait", "stuck", "off", "unbound", "up", "receive", "dead"}]
    /\ udpBuffer \in {0, SizeOf["udp"]}
    /\ task \in [Request ->
         {"none", "alloc", "copy", "add", "reply", "answered", "failed"}]
    /\ array \in [Request -> {0, SizeOf["tcp"]}]
    /\ queued \in SUBSET ((Request \cup Datagram) \X Nat)
    /\ late \in SUBSET Request
    /\ cut \in SUBSET Datagram

TasksInv == ThreadsOK /\ AddedInv /\ LateInv /\ CutInv /\ StartedInv

\* Listeners and tasks keep their part of the invariant.
LEMMA ThreadsKeepTasks ==
    ASSUME IInv, Next, UNCHANGED boot
    PROVE  TasksInv'
  <1> USE ConfigAssumption
      DEF IInv, TypeOK, FieldsOK, BeansInv, AddedInv, LateInv, CutInv, StartedInv, ThreadsOK,
          TasksInv,
          Listener, boot, tcp, udp
  <1>1. ASSUME NEW l \in Listener, StartListener(l) \/ SeePort(l) \/ Hoist(l) PROVE TasksInv'
        BY <1>1 DEF StartListener, SeePort, Hoist
  <1>2. ASSUME NEW r \in Request, Accept(r) PROVE TasksInv'
        BY <1>2 DEF Accept
  <1>3. ASSUME NEW r \in Request, Alloc(r) PROVE TasksInv'
        BY <1>3 DEF Alloc
  <1>4. ASSUME NEW r \in Request, Copy(r) PROVE TasksInv'
        BY <1>4 DEF Copy
  <1>5. ASSUME NEW r \in Request, Add(r) PROVE TasksInv'
        BY <1>5 DEF Add
  <1>6. ASSUME NEW r \in Request, Reply(r) PROVE TasksInv'
        BY <1>6 DEF Reply
  <1>7. CASE UdpAlloc
        BY <1>7 DEF UdpAlloc
  <1>8. ASSUME NEW d \in Datagram, UdpReceive(d) PROVE TasksInv'
        BY <1>8 DEF UdpReceive
  <1>9. CASE MainStep
        BY <1>9 DEF MainStep, InitQueue, InitOther, Abort, Ready, SetPort, SetSize, CanCreateBean
  <1> QED BY <1>1, <1>2, <1>3, <1>4, <1>5, <1>6, <1>7, <1>8, <1>9 DEF Next, MainStep

LEMMA NextInv == IInv /\ [Next]_vars => IInv'
  <1> SUFFICES ASSUME IInv, [Next]_vars PROVE IInv'
      OBVIOUS
  <1>1. CASE UNCHANGED vars
        BY <1>1 DEF vars, boot, udp, tcp, IInv, TypeOK, FieldsOK, BeansInv, AddedInv, LateInv,
             CutInv, StartedInv
  <1>2. CASE Next /\ UNCHANGED boot
    <2>1. TasksInv'
          BY <1>2, ThreadsKeepTasks
    <2> QED BY <1>2, <2>1 DEF TasksInv, ThreadsOK, boot, IInv, TypeOK, FieldsOK, BeansInv
  <1>3. CASE MainStep /\ UNCHANGED <<lis, udpBuffer, task, array, late, cut, queued>>
    <2>1. /\ FieldsOK' /\ BeansInv' /\ TypeOK'
          /\ main = "ready" => main' = "ready"
          BY <1>3, MainKeepsBeans DEF IInv, TypeOK
    <2>2. AddedInv' /\ LateInv' /\ CutInv'
          BY <1>3, <2>1 DEF IInv, AddedInv, LateInv, CutInv
    <2>3. StartedInv'
      <3>1. ASSUME NEW l \in Listener, SetSize(l) PROVE StartedInv'
            BY <3>1, <1>3 DEF SetSize, IInv, StartedInv, Listener
      <3>2. ASSUME NEW l \in Listener, SetPort(l) PROVE StartedInv'
            BY <3>2, <1>3 DEF SetPort, CanCreateBean, StartedInv
      <3>3. CASE InitQueue \/ InitOther
            BY <3>3, <1>3 DEF InitQueue, InitOther, CanCreateBean, StartedInv
      <3>4. CASE Abort \/ Ready
            BY <3>4, <1>3 DEF Abort, Ready, IInv, StartedInv
      <3> QED BY <3>1, <3>2, <3>3, <3>4, <1>3 DEF MainStep
    <2> QED BY <2>1, <2>2, <2>3 DEF IInv
  <1> QED BY <1>1, <1>2, <1>3, Separate

LEMMA Invariance == Spec => []IInv
  <1> QED BY InitInv, NextInv, PTL DEF Spec

-----------------------------------------------------------------------------
(* Theorems *)

\* The fields, listeners and tasks keep their types in every order of the beans.
THEOREM TypeCorrect == Spec => []TypeOK
  <1>1. IInv => TypeOK
        BY DEF IInv
  <1> QED BY <1>1, Invariance, PTL

\* "ok" is not sent for a payload that no queue has, also during the startup.
THEOREM OkMeansQueuedHolds == Spec => []OkMeansQueued
  <1>1. IInv => OkMeansQueued
        BY DEF IInv, AddedInv, OkMeansQueued
  <1> QED BY <1>1, Invariance, PTL

\* A TCP request accepted after the startup does not fail and is not cut by a
\* size that was not set yet.
THEOREM LateRequestsAreSafeHolds == Spec => []LateRequestsAreSafe
  <1>1. IInv => LateRequestsAreSafe
        BY DEF IInv, LateInv, LateRequestsAreSafe
  <1> QED BY <1>1, Invariance, PTL

\* Once the startup is complete the UDP listener does not die, and at most one
\* datagram is cut by the size that was not set yet.
THEOREM LateDatagramsAreSafeHolds == Spec => LateDatagramsAreSafe
  <1> DEFINE Safe == main = "ready" => /\ lis'["udp"] = "dead" => lis["udp"] = "dead"
                                       /\ cut # {} => cut' = cut
  <1>1. IInv /\ [Next]_vars => [Safe]_vars
    <2> SUFFICES ASSUME IInv, Next, main = "ready" PROVE Safe
        OBVIOUS
    <2>1. queue
          BY DEF IInv, BeansInv
    <2>2. lis \in [Listener ->
            {"none", "wait", "stuck", "off", "unbound", "up", "receive", "dead"}]
          BY DEF IInv, TypeOK
    <2>3. ASSUME NEW d \in Datagram, UdpReceive(d) PROVE Safe
          BY <2>1, <2>2, <2>3 DEF UdpReceive, IInv, CutInv
    <2>4. ASSUME NEW l \in Listener, StartListener(l) \/ SeePort(l) \/ Hoist(l) PROVE Safe
          BY <2>2, <2>4 DEF StartListener, SeePort, Hoist, udp, Listener
    <2>5. CASE UdpAlloc
          BY <2>2, <2>5 DEF UdpAlloc
    <2>6. CASE UNCHANGED <<lis, cut>>
          BY <2>6
    <2> QED BY <2>3, <2>4, <2>5, <2>6 DEF Next, InitQueue, InitOther, Abort, Ready, SetPort,
          SetSize, Accept, Alloc, Copy, Add, Reply, udp
  <1> QED BY <1>1, Invariance, PTL DEF Spec, LateDatagramsAreSafe

-----------------------------------------------------------------------------
(* Liveness: what is left to TLC is that a spin which can see its port is    *)
(* enabled to end (SpinCanEnd); that it can see its port is proved here.     *)

\* A port is there from the first assignment of its bean on.
PortInv == \A l \in Listener : l \notin todo \/ bean = l => port[l] # 0

LEMMA PortStep ==
    ASSUME IInv, PortInv, [Next]_vars
    PROVE  PortInv'
  <1> USE DEF PortInv
  <1>1. CASE UNCHANGED boot
        BY <1>1 DEF boot
  <1>2. CASE InitQueue \/ InitOther \/ Abort \/ Ready
        BY <1>2 DEF InitQueue, InitOther, Abort, Ready, CanCreateBean, Listener
  <1>3. ASSUME NEW l \in Listener, SetPort(l) PROVE PortInv'
    <2>1. PICK p \in Port : port' = [port EXCEPT ![l] = p]
          BY <1>3 DEF SetPort
    <2>2. todo' = todo /\ bean' = l /\ bean = "none"
          BY <1>3 DEF SetPort, CanCreateBean
    <2>3. p # 0 /\ port \in [Listener -> Int]
          BY ConfigAssumption DEF IInv, FieldsOK
    <2> QED BY <2>1, <2>2, <2>3
  <1>4. ASSUME NEW l \in Listener, SetSize(l) PROVE PortInv'
        BY <1>4 DEF SetSize, Listener
  <1> QED BY <1>1, <1>2, <1>3, <1>4, Separate DEF MainStep

\* The guard behind SpinCanEnd holds for any ports and in every order of the
\* beans: a complete startup has left no listener without a port.
PortsAreSet == main = "ready" => \A l \in Listener : port[l] # 0

THEOREM PortsAreSetHolds == Spec => []PortsAreSet
  <1>1. Init => PortInv
        BY DEF Init, PortInv, Listener, Bean
  <1>2. IInv /\ PortInv => PortsAreSet
        BY DEF IInv, BeansInv, PortInv, PortsAreSet
  <1> QED BY <1>1, <1>2, PortStep, Invariance, PTL DEF Spec

\* A complete startup stays complete, and a listener that sees its port waits
\* no longer.
LEMMA SpinLasts ==
    ASSUME IInv, main = "ready", NEW l \in Listener, [Next]_vars
    PROVE  /\ main' = "ready"
           /\ SeePort(l) => lis'[l] # "wait"
  <1>1. lis \in [Listener ->
          {"none", "wait", "stuck", "off", "unbound", "up", "receive", "dead"}]
        BY DEF IInv, TypeOK
  <1>2. main' = "ready"
        BY MainKeepsBeans, Separate DEF IInv, boot
  <1>3. SeePort(l) => lis'[l] # "wait"
        BY <1>1 DEF SeePort
  <1> QED BY <1>2, <1>3

\* A listener whose spin still reads its port leaves it once the startup is
\* complete, in every order of the beans.
THEOREM ListenersComeUpHolds == FairSpec /\ []SpinCanEnd => ListenersComeUp
  <1> SUFFICES ASSUME NEW l \in Listener
               PROVE  FairSpec /\ []SpinCanEnd => ([](lis[l] # "stuck") => LeavesSpin(l))
      BY DEF ListenersComeUp
  <1> DEFINE Done == main = "ready"
             Waits == lis[l] = "wait"
             Stuck == lis[l] = "stuck"
             Left == lis[l] \in {"off", "unbound", "up", "receive", "dead"}
  <1>1. FairSpec => Spec /\ SpinFair(l)
        BY DEF FairSpec
  <1>2. IInv /\ Done => Waits \/ Stuck \/ Left
        BY DEF IInv, TypeOK, BeansInv, StartedInv, Bean
  <1>3. IInv /\ Done /\ Waits /\ [Next]_vars => Done'
        BY SpinLasts
  <1>4. IInv /\ Done /\ Waits /\ <<Next /\ SeePort(l)>>_vars => Done' /\ ~Waits'
        BY SpinLasts
  <1>5. SpinCanEnd => (Done /\ Waits => ENABLED <<SeePort(l)>>_vars)
        BY DEF SpinCanEnd
  <1> HIDE DEF Done, Waits, Stuck, Left
  <1>6. FairSpec /\ []SpinCanEnd => ([](lis[l] # "stuck") => LeavesSpin(l))
    <2>1. (lis[l] # "stuck") <=> ~Stuck
          BY DEF Stuck
    <2>2. (main = "ready") <=> Done
          BY DEF Done
    <2>3. (lis[l] \in {"off", "unbound", "up", "receive", "dead"}) <=> Left
          BY DEF Left
    <2> QED BY <2>1, <2>2, <2>3, <1>1, <1>2, <1>3, <1>4, <1>5, Invariance, PTL
           DEF Spec, SpinFair, LeavesSpin
  <1> QED BY <1>6
=============================================================================
