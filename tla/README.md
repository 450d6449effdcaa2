# TLA+ verification of RingLog

RingLog collects logs over TCP and UDP, buffers them in memory, sends them to
Kafka and from there into Elasticsearch; a web console searches them.  This
directory holds TLA+ models of that code, the TLC runs that check them, and
TLAPS proofs.  Paths below are relative to
`src/main/java/com/dpwgc/ringlog/` unless they say otherwise.

## 1. The system

| component | state it keeps | operations | talks to |
|---|---|---|---|
| `server/TcpServer` | listener thread, one task thread and socket per connection | accept, one read per connection, add, answer `ok`, close | clients; adds to `MqServer.mq`; reads `TcpConfig` |
| `server/UdpServer` | listener thread, one buffer per round of its loop | allocate, receive, add | clients; adds the buffer itself to `MqServer.mq`; reads `UdpConfig` |
| `server/MqServer` | the static queue `mq`, `mq.threadNum` consumer threads | create the queue, start threads, poll, parse, send | Kafka producer |
| Kafka producer and topic (external) | records in memory, the log | transmit or lose (`acks=0`, `retries=0`) | `KafkaServer` |
| `server/KafkaServer`, `util/LogUtil`, `util/EsUtil` | batch in progress; position and committed offset in the consumer | poll, `listen`, `saveAll`, automatic commit, seek back on an exception | Elasticsearch |
| `config/TcpConfig`, `config/UdpConfig`, `RinglogApplication` | static fields `port` and `size` | `afterPropertiesSet` in the main thread | read by the listener threads without synchronisation |
| `controller/LogController`, `service/LogService` | none | search with up to three wildcard conditions and a time range | Elasticsearch |
| `interceptor/ApiInterceptor` | none | compare the two headers with the configured account | - |
| console (`src/main/resources/static/js/app.b824fffb.js`) | account in local storage, form, loading flag, result list | save and clean the account, search | `LogController` |

What is hard here:

- *Concurrency.*  Listener, task and consumer threads share one static queue.
  The UDP buffer is shared by reference.  The listeners start before the beans
  exist and read fields that are neither volatile nor locked.
- *Failure.*  Everything up to the topic is in memory.  A failed parse, send or
  `saveAll` is printed and forgotten.  A record that `listen` cannot parse fails
  its whole batch.
- *Ordering.*  Consumer threads race between `poll` and `send`; the automatic
  commit must stay behind the records that were saved; datagrams are lost,
  doubled and reordered.
- *Waiting.*  A task reads without a timeout; a listener thread spins for its
  port; a batch that fails is replayed.

What makes each component correct: the queue loses and copies nothing
silently and keeps records nearly in order (`MqServer`); `ok` means queued, and
a slow or broken client harms only itself (`TcpServer`); a queued payload is one
datagram and does not change (`UdpServer`); what is committed was handed to
Elasticsearch, and every record gets its turn (`KafkaServer`); the races of the
startup end with it (`Startup`); the page shows a complete answer to the search
that was clicked last and then takes the next (`LogSearch`).  Together: a
message that was accepted moves forward only, from memory to the log to
Elasticsearch, or is lost once and for all, and `ok` is said of accepted
messages only (`RingLog`).

## 2. Modules

| module | models | state and actions against the code |
|---|---|---|
| `MqServer` | `server/MqServer.java` and the Kafka client behind `send` | `mq` is the queue, `held[t]` the local `buffer` of consumer thread `t`, `outbox` the Kafka client's memory, `topic` the log.  `CreateQueue`, `StartThread`: `afterPropertiesSet`; `Offer`: the listeners' `mq.add`; `Poll`, `Spin`, `Send`, `Drop`: `consume`; `Transmit`, `TransmitFails`: the client's sender thread; `Crash` ends the process, which then starts again. `lost` and `arrivals` are history. |
| `MqServerProofs`, `TcpServerProofs`, `UdpServerProofs`, `KafkaServerProofs`, `StartupProofs`, `LogSearchProofs`, `RingLogProofs` | - | theorems about the modules they are named after |
| `LogDeliveryProofs` | - | the proof that `RingLog` implements `LogDelivery` |
| `RingLog` | `TcpServer`, `MqServer` and `KafkaServer` in one process | The three are instances that share variables: what `TcpServer` adds (its `mq`) is `arrivals` of `MqServer`, `topic` of `MqServer` is `log` of `KafkaServer`.  `Add`, `Transmit` are joint steps of two components, `Crash` of all three; every other action is one component's, the rest unchanged.  `AddThrows`, which `TcpServer` allows at any time, happens here only while there is no queue.  `Assign` waits for the consumer threads, because the container starts after the beans. |
| `LogDelivery` | what the client of a message may expect | abstract: each message is in one `place`, `Move` takes messages forward, `Answer` says `ok`; `RingLog` implements it with `place` computed from queue, topic, offsets and index |
| `TcpServer` | `server/TcpServer.java` from the accept loop on | `pc[c]` is the call the task of connection `c` makes next; `Accept`, `AcceptThrows`: `listenTcpMsg`; `Read` (with `Copied`, the copy loop that stops at the first U+0000), `Add`, `AddThrows` (no queue yet), `Reply`: `handleSocket`; `TaskFails`: the handler in `run`; `Connect`, `Deliver`, `CloseOutput`, `Break` are the clients and the network, `Finalize` the garbage collector, `Restart` a stop of the process.  `mq` is history: all that was ever added. |
| `UdpServer` | `listenUdpMsg` and the consumer threads | `heap` holds the buffers, `mq` and `held[t]`, the `buffer` of consumer thread `t`, references to them.  `Allocate`, `Receive`, `ReceiveThrows`, `Add` are the statements of the loop, `Poll` and `Parse` a consumer's, `Transmit` and `Vanish` the network. |
| `LogQueue` | what a queue of payloads promises its readers | abstract: `Put`, `Take`, `Finish` and the `Stop` of the process, with `hand[r]` what reader `r` holds; `UdpServer` implements it with references to buffers, `MqServer` with racing threads that drop payloads and crash |
| `KafkaServer` | `listen`, `LogUtil.set`, `EsUtil.setDoc` and the consumer of spring-kafka | `Assign`, `AutoCommit`, `Poll` happen inside the consumer's `poll()`; `ListenThrows` and `Save` are the two ends of `listen`; `Crash` and `Revoke` take the assignment away.  `tried` and `skipped` are history. |
| `Startup` | `afterPropertiesSet` of the configurations and of `MqServer`, `contextInitialized` of the listeners, and the first uses of the fields | `SetPort` and `SetSize` are the two assignments; `SeePort` and `Hoist` the two ends of the spin; `Accept` .. `Reply` a TCP task with both of its reads of the size; `UdpAlloc`, `UdpReceive` the UDP loop.  `late` and `cut` are history. |
| `LogSearch` | `selectLog`, `save` and `clean` of the console, `ApiInterceptor.preHandle` and `returnErrorResponse`, `LogService.search` | `SelectLog` sends what form and local storage hold at that moment; `Deny` and `Search` are the two ways the server takes a request, `Reject` is a failure of network or Elasticsearch, `Receive` the `then` of `selectLog`.  `Selects` is the query, `Pages` the limit on its hits; `Index` adds logs meanwhile, `Reload` loads the page again. `known` in `asked` and `broken` are history. |
| `MCTcpServer`, `MCUdpServer`, `MCStartup`, `MCLogSearch`, `MCRingLog` | - | values of function-valued constants for TLC |

Each module has a section of operations with a plausible bug.  They are not
part of the specification: putting one in the place of the operation it is
named after makes TLC report the property that `PROJECT.json` lists with it.

Assumptions about code outside the repository: fastjson accepts objects and
numbers as well as lists and ignores trailing zero bytes; which texts it
accepts, cut ones included, is a constant (`Parsable`, `List`), and the runs
take one that rejects cut texts.  spring-kafka's default batch error handler
seeks back to the start of the batch without limit, and automatic commits happen
inside `poll()` only. `auto.offset.reset` has its default,
`latest`.  Elasticsearch chooses new ids for logs without one, so saving twice
makes two documents.  A null `mq` makes `add` throw a `NullPointerException`.  A
loaded page hears nothing of requests of the page before it.  The two places
where the console relies on its vendored libraries
(`js/chunk-vendors.753eb326.js`: ant-design's button ignores clicks while it is
loading, axios rejects what is no 2xx answer) are modelled from there.

## 3. Runs

| run | question | result |
|---|---|---|
| `mq` | do racing consumer threads and crashes lose, copy, reorder or hold back payloads? | holds: `Conservation`, `QueueInOrder`, `OvertakingBounded`, `EveryPayloadSettles`, and `MqServer` implements `LogQueue` |
| `tcp` | what does `ok` mean, what can end the listener, who waits for whom? | holds: `OkMeansQueuedOnce`, `TextIsDelivered`, `ListenerLostOnlyToUnfinished`, `AcceptedAreServed`, `Served` |
| `tcp_short_read` | does `ok` mean that the whole message is queued? | violated: one `read()` takes the first piece only |
| `udp` | may the listener hand its buffer to the queue without a copy? | holds: `PayloadsAreReceipts`, and `UdpServer` implements `LogQueue` |
| `kafka` | do automatic commit, replay, partial saves and rebalances agree? | holds: `CommittedWereTried`, `CopiesNeedReassignment`, `CommitsOnlyGrow`, `CommittedIsFinal`, `EveryListIsTried` |
| `kafka_scalar` | is a list inserted when other records are no lists? | violated: the batch is replayed forever |
| `startup` | do the races of the startup end with it? | holds: `OkMeansQueued`, `LateRequestsAreSafe`, `LateDatagramsAreSafe`, `SpinCanEnd`, `ListenersComeUp` |
| `startup_hoisted_spin` | does a listener come up in every build? | violated: the spin reads a plain static field |
| `startup_size_unset` | are the settings loaded when a listener starts? | violated: the port is set before the size |
| `startup_udp_dies` | does the UDP listener listen continuously? | violated: a datagram before the queue exists ends it |
| `ringlog` | what becomes of a message on its whole way, when the process may stop anywhere? | holds: `GuaranteesCompose`, `CompositionNeverBlocks`, `RingLog` implements `TcpServer`, `MqServer` and `KafkaServer` (`ImplementsComponents`) and `LogDelivery`, `EveryMessageSettles` |
| `search` | does the page show a complete answer to the search that was clicked last, and is its button released? | holds: `ShownAnswersLastSearch`, `CompletePage`, `LoadingEnds` |

### Bounds

- `mq`: two threads and four payloads, one of them unparsable.  Three parsable
  payloads are the fewest with which a record could overtake one too many.
- `tcp`: three connections, two sockets, size limit 2, messages of 1, 1 and 3
  characters: one fits, one is a U+0000 alone, so that its text is empty although a
  character arrived, one is cut and can arrive in up to three pieces; the
  third connection finds the sockets used up.  A task may find no queue and the
  process may stop at any step; a connection is never opened twice, so the model
  is finite without a bound on the stops.
- `udp`: datagrams of 1, 2 and 3 bytes around a limit of 2; `MaxReceive` = 4
  rounds, so that queue, consumer and listener hold three different buffers
  and one more is behind them; two consumer threads, so that one parses a buffer
  while the other takes the next.
- `kafka`: two lists and a record that is no list, batches of at most two,
  `MaxStops` = 2 lost assignments: the second may hit the replay of the first.
- `startup`: every order of the beans, two requests and two datagrams before,
  during and after the startup, listeners on or off.
- `ringlog`: one list and one message that is no list and may be cut by its
  read, so that a bad record, a dropped payload and a good list meet; two consumer
  threads, so that they may overtake; one socket, so that a leaked one ends the
  listener until the restart; `MaxStops` = 1 stop or rebalance, which may hit
  any step of either message.  Batches of several lists and more stops are in `kafka`,
  concurrent tasks and U+0000 in `tcp`.
- `search`: three logs and a page of two, so that one of three hits is left out;
  four contents of the form, with one, two and no values and with both, one and no
  times given; a right and a wrong account; `MaxSearch` = 2, so that an answer
  and the next search can meet.

### Fairness

Threads of the program run: weak fairness on the consumer threads' handling of
a payload they hold, on some thread's poll (a lock-free queue promises no more),
on the Kafka client's sender, on the accept loop, on each TCP task, on the
consumer's poll loop, on the main thread, on a listener's spin while it
still reads the port, on the server's handling of some search and on the page's
of some answer.  In `RingLog` the commit is fair too, because the consumer's `poll()`
makes it whenever the commit interval is over; `kafka` needs no such fairness.
Nothing is assumed of clients, network, crashes, rebalances, garbage collection
and the user of the console.

### Disagreements found

1. `TcpServer.java:93`: a message that the network delivers in pieces is cut to
   the first, its client is answered `ok`, and `MqServer` drops the rest as
   unparsable.  The repository's README (line 12) has all data queued.
2. `KafkaServer.java:38`: a record that is no array throws, and lists polled
   with it are replayed instead of inserted (README line 13).
3. `TcpServer.java:29`, `UdpServer.java:27`: the spin reads a plain static field,
   which the compiler may read only once.
4. `TcpConfig.java:28`, `UdpConfig.java:28`: the port is published before the
   size; a UDP listener that slips through keeps its empty buffer until the
   next datagram arrives, however late that is.
5. `UdpServer.java:66`: a datagram before `MqServer` is initialised ends the
   listener with a `NullPointerException`, against its comment in line 56.

## 4. Proofs

Every invariant that a passing run checks is also a theorem, for all values of
the constants, except the two about `ENABLED` (see Liveness below), and so are
the action properties and the refinements: of `LogQueue` by `MqServer` and
`UdpServer`, and of `TcpServer`, `MqServer`, `KafkaServer` and `LogDelivery` by
`RingLog`.  Each module `XProofs` shows `Spec => []P` from an inductive
invariant, with one step per action.  Why the properties alone are not inductive,
and what is added:

- `MqServerProofs`.  `Conservation` and `QueueInOrder` are inductive with
  `TypeOK`, because `Conservation` names a place for every payload.
  `OvertakingBounded` is not: what a record overtook grows with every send.
  `LateInv` bounds what it overtook together with what it still may overtake,
  the older payloads in the threads' hands.  That set is largest when the record
  is written, and then the writing thread's hands are empty; `QueueInOrder` and
  `Conservation` show that no later poll adds to it.  `SingleThreadKeepsOrder`
  takes the bound at one thread: nothing overtakes.  For `LogQueue`, which the
  steps implement under `TypeOK`, `Send` and `Drop` are both a `Finish`, `Crash`
  is the `Stop`.
- `TcpServerProofs`.  `QueueInv` says of every queued payload how far its task
  is, and that a task about to answer has queued one; `TextInv` says of a
  text what `TextIsDelivered` says of a payload, from the read on; it rests on the
  client's side, because what was delivered before a `closing` does not grow after
  it.  `OpenInv` says whose sockets are open, also after a stop.
- `UdpServerProofs`.  `OwnInv` keeps the listener's buffer apart from the queued
  ones and from every consumer's, and `BufferInv` says that it is empty until it
  holds the datagram received last.  The steps of the listener and the consumers
  then map to `Put`, `Take` and `Finish` of `LogQueue`, all others to
  stuttering.
- `KafkaServerProofs`.  `CommitInv` talks about the offset `Safe` that the next
  commit may have: the position between two batches, the start of the batch
  within one.  Everything below it is settled, and the committed offset is not
  above it, so commits only grow.  `CopiesInv` counts: nothing at or after
  `Safe` was saved more often than assignments were lost.  `BehindInv` says that a
  batch being worked on lies at or after the committed offset, also when a stop or
  a rebalance took its assignment away; as positions in the log are records of their
  own, what `Save` indexes was not committed (`CommittedIsFinalHolds`).
- `StartupProofs`.  `BeansInv`: what the main thread initialised stays so, and a
  complete startup has initialised all.  `AddedInv` ties a task about to answer to
  the queue, `LateInv` says that a late request was accepted by a complete process
  and has its buffer, `CutInv` that a buffer which cut a late datagram is not used
  again.
- `LogSearchProofs`.  `TurnInv`: a blocked button means that there is one request
  or one answer at most, and it belongs to the search clicked last.  `AnswerInv`:
  that answer has only wanted logs and is for the configured account.
- `RingLogProofs`.  Every step of `RingLog` is a step of `TcpServer`, of `MqServer`
  and of `KafkaServer`, or leaves their variables alone, so it implements the three
  (`ImplementsComponentsHolds`) and their theorems carry over, which is what
  `GuaranteesComposeHolds` puts together.  `JointGuardsHold`
  shows that joint steps do not wait for each other: the queue has not seen the
  payload a task adds next, nor the log the record the Kafka client sends next.
- `LogDeliveryProofs`.  `PlaceInv` collects from the components what the place of
  a message rests on: one payload per message (`TcpServer`), each payload in one
  place (`MqServer`), only records are indexed and no batch holds what the
  consumer has passed (`BehindInv` of `KafkaServerProofs`, which is true of a
  batch whose assignment was lost as well).  Then each step moves messages as
  `LogDelivery` allows: `AddAccepts`, `TransmitStores`, `SaveIndexes` forward,
  `Leaves` and `Passes` to the lost ones; all others
  stutter.  `MessagesMoveForwardHolds` draws from the refinement what it says of
  one message: no step takes a fate back.

Assumptions are the named ones of the modules: parts lie in their wholes
(`Parsable`, `List`, `Form`, `BeforeNul` in `Length`), special values are no
ordinary ones (`None`, `Empty`, `Zero`), sizes and limits are positive, threads,
connections and logs are finite.

Liveness.  `AcceptedAreServed`, `ListenersComeUp` and `LoadingEnds` are theorems
of the form `FairSpec /\ []E => P`.  The prover knows nothing of `ENABLED`, so
what is enabled is the hypothesis `E`: `TasksNeverBlock`, `SpinCanEnd` and
`NothingIsStuck` say that a task at one of its calls, a spin after the startup,
a request or an answer on its way can take its next step.  `TasksNeverBlock` and
`NothingIsStuck` repeat guards of the fair actions and are hypotheses only; no
run lists them, but TLC checks the conclusions `AcceptedAreServed` and
`LoadingEnds` under `FairSpec` alone.  `SpinCanEnd` and `CompositionNeverBlocks`
could fail (a startup that forgets a port, a payload added twice), so the runs
`startup` and `ringlog` check them.  The guards that are more than a look at one
variable are proved for all constants: a complete startup has set every port
(`PortsAreSetHolds`), and a request on its way always has a page to be answered
with (`RequestsAreServableHolds`), for which a set of hits must have a subset of
every smaller size.  The rest is proved for all constants: an accepted connection
goes through `read`, `add` and `reply` and nobody but its task moves it, a
blocked button always has a request or an answer on its way (`BusyInv`), a
complete startup has started both listeners
(`StartedInv`).  `AcceptedAreServedHolds` of `RingLogProofs` says of the whole
process what the theorem of that name says of `TcpServer` alone.  Its hypothesis
is `CompositionNeverBlocks`, which the run `ringlog` checks and whose guards are
proved (`JointGuardsHold`).

Only model-checked are `EveryPayloadSettles`, `Served`, `EveryListIsTried` and
`EveryMessageSettles`.  They need fairness as well as induction over data: on
what is ahead in a queue, in the backlog or in the log, which some step serves,
not necessarily the one waited for.  `Served` adds to `AcceptedAreServed` just
that the backlog is emptied.  The `ENABLED` formulas themselves, `SpinCanEnd` and
`CompositionNeverBlocks`, are checked, and only their guards are proved.  The
disagreements of section 3 are counterexamples and need no proof.

## 5. Not modelled

- The contents of logs, their encoding and fastjson's grammar: a payload is an
  identity with a length, for TCP also with the place of its first U+0000, and parses
  or does not.  Re-encoding with the platform's charset is left out.
- A reset that the kernel sends when a socket is closed with unread input, which
  may destroy the `ok` on its way.
- Exhaustion of memory by the queue or by threads, and any other `Error`: a
  consumer thread catches `Exception` only, and such an `Error` would end it.
- A thread that never sees `size` or `mq` although the startup is complete: the
  fields are plain, and only the read of `port` in the spin, which a compiler may
  hoist, is modelled with that freedom.
- Several partitions, several consumers of the group.
- Promises the code does not make.  Some hazards listed in `PROJECT.json` have no
  property: payloads in memory die with the process, `acks=0` loses records
  unseen, a failed `saveAll` is committed, a consumer without a committed offset
  starts at the end of the log, a client that retries doubles its message, an
  aborted startup keeps listening.  The models contain these steps (what is lost
  goes to `lost` or `skipped`), and the properties bound what they can do; they do
  not rule them out.
- `EsConfig`, `InterceptorConfig`: wiring without state.
- UDP payloads in `RingLog`: nobody is told about them, and once queued they
  take the same way as those from TCP.
- `chunk-vendors.753eb326.js` beyond the two places named above: third-party
  libraries, minified (Vue, axios, ant-design, moment with its locales).
- Highlighting, rendering and the formatting of level and time in the console;
  GET and OPTIONS requests, which the access check lets pass; which hits
  Elasticsearch ranks first.

## 6. State of the work

All components that keep state are modelled and composed, every safety property
is checked and proved, but for the two about `ENABLED`, and three of the seven
liveness properties are proved from what is enabled.  Should the code change, the
components are independent of each other: a module, its run and its proofs
change together, and `RingLog` only if what it shares with its neighbours does.
