# A verification project for the TWS service

The repository is a drogon HTTP service with two long-lived back ends: a pool of
connections to Interactive Brokers' TWS (`src/src/ibkr`), over which HTTP handlers
ask for price snapshots, and a pool of AMQP connections to RabbitMQ
(`src/src/messaging`). Both are small state machines driven by several threads, by
callbacks of an SDK and by the network. That is where the program is hard to test,
and it is what these TLA+ modules model.

Only `src/CMakeLists.txt`'s sources are built: `src/src/**` and `src/include/**`. The
directories `src/messaging` and `src/ibkr` hold byte-for-byte copies of some of the files,
and `src/controllers` others; nothing here speaks of them. Below, `connection_slot.cc`
stands for `src/src/ibkr/connection_slot.cc`, and so on.

| file | what it is |
|---|---|
| `SnapshotService.tla` | abstract specification: what callers of `requestStockSnapshot` are promised |
| `ConnectionSlot.tla` | `ibkr::ConnectionSlot`, its four kinds of threads, and its properties |
| `ClientPool.tla` | `ibkr::ClientPool` composed with its slots |
| `PricingController.tla` | the HTTP handlers composed with the pool |
| `PublishService.tla` | abstract specification: what callers of `publish` are promised |
| `RabbitMqBroker.tla` | `messaging::RabbitMqBroker` on its event loop |
| `BrokerConsumers.tla` | the broker's consumers, and what `/messaging/status` says, composed with the broker |
| `AmqpTrantorHandler.tla` | the sockets of the AMQP connections in the loop's poller |
| `IbkrProbe.tla` | `ibkr::probeConnection` |
| `BrokerConfig.tla` | `BrokerConfig::fromEnvironment`, as operators |
| `Service.tla` | the process: bootstrap, request routing, exit |
| `*Proofs.tla` | theorems about every instance of a module |
| `MC*.tla`, `*.cfg` | the instances TLC checks |
| `PROJECT.json` | components, runs, mutants, the map from definitions to source lines, findings, hazards, theorems |

Run `tlc -config slot_safety.cfg MCConnectionSlot.tla` (PROJECT.json names the module of
each `.cfg`) and `tlapm M.tla` with each `*Proofs.tla`.

---

## 1. Inventory

### ConnectionSlot (modelled)
* **State.** `connected_`, `connecting_`, `next_req_id_`, `pending_stk_` and `reader_`
  under `mutex_`; the atomic `reader_running_`; `reader_thread_`; the SDK's socket and
  its `EReader`, with a thread and a queue of their own.
* **Operations.** `connect`, `disconnect`, the destructor (the pool's monitor, or the
  thread that shuts down); `requestStockSnapshot`, `cancelMktData` (the HTTP thread);
  `readerLoop` and, from `processMsgs`, `tickPrice`, `tickSnapshotEnd`, `error` (the
  reader thread); `connectionClosed` (the EReader's thread).
* **Hard.** Four threads take the same pending request; `mutex_` is held across calls of
  an SDK that calls back; flags are set in several critical sections; every connection
  starts again at the first request id; a raw thread object that must be joined.
* **Correct when** a request is answered exactly once, with its own prices, whatever the
  connection does; no slot says connected without a connection; every thread is joined;
  `mutex_` is released.

### ClientPool (modelled)
* **State.** `slots_`, `next_slot_index_`, `running_`, `monitor_thread_`, `mutex_`.
* **Operations.** `initialize` and `shutdown` (main), `requestStockSnapshot` (HTTP),
  `checkConnections` (monitor); `isAnyConnected`, `status`, `getPrimarySocket` only read.
* **Hard.** One mutex serves three threads and is held while a connection is opened or
  closed; a slot is looked at and then used; shutdown joins a thread that wants the mutex.
* **Correct when** a slot has one owner at a time, calls return, a refusal is justified,
  and a shutdown leaves nobody waiting.

### RabbitMqBroker (modelled)
* **State.** `started_`, `slots_`, `subscriptions_`, `publishCursor_`, `queuedPublishes_`;
  per slot the connection, `publisherChannels`, `consumerChannels`, `pendingPublishes`,
  `ready`, `reconnectScheduled`, `reconnectDelay`.
* **Operations.** `start`, `stop`, `subscribe`, `publish`; the tasks of `connectSlot`,
  `handleSlotReady`, `handleSlotFailure`, `publishOnLoop`, `startConsumer`; the timer of
  `scheduleReconnect`; the callbacks of a consumer's set-up and of a message; `snapshot`.
* **Hard.** A failure is reported up to three times; tasks about an old connection run
  after the new one is made; a publish moves between the task queue, a deque and a
  channel; a counter is kept beside the deques; start and stop run on another thread; a
  set-up holds a raw pointer to a channel between its calls.
* **Correct when** no publish is lost or repeated, a failed slot has exactly one reconnect
  under way until it works, every message of a subscribed topic is observed, and what
  `/messaging/status` reports is true.

### The rest
| component | state and operations | hard; correct when | status |
|---|---|---|---|
| AmqpTrantorHandler | `sockets_`: the loop's channels of each connection; `monitor`, `applyMonitor`, `onDetached`, `teardown` | descriptors are closed and reused, by other connections of the loop; correct when an attached connection is woken for exactly what it asked for, and the loop calls nothing that is gone | modelled |
| MessagingRegistry | `broker_`, `observedMessages_`; `publishTopic`, `recordObservedMessage`, `statusJson` | the routing key and the queue's binding come from one variable by two ways | modelled |
| BrokerConfig | none: parses the environment | defaults, limits, casts, values that are rejected | modelled |
| IBKR probe | one attempt's flags; `run`, `probeConnection` | an answer, a refusal, a notice, a lost socket and the deadline in any order; correct when it skips only used ids and leaves nothing behind | modelled |
| PricingController | none: answers from the pool | answers come on four kinds of threads; the HTTP callback is called exactly once | modelled |
| MessagingController, OrdersController | none | answer at once | modelled |
| main.cc | bootstrap, beginning advice, exit handler; `stripPathPrefix` | order of destruction of the singletons; where a prefix ends | modelled |
| IMessageBroker | an interface | | partly: `PublishService` |
| legacy copies, build and container files, TWS SDK overlay | | | not modelled |

### How they interact
`main` builds a `RabbitMqBroker`, gives it to `MessagingRegistry`, subscribes, initializes
`ClientPool` and runs drogon with one IO thread (`setThreadNum(1)`, main.cc:147); drogon's
beginning advice starts the broker; an exit handler stops the broker and shuts the pool
down. HTTP handlers run on the IO thread: they call `ClientPool::requestStockSnapshot`,
which takes the pool's mutex and then a slot's, and `MessagingRegistry::publishTopic`,
which queues a task on the broker's loop, the same IO thread. Answers of TWS come back on
a slot's reader thread or on the EReader's; AMQP-CPP calls back on the loop.

---

## 2. The modules

### SnapshotService
Four variables a caller sees: what was `asked`, how often a request was `answered` (its
`onSuccess` or `onError` called), whose prices are in the answer (`snapshot`), what was
`cancelled`. A request is asked (or refused in the same call); while it is open it may
succeed with its own prices, fail (alone, or with others when a connection goes away) or be
cancelled; it never does two of these.

### ConnectionSlot
A function over `Slots` for each member of the class. Each thread has a program counter,
and **a block under `mutex_` is one action**: `opc` for the owner (`DisconnectCheck`,
`DisconnectStop`, ... are the sections of `disconnect()`, `ConnectBegin` ...
`ConnectThread` those of `connect()`), `rpc` for `readerLoop`. `hand` is the callback that
`tickSnapshotEnd` or `error` moved out of the table and calls after unlocking, so the gap
between the two is in the model. `purpose` remembers which call `disconnect()` is part of,
because `connect()` and the destructor begin with it.

The SDK is `socket`, `closing` (the EReader thread has found the socket dead and is about
to call `connectionClosed`), `wire` (snapshots TWS works on) and `inbox` (the EReader's
queue). `connectionClosed` is a step of its own, so it may fall between any two sections of
`connect()` and `disconnect()`.

Two outcomes are states instead of steps the model leaves out:
* `wedged`: a thread waits for itself under `mutex_`. `reqMktData` and `cancelMktData` are
  called with `mutex_` held; on a socket the SDK has already closed they report through
  `error()` on the same thread, which locks `mutex_`. And `reader_.reset()`, under `mutex_`,
  waits for an EReader thread that may be on its way into `connectionClosed`. Every
  action that needs `mutex_` has `~wedged[s]` in its guard.
* `fault`: `std::terminate` (a joinable `std::thread` is assigned or destroyed) or a freed
  EReader in use. Nothing happens afterwards.

History variables: a message carries the request TWS sent it *for* (`req`) beside its id,
so that "the right prices" can be said; `wrapped` records that the ids have started again.

Abstracted: prices are "a price arrived"; hosts, versions and `last_error_*` are left out.

### ClientPool
EXTENDS ConnectionSlot. `mutex_` has a holder; `monitor`, `http` and `main` are the program
counters of the three threads that take it, and the pool makes every call of `ConnectCall`,
`DisconnectCall` and `DestroyCall`. The slots' own steps run freely in between, so a slot
may go down between `isConnected()` (`HttpScan`) and `requestStockSnapshot` (`HttpAsk`).
`next_slot_index_` is kept modulo the number of slots; the code reduces the unbounded
counter when it uses it. One HTTP caller at a time, because there is one IO thread.
`isConnected()` and `status()` read under the same locks and change nothing.

### PricingController
EXTENDS ClientPool. `bySecType` refuses at once or calls the pool with two callbacks, which
answer through `postToAppLoop`: inline when the pool refuses on the IO thread
(`AnswersInline`), otherwise as a task of the IO loop (`queued`, `Deliver`). `Given` reads
off a step of the pool which requests it answered, so every step that answers takes its
answers along. The loop ends before the pool is shut down: the answers that `shutdown` gives
are never sent. `StatusCall` stands for the handlers that only ask for `status()`, which
waits for the same mutexes; `inStatus` is the IO thread in there. A handler or a task of the
loop starts only when that one thread runs no other (`IoFree`), and every step is a step of
`ClientPool` or leaves the pool alone.

### RabbitMqBroker
The loop's queue is a sequence of tasks and a task is one action (`RunConnect`, `RunReady`,
`RunFailure`, `RunPublish`, `RunStop`, `RunConsumer`): the loop runs one to its end before
the next. What the loop reads *before* it queues a task is a separate step: `Publish` reads
`started_` and `slots_`, then `PublishQueue` appends; `TimerFires` reads `started_`, then
`ConnectSlot` appends; `doing` is where the loop's thread is in between. A `subscribe`, on
whatever thread, is three steps, with `subscribing` in between: `Subscribe` pushes the
subscription under `mutex_`, `SubscribeChecks` reads `started_` and `slots_`, `SubscribeQueues`
appends the consumer's task. `main.cc` subscribes before it starts the broker; the model
also lets a caller subscribe while it runs or after its stop, as the class does. The main thread
runs `start` and `stop` and appends to the same queue, one slot at a time. `RunReady` does
all of `rebuildChannels` and `flushPendingPublishes`, as the code does in one task.

AMQP-CPP and the server are `link` (`opening`, `open`, `dead`), `broken` (channels the
server closed), `AmqpReady`, `AmqpFails` (with one to `MaxReports` failure callbacks) and
`ChannelFails`. A connection that is still opening takes channels and messages (`Usable`)
and sends them after the log-in; it may meet the `ready` task of the connection before it, and
then says `ready` early. A channel that is opened on a connection that is gone throws in the loop,
or makes `flushPendingPublishes` take the same publish again for ever: `loopLost`.

`Places` counts where a publish is: in the call, in a task, in a deque, on a channel,
rejected, or thrown away by `stop`. `Outcome` says the same for its caller, and maps the
broker to `PublishService`.

### PublishService
A publish is accepted while the service is open and only then, is sent once, and is dropped
only after the service was stopped. Several may be sent in one step (the flush of a deque)
or dropped in one (`stop`'s task).

### BrokerConsumers
EXTENDS RabbitMqBroker. `stage` is which of the five set-up calls of `startConsumer` waits
for its answer (`SetUpCalls`, each `onSuccess` making the next call), and the steps of the
broker are composed with what they do to the consumers: `ConnectionGoes`, `Replace`. A
consumer channel that is destroyed while answers are under way is an `orphan`: AMQP-CPP keeps
it until the server has closed it, and an answer that comes first runs a callback with a freed
`AMQP::TcpChannel *` (`OrphanAnswered`, which loses the loop). `mail` is a topic's message at
the server, which takes back what was not acknowledged. `StatusJson` is `snapshot` and
`statusJson`.

### AmqpTrantorHandler
`sockets_` of every slot's handler, the `poller` of the loop they share, and what AMQP-CPP
`asked` for last on each descriptor. `Monitor` is `monitor` and `applyMonitor`, `OnDetached`
the `teardown`; `Connect` and `Stop` replace or drop a handler and then its connection, in the
order of `connectSlot` and `stop`. The loop takes a set of active channels (`Poll`) and goes
through it (`Returns`) while the callbacks do any of the above; a channel that is destroyed
while it is active (`freed`) is used once more, after which the loop may be lost.

### IbkrProbe
The caller's thread by `place` (`Begin`, `Connect`, `ReqCurrentTime`, `Wait`, `Process`,
`Look`, `Returns`), the EReader's thread by `ConnectionClosed`, TWS by `TwsRefuses`,
`TwsAnswers`, `TwsNotifies`, `SocketLost`. Which ids other sessions use is chosen at the
start, one below the range included, so that a probe that ran on would be seen. `retried`
remembers the ids that were given up.

### BrokerConfig and Service
`BrokerConfig` has one operator per function, and beside it a predicate for its throw.
A text is a word, which no digit leads, or a number and the rest behind its digits: `Text(1,
"e3")` is `1e3`. `SizeMax` and `Uint16Max` are the greatest numbers of the two types: `stoull`
takes the number a text begins with and throws when there is none or it does not fit, and
wraps one below zero (`ParseThrows`, `Parsed`); the cast to `uint16_t` cuts off. `Service` runs `main` step by step over a set
of environments; `exits` is the list that `std::atexit` and the constructions of the
singletons push to and the exit pops from; `touched` records an instance that the exit handler
calls after its destruction and finds something in. `StripPathPrefix` works on
sequences of pieces of text. `Publish` is `MessagingController::publish` with
`MessagingRegistry::publishTopic`; `RoutedTo` is how RabbitMQ routes.

---

## 3. The runs

| run | instance | shows |
|---|---|---|
| `slot_safety` | 1 slot, 3 requests, 3 ids, 2 connects | `TypeOK`, `AnsweredAtMostOnce`, `NoRequestLost`, `OwnSnapshot`, `NotStranded` |
| `slot_liveness` | 1 slot, 2 requests, 3 ids, 2 connects | `ImplementsService`; under fairness `EveryRequestAnswered` |
| `pool_safety` | 2 slots (slot 0 connects twice, slot 1 once), 2 requests | `PoolTypeOK`, `OneOwner`, `NoFalseRefusal`, `ShutdownDrains` |
| `pricing_liveness` | 1 slot, 2 connects, 1 request | `RespondedAtMostOnce`; under fairness `HandlersReturn`, `ShutdownCompletes`, `EveryRequestResponded` |
| `broker_safety` | 2 slots x 2 channels, 2 publishes or 1 and a subscription, 2 faults, up to 2 reports each | `ExactlyOnePlace`, `QueuedCountExact`, `WaitsForReady`, `ReadyIsTrue`, `OneReconnect`, `ReconnectUnderWay`, `ImplementsPublishing` |
| `broker_consumers` | 1 slot, 1 publish, 1 topic with a message, 2 faults, up to 2 reports each | `ConsumersTypeOK` with the backoff, `ReadyTopicsServed`; under fairness `Recovers`, `GoesOut`, `EveryMessageObserved` |
| `amqp_handler` | 2 slots, 2 descriptors, 3 connections | `TypeOK`, `Served`, `RegisteredIsAlive` |
| `ibkr_probe` | ids 1..3, 2 notices | `TypeOK`, `OnlyUsedIdsSkipped`, `NothingLeftBehind`, `ReportIsTrue`; under fairness `Returned` |
| `service` | 2327 environments, 16 paths | `ServedAsConfigured`, `StripsOnlyThePrefix`, `ReachesItsQueue`, `ServesWithEverything`, `ExitTouchesNothing` |
| `slot_not_joined`, `slot_locked_up`, `slot_false_connected` | smallest instance | violated: see the findings |

Every property of a passing run has a mutant: a definition of the model changed the way a
plausible bug would change the code (a table emptied without calling the callbacks, a
connection published with the old queue, a scan that gives up after one slot, a counter
not updated, ...), under which TLC finds the property violated. The mutants stand before
the definitions they replace, marked `\* Mutant`.

### Bounds, and why they are enough
* **Slots.** Slots share nothing in `ConnectionSlot` except that ids differ, so one slot
  shows what one slot can do, and the theorems are for any number. The pool and the broker
  need two: a scan that moves on, a cursor that wraps, a shutdown that goes from one to the
  next. `pricing_liveness` and `broker_consumers` check liveness with one slot: a second one
  adds time to a wait and no kind of waiting.
* **Requests.** Two make one pending while another is answered; three on three ids
  reach the end of the range with two pending.
* **MaxConnects** = 2: a connection and a reconnect, so that state of the first can meet
  the second. The pool's monitor would reconnect for ever; a third connection starts
  from the same states as the second.
* **MaxInbox** = 1: a message may be left over when the connection changes. The bound
  delays TWS and loses nothing, and the theorems hold for every value of it.
* **MaxFaults, MaxReports** = 2: two failures reported twice let a report about one
  connection arrive at the next. AMQP-CPP may report three times; the third report meets the
  states of the second.
* **FewCalls**, a constraint of `broker_safety`: it explores two publishes, or one publish and a
  call of `subscribe`, at any time and with everything else. A subscription and two
  publishes at once are in the theorems, which are for any number of both.
* **MaxDelay** = 3 stands for the 30 seconds: two failures double the delay to 2 and then
  past the limit, as five would with 30.
* **Publishes** = 2 on two slots: with a stop and two faults each of them visits every
  place. Flushing a deque of several is the same step for any length.
* **One message per topic** stands for all: the consumer keeps no state from one to the next.
* **Descriptors and connections.** Two descriptors let a slot own both, or each one; three
  connections let a slot reconnect onto the other's descriptor. The theorems are for any
  number of each.
* **Client ids** 1..3: a first, a middle and a last attempt; two notices come before and after
  the answer. The theorems are for any.
* **SizeMax** = 255, **Uint16Max** = 31, **MaxReserve** = 16: the numbers 31, 32, 33, 255, 256,
  -1, -250 and -256 are on both sides of each limit; 3, 33 and 256 also stand before text
  that is no number. The environments deviate from the usual
  one in every variable, several at a time. The theorems are for any environments and widths.
* `SYMMETRY` is used in safety runs only, on requests and publishes, which nothing orders.
* `CHECK_DEADLOCK FALSE` everywhere: the bounded inputs run out, a shutdown ends,
  and a process may be gone.

### Fairness, and why the code justifies it
* Weak fairness of each thread: the scheduler runs a thread that can run. The reader's wait
  for a signal has a time-out of 200 ms, so its loop always comes round.
* Weak fairness of the slot's owner (`OwnerSteps`) and of the probe's caller means that a call
  of the SDK comes back, **`eConnect` included**, which the pool calls under its mutex.
  `HandlersReturn`, `EveryRequestResponded`, `ShutdownCompletes`, `EveryRequestAnswered` and
  the probe's `Returned` assume that it returns. The code sets it no time-out: the probe's
  deadline (ibkr_probe.cc:55) starts after `eConnect` (:38), so if `eConnect` hung on a peer
  that accepts and stays silent, so would whoever waits for it.
* Weak fairness of `SubscribeGoesOn`: the thread that calls `subscribe` ends the call.
* Strong fairness of `Main`, `Http` and `StatusReturns` in the pool: the monitor sleeps five
  seconds between two rounds *without* the mutex, so whoever waits for it gets it. A monitor
  that slept with it is the mutant of `HandlersReturn`.
* Strong fairness of `Deliver`: the IO loop runs what is queued, between handlers.
* Strong fairness of `TwsFinishes`: TWS ends each snapshot, with its end message or an
  error, on a connection that stays up. Without this `EveryRequestAnswered` cannot hold: the
  code has no time-out for a request.
* Strong fairness of `AmqpReady` and `TimerFires`: a server that is up lets a connection in
  if it is tried again and again, and a timer that runs fires. Strong fairness of `Answered`
  and `Received`: on an open connection the server answers, and delivers what it has. Faults
  are bounded, so connections do not fail for ever.
* Strong fairness of the probe's `TimesOut`: its loop comes by the deadline again and again.
* Nothing is assumed of callers, of socket losses or of `stop` and `shutdown`.

`EveryRequestAnswered`, `HandlersReturn`, `EveryRequestResponded` and `ShutdownCompletes`
except a halted slot (`wedged`, `fault`), and `Recovers`, `GoesOut` and
`EveryMessageObserved` a stopped broker and a lost loop. These exceptions are states the code
really reaches (findings 1 and 2, and the hazards at rabbitmq_broker.cc:232 and 343); the
properties say that nothing *else* keeps a caller waiting.

---

## 4. What is proved

### ConnectionSlot
`ConnectionSlotProofs.tla` proves, for every finite or infinite set of slots and of
requests, every range of ids and every bound (`SlotsAssumption`, `NoReqAssumption`,
`RangeAssumption`, `BoundAssumption`):

| theorem | statement |
|---|---|
| `TypeCorrect` | `Spec => []TypeOK` |
| `AnswersOnce` | `Spec => []AnsweredAtMostOnce` |
| `LosesNothing` | `Spec => []NoRequestLost` |
| `AnswersWithOwnPrices` | `Spec => []OwnSnapshot` |
| `StrandsNothing` | `Spec => []NotStranded` |
| `Implements` | `Spec => ImplementsService` |

None of these is inductive alone. The invariant is `IInv == TypeOK /\ TableInv /\ ThreadInv`.

*`TableInv`: what the table and the messages say of requests.*
* `OneHolder`: a request is held in at most one place (one entry of one slot's table, or
  one hand), and while it is held it is asked, not answered and not cancelled. So whoever
  takes it out is the first to answer it, which `AnsweredAtMostOnce` alone does not say.
* `FreshRequests`: nothing happens to a request before it is asked, so asking cannot make
  a second holder; and it shows no prices before it is answered.
* `IdsFree`: until the ids wrap, nothing is pending at or beyond `next_req_id_`, so a new
  request overwrites nobody (`NoRequestLost`).
* `OwnMessages` and `OwnSnapshot`: until then, what TWS works on, every message in the queue
  and every tick under an id is for the request that is pending under it, if any. `connect()`
  starts at the first id again, so this needs that the queue goes with the old EReader.

*`ThreadInv`: where the threads are.*
* `OwnerInv`: the flags, the socket and the owner's place agree; for instance nothing is
  asked of TWS on a connection that `connect()` has not published, and a slot that says it
  is not connected has no socket outside the sections that open and close it.
* `ReaderInv`: only a live reader thread is inside a callback, and only the last part of
  `tickSnapshotEnd` and `error` holds a moved-out callback.
* `NotStranded`.

The proof has one lemma per action and conjunct it can disturb, `NextIInv` collects them,
and each theorem follows from `InductiveInvariant` with PTL. `Implements` maps each step to
a step of the service or a stutter, with the same variables on both sides.

### ClientPool
`ClientPoolProofs.tla`, for every number of slots (`PoolAssumption`) and all that
`ConnectionSlotProofs` leaves open:

| theorem | statement |
|---|---|
| `PoolTypeCorrect` | `PoolSpec => []PoolTypeOK` |
| `DrivenByOne` | `PoolSpec => []OneOwner` |
| `RefusesTruly` | `PoolSpec => []NoFalseRefusal` |
| `ShutsDownClean` | `PoolSpec => []ShutdownDrains` |
| `PoolImplements` | `PoolSpec => ImplementsService` |

`PoolTypeOK` says beside the types that the sum of the counter and the loop's index, reduced
as at client_pool.cc:87, is the index of a slot the pool has (`Candidate`): a scan looks at
no element beyond `slots_`. That needs `FilledInv`: while a scan is under way `slots_` is full.

The slots' invariant `IInv` carries over: a step of the pool leaves the slots alone, makes one
of their calls, is a step of one slot, or refuses a request, which to a slot is the refusal of
one that is not connected (`StepKinds`, `SlotsMove`, `RefusesIInv`). That is also why the whole
pool implements `SnapshotService` as one slot does (`PoolImplements`). The pool adds
* `MutexInv`: who holds `mutex_` is where the code holds it, so that `OneOwner` is inductive;
* `ScanInv`: the slots a scan has left behind are not connected. They stay so because a slot
  comes up only in `connect()`, which needs the mutex that the scan holds. That the offsets of
  a whole round meet every slot is `ScanCovers`, arithmetic of `%` (`Remainders`);
* `DrainInv`: a destroyed slot has no connection and no reader thread, or the process is gone;
  a shutdown has destroyed the slots it has passed. With the slots' `NotStranded`, `ReaderInv`
  and `NoRequestLost` this is `ShutdownDrains`.

### PricingController
`PricingControllerProofs.tla`, from the same assumptions:

| theorem | statement |
|---|---|
| `RespondsOnce` | `PricingSpec => []RespondedAtMostOnce` |
| `PoolUnderHandlers` | `PricingSpec => PoolSpec` |
| `ServesHandlers` | `PricingSpec => ImplementsService` |

`PricingInv` says of every request that either `bySecType` answered it, and then it never went
to the pool (`RefusedHere`), or as many responses are called and queued as the pool has given
answers (`PassedOn`). The bound of one is the pool's `AnsweredAtMostOnce`, which is why the proof
carries `PoolIInv` along: `AnswerFacts` is all it takes from it. What has to be shown is that no
thread of the pool asks for a request by itself (`ThreadsAskNothing`), so one that was refused
stays without answers, and that a step which answers takes its answers along (`PoolAnswers`).
`PoolUnderHandlers` makes every theorem about the pool one about the service.

### RabbitMqBroker
`RabbitMqBrokerProofs.tla`, for every number of slots, channels, publishes, topics, faults and
reports of a fault, and every `MaxDelay` (the assumptions of `RabbitMqBroker`):

| theorem | statement |
|---|---|
| `BrokerTypeCorrect` | `Spec => []TypeOK` |
| `CountsQueued` | `Spec => []QueuedCountExact` |
| `ReadyTruly` | `Spec => []ReadyIsTrue` |
| `NothingStuck` | `Spec => []WaitsForReady` |
| `ReconnectsOnce` | `Spec => []OneReconnect` |
| `NoSlotForgotten` | `Spec => []ReconnectUnderWay` |
| `NeitherLostNorRepeated` | `Spec => []ExactlyOnePlace` |
| `ServesPublishers` | `Spec => ImplementsPublishing` |

`BrokerInv` is the conjunction of
* `TypeOK` and `TypedTasks`: a publish's task carries a publish, a consumer's a topic;
* `CountInv`: the deques hold finitely many publishes and `queuedPublishes_` counts them;
* `FlagInv`: a slot that says ready but has no channels, a closed channel or no usable
  connection has its failure queued. A failed publish goes back to the deque only then, which
  makes `WaitsForReady` inductive;
* `MainInv`: `started_` follows the main thread, and tasks of stop come from stop;
* `ReconnectInv`: a reconnect is on its way in one form, and, while the broker runs, exactly
  when `reconnectScheduled` says so. The exception is the first connect of a slot, which
  `start` queues without the flag; it is harmless because a slot that never had a connection
  (`Fresh`) has no failures to report;
* `UnderWayInv`: `ReconnectUnderWay` from the moment `start` comes by a slot. When a failure
  finds `reconnectScheduled` set and schedules nothing, `ReconnectInv` says why that is right;
* `PlaceInv`: a publish is in one of six places and there once. Of a deque both ends matter:
  `Append` keeps the indices of the others and `push_front` moves them (`LiesAdded`).

There is one lemma per conjunct; actions are grouped by what they do to the loop's queue (take
the first task, append one, append a report), stated once in `TaskRuns`, `OthersKeep` and
`OthersQueue`. `ServesPublishers` maps a flush to one `Send` of all the publishes in the deque,
a publish's task to a `Send` of one or a stutter, and a task of stop to a `Drop`.

### BrokerConsumers
`BrokerConsumersProofs.tla`, for all that and every set of topics on any slots:

| theorem | statement |
|---|---|
| `ConsumersTypeCorrect` | `ConsumersSpec => []ConsumersTypeOK` |
| `StatusTellsTopics` | `ConsumersSpec => []ReadyTopicsServed` |
| `BrokerBesideConsumers` | the broker's six safety properties hold of `ConsumersSpec` |
| `ServesBesideConsumers` | `ConsumersSpec => ImplementsPublishing` |

`ConsumersInv` is `BrokerInv` with
* `ServedInv`: while the broker runs and its loop lives, a subscribed topic of a ready slot has
  a consumer or a set-up under way, its task is queued, or the slot's failure is. Unlike
  `ReadyTopicsServed` it speaks of the flags of the slot and not of the status, which
  `start` still fills the slots for;
* `OwnTasks` and `OwnTopics`: the task of a topic is queued for the slot the topic is on, and a
  slot has consumers of its own topics only, so that a failure of one slot takes none of another.

Every step of the composition is a step of the broker, one that it does not see, or the answer to
an orphan, which may cost the loop (`BrokersPart`); `OrphanInv` shows that
`BrokerInv` survives the lost loop. A topic loses its consumer only with its slot's connection or
channel, and then a failure is queued (`Drops`, `Closes`), or `connectSlot` has taken the flag
away; it gains a task in `Rebuilds`, and running that task gives it a consumer (`Start`).

`ReadyTopicsServed` has four alternatives, and the fourth is a call of `subscribe` that has
pushed its subscription and not yet queued the consumer's task (`CallGoesOn` follows it to
its end). Without it the property is false of the code: `snapshot` runs in between and lists
the topic of a ready slot (see 5).

### AmqpTrantorHandler
`AmqpTrantorHandlerProofs.tla`, for every set of slots and descriptors and every number of
connections (`NoSlotAssumption`, `ConnectionsAssumption`): `TypeCorrect`;
`ServesTheAttached`, `Spec => []Served`; `CallsOnlyTheLiving`, `Spec => []RegisteredIsAlive`.
The invariant is `TypeOK /\ KeptIsRegistered /\ RegisteredIsAlive /\ Served`.
`RegisteredIsAlive` leads from the poller to the handlers; a `teardown` needs the way back,
`KeptIsRegistered`: what a handler keeps is registered under its own slot, so that destroying
it takes no other slot's registration along. Each kind of step has a lemma; closing a
descriptor changes nothing in the poller, because the handler had dropped it before
(`CloseStep`).

### IbkrProbe
`IbkrProbeProofs.tla`, for every range of ids, every set of ids in use and every number of
notices (`IdsAssumption`, `NoticesAssumption`): `TypeCorrect`; `SkipsOnlyUsedIds`,
`LeavesNothingBehind`, `ReportsTheTruth`. Code 326 and an answered time are about the present
attempt's id (`OwnFlags`) because the messages in the inbox are (`OwnInbox`), and those are
because an attempt begins with nothing of the one before (`Clean`); `GivenUp` adds that the
ids above the present one are exactly those that were given up. `ReturnsStep` is one lemma for
the three ways an attempt ends.

### Service
`ServiceProofs.tla`, for every set of environments, paths and handlers' paths, every text in a
variable, every route prefix and all widths of the integers (`EnvironmentsAssumption`,
`PathsAssumption`, `WidthAssumption`, `ReserveAssumption`):

| theorem | statement |
|---|---|
| `ConfiguredTruly` | `Spec => []ServedAsConfigured` |
| `StripsTruly` | `Spec => []StripsOnlyThePrefix` |
| `ReachesTheQueue` | `Spec => []ReachesItsQueue` |
| `ServesWhole` | `Spec => []ServesWithEverything` |
| `ExitsClean` | `Spec => []ExitTouchesNothing` |

`LifeInv` follows `main` and the exit step by step: which singletons exist, and what the exit has
still to run. `ExitTouchesNothing` needs the whole list, because it is the order of registration
that takes the pool before its handler. `ConfigInv` ties the configuration, the subscriptions
and the slots to the environment, and the last request and publish to the operators that
made them. The rest is about those operators: `SizeGiven` and `Uint16Given` (what is made of a text
that does not throw is the number it begins with, or that was below zero), `FindsTopic` (the two topics
differ), and, element by element, `TakesThePrefix` and `FindsTheRest` (what is taken off a path is
the prefix, and what was put behind a prefix is found again).

The assumption that the variables hold words, or numbers with a rest, restates what the model calls a
variable; that a handler's path begins with a slash is how drogon registers it.

**Proof reach.** Liveness under fairness and ENABLED are beyond the prover, so
`EveryRequestAnswered`, `HandlersReturn`, `EveryRequestResponded`, `ShutdownCompletes`,
`Recovers`, `GoesOut`, `EveryMessageObserved` and `Returned` are only model-checked. Every
invariant that a passing run checks, and both refinements, are theorems. The theorems are about the model: that its actions are those
of the C++ is argued by the map in `PROJECT.json`, which names the lines of every definition.

---

## 5. Findings

Each is a run that TLC ends with a counterexample, against a sentence of the repository.

1. **`slot_not_joined`** (connection_slot.cc:78). `connectionClosed` resets `connected_` and
   `reader_running_`. The next `disconnect()` sees all three flags false and returns before
   it joins `reader_thread_`; `connect()` then assigns to a joinable `std::thread` at line
   67, or the destructor destroys it: `std::terminate`. The skill file says "joins reader
   thread". So any reconnect after a lost connection ends the process, or, when the old
   thread is inside `processMsgs`, first frees the EReader under it.
2. **`slot_locked_up`** (connection_slot.cc:203). A call of the SDK under `mutex_` on a
   socket that has just been closed comes back through `error()`, which locks `mutex_`
   again. `requestStockSnapshot` then never returns and holds the pool's mutex as well.
3. **`slot_false_connected`** (connection_slot.cc:57). The EReader runs from line 52 on;
   `connectionClosed` before line 57 is overwritten by `connected_ = true`. The monitor
   skips the slot from then on.

What the models show beside that, against no sentence of the repository:
* The pool's mutex is held across `eConnect`, `join` and `eDisconnect` (client_pool.cc:113),
  so every HTTP handler that needs the pool, and with it the only IO thread, waits for a
  connection attempt.
* When the ids wrap (after 100000 requests on one connection) onto one that is still pending,
  the older request is overwritten (connection_slot.cc:195), which is why several properties
  say "until the ids wrap".
* A slot that goes down between `isConnected()` and `requestStockSnapshot()` refuses a
  request that another slot could have served (client_pool.cc:88).
* `stop`'s task clears the deque (rabbitmq_broker.cc:64), and the completions of publishes
  that were accepted are never called.
* A consumer's set-up that is overtaken by a failure, or by a second subscription of the topic,
  may run a callback with a freed channel (rabbitmq_broker.cc:343).
* A topic that is subscribed while the broker runs is listed as ready from the push of its
  subscription (rabbitmq_broker.cc:90) on, when its consumer's task is not yet queued (:96).
  `main.cc` subscribes before the start, so that no caller of today meets it.
* A channel is destroyed out of its own callback (amqp_trantor_handler.cc:112).
* A notice after error 326 in the same batch, or a lost socket's own error, overwrites the code: the
  probe then gives up instead of trying the next id (ibkr_probe.cc:117).
* The pool's singleton is constructed after the exit handler is registered, so the handler
  calls `shutdown` on a destroyed pool; its destructor has left nothing to do (main.cc:132).
* Numbers below zero wrap: a pool of -1 connections ends the process (broker_config.cc:51), and
  the last before the lower limit of `stoull` become small and are served with.
* Of a number only the leading digits count (`stoull`, `stoul`, `atoi`): `RABBITMQ_PREFETCH`
  set to `1e3` is served as 1, `10x` as 10, and an `IBKR_SLOTS` of `4x` as 4, without a word
  (broker_config.cc:51, :60, main.cc:30). The parse fails only when no digit leads or the number
  is too large. An
  `IBKR_SLOTS` that is empty or a word means no slots. A `TWS_ROUTE_PREFIX` that ends in a
  slash matches no usual path.

## 6. Assumptions about code outside the repository

*IBKR SDK.* A lost socket is followed by `connectionClosed` on the EReader's thread; a call
on a closed socket reports through `error()` on the caller's thread; destroying an EReader
waits for its thread; the owner's `eDisconnect` does not call `connectionClosed`. TWS answers
a client id in use with error 326 and closes. `eConnect` returns, with a connection or without:
the liveness properties rest on it (see Fairness).

*AMQP-CPP.* Callbacks run on the loop's thread. A failed connection is reported one to three
times. A publish fails iff its connection is dead or its channel closed. It asks
`monitor(fd, 0)` before it closes a descriptor unless the connection is detached or being
destroyed, makes no call after `onDetached`, and reports nothing of a connection that is being
destroyed. A destroyed channel is kept until the server has closed it and reports until then.

*trantor and drogon.* A loop collects its active channels and then calls them one by one; the
kernel forgets a closed descriptor. One IO loop (`setThreadNum(1)`). Tasks queued after the
loop has ended never run.

*RabbitMQ* routes by exchange type and binding key; `#` matches every key. A message that comes
before the topic's queue is declared and bound is dropped by RabbitMQ: `Sent` counts
messages from when they are in the queue, which may be one of an earlier run, and
`EveryMessageObserved` speaks of those.

*C++.* The handlers of `std::atexit` and the destructors of statics run in the reverse order of
registration and construction.

*main.cc.* One `start`, one `stop`; `publish` sees `slots_` either empty or full (the code
fills the vector without a lock).

---

## 7. Not modelled, and what is left

Not modelled: the contents of JSON answers, logs and texts; the legacy copies and the build;
the TWS SDK overlay, which is not C++ of this service; `IMessageBroker` beyond what
`PublishService` states of `publish`, because it is an interface.

What could be proved next are the safety facts that liveness rests on: the steps of a leads-to
property need ENABLED and fairness, but that nothing takes progress back, for instance that
a consumer's set-up only goes forward until its channel is lost, is an action property.
