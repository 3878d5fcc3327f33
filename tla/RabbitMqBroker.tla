--------------------------- MODULE RabbitMqBroker ---------------------------
(***************************************************************************)
(* messaging::RabbitMqBroker: a pool of AMQP connections ("slots"), the    *)
(* publishes that wait for them, and their reconnects.                     *)
(*                                                                         *)
(* drogon runs one IO loop (setThreadNum(1)).  It is the loop of every     *)
(* slot, it runs the HTTP handlers that call publish, and AMQP-CPP calls   *)
(* back on it; everything else reaches a slot as a task queued in loop.    *)
(* A task runs to its end before the next, so a task is one action; a      *)
(* handler that first reads started_ and then queues a task is two, with   *)
(* doing in between, because the main thread runs start and stop meanwhile *)
(* and appends to the same queue.  subscribe, which a thread of its own may *)
(* call, is three: it pushes under mutex_, unlocks, reads started_ and     *)
(* slots_, and queues.                                                     *)
(*                                                                         *)
(* Abstracted: payloads, exchange and queue names; a consumer's set-up is  *)
(* one step here and five in BrokerConsumers, which also has the messages. *)
(* A channel opened on a connection that is gone throws or makes           *)
(* flushPendingPublishes spin: either way the loop runs no further task,   *)
(* loopLost.                                                               *)
(***************************************************************************)
EXTENDS Integers, Sequences, FiniteSets

CONSTANTS
    Slots,       \* slot indices, 0 .. connectionPoolSize - 1
    NumChannels, \* publisher channels of a connection
    Publishes,   \* one value per call of publish
    Topics,      \* one value per subscription
    SlotOf,      \* the slot a subscription's topic hashes to
    Nothing,     \* no publish and no topic
    MaxDelay,    \* seconds: the longest reconnect delay, 30 in the code
    MaxFaults,   \* bound: failures of connections and channels
    MaxReports   \* bound: failure callbacks for one lost connection

ASSUME SlotsAssumption == IsFiniteSet(Slots) /\ Slots = 0 .. Cardinality(Slots) - 1
                                             /\ Slots # {}
ASSUME ChannelsAssumption == NumChannels \in Nat \ {0}
ASSUME TopicsAssumption == SlotOf \in [Topics -> Slots]
ASSUME NothingAssumption == Nothing \notin Publishes \cup Topics
ASSUME DelayAssumption == MaxDelay \in Nat \ {0}
ASSUME FaultsAssumption == MaxFaults \in Nat /\ MaxReports \in Nat \ {0}

VARIABLES
    started_, slots_, subscriptions_,
    subscribing, \* where a call of subscribe is, once it has pushed its subscription
    ready, reconnectScheduled, reconnectDelay,
    publisherChannels, nextPublisherChannel, consumerChannels, pendingPublishes,
    link,        \* what became of the slot's TcpConnection
    broken,      \* publisher channels the broker closed
    faults,
    loop,        \* the tasks queued in the loop
    timers,      \* reconnect timers that run
    doing,       \* where the loop's thread is, between tasks or inside a handler
    loopLost,    \* the loop never gets to its next task
    main, mi,    \* the main thread, in start and stop
    publishCursor_, queuedPublishes_,
    requested,   \* the calls of publish that were made
    rejected,    \* ... that returned false, completion called with false
    published,   \* how often a message was given to a channel
    dropped      \* ... that stop threw away, completion not called

slotFlags    == <<ready, reconnectScheduled, reconnectDelay>>
channelVars  == <<publisherChannels, nextPublisherChannel, consumerChannels>>
amqpVars     == <<link, broken, faults>>
mainVars     == <<started_, slots_, main, mi>>
publishVars  == <<publishCursor_, queuedPublishes_, requested, rejected, published, dropped>>
vars == <<slotFlags, channelVars, amqpVars, mainVars, publishVars, subscriptions_,
          subscribing, pendingPublishes, loop, timers, doing, loopLost>>

NumSlots == Cardinality(Slots)
Channels == 0 .. NumChannels - 1

Tasks == [kind : {"connect", "ready", "failure", "stop", "publish", "consumer"},
          slot : Slots, what : Publishes \cup Topics \cup {Nothing}]
Task(kind, s) == [kind |-> kind, slot |-> s, what |-> Nothing]

Idle == [at |-> "idle", slot |-> 0, what |-> Nothing]

\* A connection takes channels and messages from its creation on, and keeps them until
\* the log-in is complete.
Usable == {"opening", "open"}

\* The tasks for slot s of a kind that wait in the loop.
Queued(kind, s) == {i \in DOMAIN loop : loop[i].kind = kind /\ loop[i].slot = s}

Init ==
    /\ started_ = FALSE
    /\ slots_ = {}
    /\ subscriptions_ = {}
    /\ subscribing = [t \in Topics |-> "no"]
    /\ ready = [s \in Slots |-> FALSE]
    /\ reconnectScheduled = [s \in Slots |-> FALSE]
    /\ reconnectDelay = [s \in Slots |-> 1]
    /\ publisherChannels = [s \in Slots |-> {}]
    /\ nextPublisherChannel = [s \in Slots |-> 0]
    /\ consumerChannels = [s \in Slots |-> {}]
    /\ pendingPublishes = [s \in Slots |-> <<>>]
    /\ link = [s \in Slots |-> "none"]
    /\ broken = [s \in Slots |-> {}]
    /\ faults = 0
    /\ loop = <<>>
    /\ timers = [s \in Slots |-> 0]
    /\ doing = Idle
    /\ loopLost = FALSE
    /\ main = "boot" /\ mi = 0
    /\ publishCursor_ = 0
    /\ queuedPublishes_ = 0
    /\ requested = {}
    /\ rejected = {}
    /\ published = [p \in Publishes |-> 0]
    /\ dropped = {}

-----------------------------------------------------------------------------
(* start and stop, on the main thread; subscribe, on any.                   *)

StartBegin ==
    /\ main = "boot"
    /\ started_' = TRUE
    /\ main' = "init"
    /\ UNCHANGED <<slotFlags, channelVars, amqpVars, publishVars, subscriptions_, subscribing,
                   pendingPublishes, slots_, mi, loop, timers, doing, loopLost>>

InitializeSlots ==
    /\ main = "init"
    /\ slots_' = Slots
    /\ main' = "start"
    /\ mi' = 0
    /\ UNCHANGED <<slotFlags, channelVars, amqpVars, publishVars, subscriptions_, subscribing,
                   pendingPublishes, started_, loop, timers, doing, loopLost>>

\* The main thread queues one task per slot, from slot 0 on.
ForEachSlot(from, kind, to) ==
    /\ main = from
    /\ loop' = Append(loop, Task(kind, mi))
    /\ mi' = (mi + 1) % NumSlots
    /\ main' = IF mi + 1 = NumSlots THEN to ELSE from
    /\ UNCHANGED <<slotFlags, channelVars, amqpVars, publishVars, subscriptions_, subscribing,
                   pendingPublishes, started_, slots_, timers, doing, loopLost>>

\* connectSlot(i) for every slot.
StartSlot == ForEachSlot("start", "connect", "running")

StopBegin ==
    /\ main = "running"
    /\ started_' = FALSE
    /\ main' = "stop"
    /\ UNCHANGED <<slotFlags, channelVars, amqpVars, publishVars, subscriptions_, subscribing,
                   pendingPublishes, slots_, mi, loop, timers, doing, loopLost>>

StopSlot == ForEachSlot("stop", "stop", "stopped")

\* The subscription is pushed under mutex_; the loop's thread can see it from here on.
Subscribe(t) ==
    /\ t \notin subscriptions_
    /\ subscriptions_' = subscriptions_ \cup {t}
    /\ subscribing' = [subscribing EXCEPT ![t] = "pushed"]
    /\ UNCHANGED <<slotFlags, channelVars, amqpVars, mainVars, publishVars,
                   pendingPublishes, loop, timers, doing, loopLost>>

\* started_ and slots_, without the mutex: before start there is nothing more to do.
SubscribeChecks(t) ==
    /\ subscribing[t] = "pushed"
    /\ subscribing' = [subscribing EXCEPT
                          ![t] = IF started_ /\ slots_ # {} THEN "checked" ELSE "no"]
    /\ UNCHANGED <<slotFlags, channelVars, amqpVars, mainVars, publishVars, subscriptions_,
                   pendingPublishes, loop, timers, doing, loopLost>>

\* queueInLoop.
SubscribeQueues(t) ==
    /\ subscribing[t] = "checked"
    /\ subscribing' = [subscribing EXCEPT ![t] = "no"]
    /\ loop' = Append(loop, [kind |-> "consumer", slot |-> SlotOf[t], what |-> t])
    /\ UNCHANGED <<slotFlags, channelVars, amqpVars, mainVars, publishVars, subscriptions_,
                   pendingPublishes, timers, doing, loopLost>>

SubscribeGoesOn(t) == SubscribeChecks(t) \/ SubscribeQueues(t)

-----------------------------------------------------------------------------
(* publish, on the loop's thread.                                           *)

PublishRejected(p) ==
    /\ ~started_ \/ slots_ = {}
    /\ rejected' = rejected \cup {p}
    /\ UNCHANGED <<doing, publishCursor_>>

\* Mutant: started_ is not looked at.
PublishAcceptedAlways(p) ==
    /\ slots_ # {}
    /\ publishCursor_' = (publishCursor_ + 1) % NumSlots
    /\ doing' = [at |-> "publish", slot |-> publishCursor_, what |-> p]
    /\ UNCHANGED rejected

PublishAccepted(p) ==
    /\ started_
    /\ slots_ # {}
    /\ publishCursor_' = (publishCursor_ + 1) % NumSlots
    /\ doing' = [at |-> "publish", slot |-> publishCursor_, what |-> p]
    /\ UNCHANGED rejected

Publish(p) ==
    /\ doing = Idle
    /\ ~loopLost
    /\ p \notin requested
    /\ requested' = requested \cup {p}
    /\ PublishRejected(p) \/ PublishAccepted(p)
    /\ UNCHANGED <<slotFlags, channelVars, amqpVars, mainVars, queuedPublishes_,
                   published, dropped, subscriptions_, subscribing, pendingPublishes, loop,
                   timers, loopLost>>

\* queueInLoop, after the checks of started_ and slots_.
PublishQueue ==
    /\ doing.at = "publish"
    /\ loop' = Append(loop, [kind |-> "publish", slot |-> doing.slot, what |-> doing.what])
    /\ doing' = Idle
    /\ UNCHANGED <<slotFlags, channelVars, amqpVars, mainVars, publishVars,
                   subscriptions_, subscribing, pendingPublishes, timers, loopLost>>

-----------------------------------------------------------------------------
(* The tasks.                                                               *)

\* The loop's thread takes the next task, a task of this kind.
Run(kind) ==
    /\ doing = Idle
    /\ ~loopLost
    /\ loop # <<>>
    /\ Head(loop).kind = kind
    /\ loop' = Tail(loop)
    /\ UNCHANGED <<mainVars, subscriptions_, subscribing, doing>>

\* Mutant: reconnectScheduled stays set.
ConnectKeepsScheduled ==
    LET s == Head(loop).slot IN
    /\ Run("connect")
    /\ ready' = [ready EXCEPT ![s] = FALSE]
    /\ publisherChannels' = [publisherChannels EXCEPT ![s] = {}]
    /\ consumerChannels' = [consumerChannels EXCEPT ![s] = {}]
    /\ link' = [link EXCEPT ![s] = "opening"]
    /\ broken' = [broken EXCEPT ![s] = {}]
    /\ UNCHANGED <<reconnectScheduled, reconnectDelay, nextPublisherChannel, faults,
                   publishVars, pendingPublishes, timers, loopLost>>

\* connectSlot's task: whatever connection the slot has is replaced.
RunConnect ==
    LET s == Head(loop).slot IN
    /\ Run("connect")
    /\ ready' = [ready EXCEPT ![s] = FALSE]
    /\ publisherChannels' = [publisherChannels EXCEPT ![s] = {}]
    /\ consumerChannels' = [consumerChannels EXCEPT ![s] = {}]
    /\ reconnectScheduled' = [reconnectScheduled EXCEPT ![s] = FALSE]
    /\ link' = [link EXCEPT ![s] = "opening"]
    /\ broken' = [broken EXCEPT ![s] = {}]
    /\ UNCHANGED <<reconnectDelay, nextPublisherChannel, faults, publishVars,
                   pendingPublishes, timers, loopLost>>

\* Mutant: the deque is not flushed.
RebuildOnly(s) ==
    /\ link[s] \in Usable
    /\ ready' = [ready EXCEPT ![s] = TRUE]
    /\ reconnectDelay' = [reconnectDelay EXCEPT ![s] = 1]
    /\ publisherChannels' = [publisherChannels EXCEPT ![s] = Channels]
    /\ consumerChannels' = [consumerChannels EXCEPT
                               ![s] = {t \in subscriptions_ : SlotOf[t] = s}]
    /\ broken' = [broken EXCEPT ![s] = {}]
    /\ UNCHANGED <<nextPublisherChannel, published, queuedPublishes_,
                   pendingPublishes, loopLost>>

\* rebuildChannels and flushPendingPublishes.  The connection may be a newer one than
\* the one that was ready, and still be opening.
RebuildAndFlush(s) ==
    /\ link[s] \in Usable
    /\ ready' = [ready EXCEPT ![s] = TRUE]
    /\ reconnectDelay' = [reconnectDelay EXCEPT ![s] = 1]
    /\ publisherChannels' = [publisherChannels EXCEPT ![s] = Channels]
    /\ consumerChannels' = [consumerChannels EXCEPT
                               ![s] = {t \in subscriptions_ : SlotOf[t] = s}]
    /\ broken' = [broken EXCEPT ![s] = {}]
    /\ published' = [p \in Publishes |-> published[p] +
                        Cardinality({i \in DOMAIN pendingPublishes[s] :
                                        pendingPublishes[s][i] = p})]
    /\ queuedPublishes_' = queuedPublishes_ - Len(pendingPublishes[s])
    /\ nextPublisherChannel' = [nextPublisherChannel EXCEPT
                                   ![s] = (@ + Len(pendingPublishes[s])) % NumChannels]
    /\ pendingPublishes' = [pendingPublishes EXCEPT ![s] = <<>>]
    /\ UNCHANGED loopLost

\* The connection failed, or stop reset it, since its onReady.
RebuildOnNothing(s) ==
    /\ link[s] \notin Usable
    /\ ready' = [ready EXCEPT ![s] = TRUE]
    /\ reconnectDelay' = [reconnectDelay EXCEPT ![s] = 1]
    /\ loopLost' = TRUE
    /\ UNCHANGED <<channelVars, broken, published, queuedPublishes_, pendingPublishes>>

\* handleSlotReady's task.
RunReady ==
    LET s == Head(loop).slot IN
    /\ Run("ready")
    /\ RebuildAndFlush(s) \/ RebuildOnNothing(s)
    /\ UNCHANGED <<reconnectScheduled, link, faults, publishCursor_, requested,
                   rejected, dropped, timers>>

\* Mutant: a reconnect is scheduled for every report.
ScheduleForEachReport(s) ==
    IF started_
    THEN /\ reconnectScheduled' = [reconnectScheduled EXCEPT ![s] = TRUE]
         /\ reconnectDelay' = [reconnectDelay EXCEPT
                                  ![s] = IF 2 * @ > MaxDelay THEN MaxDelay ELSE 2 * @]
         /\ timers' = [timers EXCEPT ![s] = @ + 1]
    ELSE UNCHANGED <<reconnectScheduled, reconnectDelay, timers>>

\* Mutant: the delay is doubled without a limit.
ScheduleUnlimited(s) ==
    IF started_ /\ ~reconnectScheduled[s]
    THEN /\ reconnectScheduled' = [reconnectScheduled EXCEPT ![s] = TRUE]
         /\ reconnectDelay' = [reconnectDelay EXCEPT ![s] = 2 * @]
         /\ timers' = [timers EXCEPT ![s] = @ + 1]
    ELSE UNCHANGED <<reconnectScheduled, reconnectDelay, timers>>

\* Nothing is scheduled once stop was called, or while a reconnect is on its way.
ScheduleReconnect(s) ==
    IF started_ /\ ~reconnectScheduled[s]
    THEN /\ reconnectScheduled' = [reconnectScheduled EXCEPT ![s] = TRUE]
         /\ reconnectDelay' = [reconnectDelay EXCEPT
                                  ![s] = IF 2 * @ > MaxDelay THEN MaxDelay ELSE 2 * @]
         /\ timers' = [timers EXCEPT ![s] = @ + 1]
    ELSE UNCHANGED <<reconnectScheduled, reconnectDelay, timers>>

\* Mutant: the slot keeps saying ready.
FailureKeepsReady ==
    LET s == Head(loop).slot IN
    /\ Run("failure")
    /\ publisherChannels' = [publisherChannels EXCEPT ![s] = {}]
    /\ consumerChannels' = [consumerChannels EXCEPT ![s] = {}]
    /\ ScheduleReconnect(s)
    /\ UNCHANGED <<ready, nextPublisherChannel, amqpVars, publishVars,
                   pendingPublishes, loopLost>>

\* handleSlotFailure's task.  It does not know of which connection it speaks.
RunFailure ==
    LET s == Head(loop).slot IN
    /\ Run("failure")
    /\ ready' = [ready EXCEPT ![s] = FALSE]
    /\ publisherChannels' = [publisherChannels EXCEPT ![s] = {}]
    /\ consumerChannels' = [consumerChannels EXCEPT ![s] = {}]
    /\ ScheduleReconnect(s)
    /\ UNCHANGED <<nextPublisherChannel, amqpVars, publishVars, pendingPublishes, loopLost>>

\* A reconnect timer: connectSlot is called if started_ is still true.
TimerFires(s) ==
    /\ doing = Idle
    /\ ~loopLost
    /\ timers[s] > 0
    /\ timers' = [timers EXCEPT ![s] = @ - 1]
    /\ doing' = IF started_ THEN [at |-> "reconnect", slot |-> s, what |-> Nothing] ELSE Idle
    /\ UNCHANGED <<slotFlags, channelVars, amqpVars, mainVars, publishVars,
                   subscriptions_, subscribing, pendingPublishes, loop, loopLost>>

\* ... and queues the task.
ConnectSlot ==
    /\ doing.at = "reconnect"
    /\ loop' = Append(loop, Task("connect", doing.slot))
    /\ doing' = Idle
    /\ UNCHANGED <<slotFlags, channelVars, amqpVars, mainVars, publishVars,
                   subscriptions_, subscribing, pendingPublishes, timers, loopLost>>

PublishWaits(s, p) ==
    /\ ~ready[s] \/ publisherChannels[s] = {}
    /\ pendingPublishes' = [pendingPublishes EXCEPT ![s] = Append(@, p)]
    /\ queuedPublishes_' = queuedPublishes_ + 1
    /\ UNCHANGED <<nextPublisherChannel, published>>

\* Mutant: no return after the publish that succeeded.
PublishFallsThrough(s, p) ==
    /\ ready[s]
    /\ publisherChannels[s] # {}
    /\ nextPublisherChannel' = [nextPublisherChannel EXCEPT ![s] = (@ + 1) % NumChannels]
    /\ published' = [published EXCEPT
                        ![p] = IF link[s] \in Usable /\ nextPublisherChannel[s] \notin broken[s]
                               THEN @ + 1 ELSE @]
    /\ pendingPublishes' = [pendingPublishes EXCEPT ![s] = <<p>> \o @]
    /\ queuedPublishes_' = queuedPublishes_ + 1

\* Mutant: a publish that goes back to the deque is not counted again.
PublishUncounted(s, p) ==
    /\ ready[s]
    /\ publisherChannels[s] # {}
    /\ nextPublisherChannel' = [nextPublisherChannel EXCEPT ![s] = (@ + 1) % NumChannels]
    /\ IF link[s] \in Usable /\ nextPublisherChannel[s] \notin broken[s]
       THEN /\ published' = [published EXCEPT ![p] = @ + 1]
            /\ UNCHANGED pendingPublishes
       ELSE /\ pendingPublishes' = [pendingPublishes EXCEPT ![s] = <<p>> \o @]
            /\ UNCHANGED published
    /\ UNCHANGED queuedPublishes_

\* The channels take turns; a failed publish goes back to the front of the queue.
PublishOnChannel(s, p) ==
    /\ ready[s]
    /\ publisherChannels[s] # {}
    /\ nextPublisherChannel' = [nextPublisherChannel EXCEPT ![s] = (@ + 1) % NumChannels]
    /\ IF link[s] \in Usable /\ nextPublisherChannel[s] \notin broken[s]
       THEN /\ published' = [published EXCEPT ![p] = @ + 1]
            /\ UNCHANGED <<pendingPublishes, queuedPublishes_>>
       ELSE /\ pendingPublishes' = [pendingPublishes EXCEPT ![s] = <<p>> \o @]
            /\ queuedPublishes_' = queuedPublishes_ + 1
            /\ UNCHANGED published

\* publishOnLoop.
RunPublish ==
    LET s == Head(loop).slot
        p == Head(loop).what
    IN
    /\ Run("publish")
    /\ PublishWaits(s, p) \/ PublishOnChannel(s, p)
    /\ UNCHANGED <<slotFlags, publisherChannels, consumerChannels, amqpVars,
                   publishCursor_, requested, rejected, dropped, timers, loopLost>>

\* stop's task.
RunStop ==
    LET s == Head(loop).slot IN
    /\ Run("stop")
    /\ ready' = [ready EXCEPT ![s] = FALSE]
    /\ reconnectScheduled' = [reconnectScheduled EXCEPT ![s] = FALSE]
    /\ publisherChannels' = [publisherChannels EXCEPT ![s] = {}]
    /\ consumerChannels' = [consumerChannels EXCEPT ![s] = {}]
    /\ queuedPublishes_' = queuedPublishes_ - Len(pendingPublishes[s])
    /\ dropped' = dropped \cup {pendingPublishes[s][i] : i \in DOMAIN pendingPublishes[s]}
    /\ pendingPublishes' = [pendingPublishes EXCEPT ![s] = <<>>]
    /\ link' = [link EXCEPT ![s] = "none"]
    /\ UNCHANGED <<reconnectDelay, nextPublisherChannel, broken, faults,
                   publishCursor_, requested, rejected, published, timers, loopLost>>

\* startConsumer for a subscription made while the broker runs.
RunConsumer ==
    LET s == Head(loop).slot
        t == Head(loop).what
        opens == ready[s] /\ link[s] # "none"
    IN
    /\ Run("consumer")
    /\ consumerChannels' = [consumerChannels EXCEPT
                               ![s] = IF opens /\ link[s] \in Usable THEN @ \cup {t} ELSE @]
    /\ loopLost' = (opens /\ link[s] \notin Usable)
    /\ UNCHANGED <<slotFlags, publisherChannels, nextPublisherChannel, amqpVars,
                   publishVars, pendingPublishes, timers>>

-----------------------------------------------------------------------------
(* AMQP-CPP and the RabbitMQ server; the callbacks run on the loop's thread. *)

Callback(tasks) ==
    /\ doing = Idle
    /\ ~loopLost
    /\ loop' = loop \o tasks
    /\ UNCHANGED <<slotFlags, channelVars, mainVars, publishVars, subscriptions_, subscribing,
                   pendingPublishes, timers, doing, loopLost>>

\* The log-in is complete: onReady.
AmqpReady(s) ==
    /\ link[s] = "opening"
    /\ link' = [link EXCEPT ![s] = "open"]
    /\ Callback(<<Task("ready", s)>>)
    /\ UNCHANGED <<broken, faults>>

\* A connection that fails is reported by onError, onLost and onDetached, in one
\* to three calls.
AmqpFails(s) ==
    /\ link[s] \in {"opening", "open"}
    /\ faults < MaxFaults
    /\ faults' = faults + 1
    /\ link' = [link EXCEPT ![s] = "dead"]
    /\ \E n \in 1..MaxReports : Callback([i \in 1..n |-> Task("failure", s)])
    /\ UNCHANGED broken

\* The server closes one channel, or cancels a consumer; the connection stays up.  The
\* call that failed may report it and the channel as well.
ChannelFails(s) ==
    /\ link[s] = "open"
    /\ faults < MaxFaults
    /\ faults' = faults + 1
    /\ \/ consumerChannels[s] # {} /\ UNCHANGED broken
       \/ \E c \in publisherChannels[s] \ broken[s] :
             broken' = [broken EXCEPT ![s] = @ \cup {c}]
    /\ \E n \in 1..MaxReports : Callback([i \in 1..n |-> Task("failure", s)])
    /\ UNCHANGED link

-----------------------------------------------------------------------------
MainSteps == StartBegin \/ InitializeSlots \/ StartSlot \/ StopSlot

LoopSteps ==
    \/ PublishQueue \/ ConnectSlot
    \/ RunConnect \/ RunReady \/ RunFailure \/ RunPublish \/ RunStop \/ RunConsumer

Next ==
    \/ MainSteps \/ StopBegin
    \/ LoopSteps
    \/ \E t \in Topics : Subscribe(t) \/ SubscribeGoesOn(t)
    \/ \E p \in Publishes : Publish(p)
    \/ \E s \in Slots : TimerFires(s) \/ AmqpReady(s) \/ AmqpFails(s) \/ ChannelFails(s)

Spec == Init /\ [][Next]_vars

\* The threads run; a timer that runs fires; the server, while it is up, lets a
\* connection in.
Fairness ==
    /\ WF_vars(MainSteps)
    /\ WF_vars(LoopSteps)
    /\ \A t \in Topics : WF_vars(SubscribeGoesOn(t))
    /\ \A s \in Slots : SF_vars(TimerFires(s)) /\ SF_vars(AmqpReady(s))

-----------------------------------------------------------------------------
(* Properties.                                                              *)

\* Every variable holds a value of its type; the backoff stays within its limit.
TypeOK ==
    /\ started_ \in BOOLEAN
    /\ slots_ \in {{}, Slots}
    /\ subscriptions_ \in SUBSET Topics
    /\ subscribing \in [Topics -> {"no", "pushed", "checked"}]
    /\ ready \in [Slots -> BOOLEAN]
    /\ reconnectScheduled \in [Slots -> BOOLEAN]
    /\ reconnectDelay \in [Slots -> 1..MaxDelay]
    /\ publisherChannels \in [Slots -> {{}, Channels}]
    /\ nextPublisherChannel \in [Slots -> Channels]
    /\ consumerChannels \in [Slots -> SUBSET Topics]
    /\ pendingPublishes \in [Slots -> Seq(Publishes)]
    /\ link \in [Slots -> {"none", "opening", "open", "dead"}]
    /\ broken \in [Slots -> SUBSET Channels]
    /\ faults \in Nat
    /\ loop \in Seq(Tasks)
    /\ timers \in [Slots -> Nat]
    /\ doing \in [at : {"idle", "publish", "reconnect"}, slot : Slots,
                  what : Publishes \cup {Nothing}]
    /\ loopLost \in BOOLEAN
    /\ main \in {"boot", "init", "start", "running", "stop", "stopped"}
    /\ mi \in Slots
    /\ publishCursor_ \in Slots
    /\ queuedPublishes_ \in Nat
    /\ requested \in SUBSET Publishes
    /\ rejected \in SUBSET Publishes
    /\ published \in [Publishes -> Nat]
    /\ dropped \in SUBSET Publishes

\* The places where a publish waits: tasks, deques and the call that queues it.
TasksOf(p)   == {i \in DOMAIN loop : loop[i].kind = "publish" /\ loop[i].what = p}
WaitingOf(p) == UNION {{<<s, i>> : i \in {j \in DOMAIN pendingPublishes[s] :
                                             pendingPublishes[s][j] = p}} : s \in Slots}
Truth(b)     == IF b THEN 1 ELSE 0
Places(p) ==
    Cardinality(TasksOf(p)) + Cardinality(WaitingOf(p)) + published[p]
        + Truth(p \in rejected) + Truth(p \in dropped)
        + Truth(doing.at = "publish" /\ doing.what = p)

\* Every publish is in exactly one place from its call on: it is on its way, waits,
\* went out once, was rejected or was thrown away by stop.  Failures, flushes and
\* retries neither lose it nor send it twice.
ExactlyOnePlace == \A p \in Publishes : Places(p) = Truth(p \in requested)

\* The queued_publishes that /messaging/status reports is the number of publishes
\* in the deques, although four functions add to and subtract from it.
QueuedCountExact ==
    queuedPublishes_ = Cardinality(UNION {WaitingOf(p) : p \in Publishes})

\* A slot that says ready has a connection that is not lost, or its failure is already
\* queued, while the loop runs tasks.
ReadyIsTrue ==
    \A s \in Slots : ready[s] =>
        link[s] \in Usable \/ Queued("failure", s) # {} \/ loopLost

\* At most one reconnect of a slot is on its way, as a timer, a call or a task: a
\* lost connection is reported up to three times and reconnected once.
OneReconnect ==
    \A s \in Slots :
        timers[s] + Cardinality(Queued("connect", s))
                  + Truth(doing.at = "reconnect" /\ doing.slot = s) <= 1

\* A running broker never forgets a slot: the slot works, or something that will
\* reconnect it is on its way.
ReconnectUnderWay ==
    started_ /\ main = "running" /\ ~loopLost => \A s \in Slots :
        \/ ready[s] /\ link[s] = "open"
        \/ link[s] = "opening"
        \/ \E kind \in {"connect", "ready", "failure"} : Queued(kind, s) # {}
        \/ timers[s] > 0
        \/ doing.at = "reconnect" /\ doing.slot = s

\* A publish waits only for a slot that is down or about to be told that it is: the
\* next onReady, which is the only one to look at the deque, is still to come.
WaitsForReady ==
    \A s \in Slots : pendingPublishes[s] # <<>> =>
        ~ready[s] \/ Queued("failure", s) # {} \/ loopLost

\* Nobody waits for the broker any more, or nobody can.
Stopped == ~started_ \/ loopLost

\* A slot that is down comes back, with a connection that is open, however many of its
\* failures are reported in whatever order, unless the broker stops or the loop is lost.
Recovers ==
    \A s \in Slots :
        main = "running" /\ ~ready[s] ~> (ready[s] /\ link[s] = "open") \/ Stopped

\* Every publish is rejected or goes out, whatever fails in between.
GoesOut ==
    \A p \in Publishes : p \in requested ~> p \in rejected \/ published[p] > 0 \/ Stopped

\* What became of a publish, for its caller.
Outcome(p) ==
    IF p \notin requested THEN "new"
    ELSE IF p \in rejected THEN "rejected"
    ELSE IF published[p] = 1 THEN "sent"
    ELSE IF published[p] > 1 THEN "repeated"
    ELSE IF p \in dropped THEN "dropped"
    ELSE "accepted"

Phase ==
    IF main \in {"stop", "stopped"} THEN "stopped"
    ELSE IF started_ /\ slots_ # {} THEN "open" ELSE "closed"

Service == INSTANCE PublishService
           WITH phase <- Phase, outcome <- [p \in Publishes |-> Outcome(p)]

\* The broker implements the publish service: however connections fail, channels are
\* rebuilt and deques flushed, every publish is accepted or rejected by the state of
\* the broker at the call, goes out once, and is thrown away only after stop.
ImplementsPublishing == Service!Spec
=============================================================================
