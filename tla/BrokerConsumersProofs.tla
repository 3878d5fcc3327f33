----------------------- MODULE BrokerConsumersProofs -----------------------
(***************************************************************************)
(* Theorems about BrokerConsumers, for any number of slots, channels,      *)
(* publishes, topics and faults: what RabbitMqBrokerProofs shows of the    *)
(* broker alone still holds beside its consumers, and the status tells the *)
(* truth about the topics.                                                 *)
(***************************************************************************)
EXTENDS BrokerConsumers, RabbitMqBrokerProofs

ConsumerTypes ==
    /\ stage \in [Topics -> NoConsumer .. Consuming]
    /\ orphan \in [Topics -> BOOLEAN]
    /\ mail \in [Topics -> {"none", "queued", "unacked", "acked"}]
    /\ observed \in SUBSET Topics

\* A task of subscribe is queued for the slot its topic hashes to.
OwnTasks == \A i \in DOMAIN loop : loop[i].kind = "consumer" => loop[i].slot = SlotOf[loop[i].what]

\* A slot has consumers of its own topics only.
OwnTopics == \A s \in Slots : \A t \in consumerChannels[s] : SlotOf[t] = s

\* The task that starts the topic's consumer waits in the loop.
Coming(t) == \E i \in Queued("consumer", SlotOf[t]) : loop[i].what = t

Served(t) ==
    \/ stage[t] # NoConsumer
    \/ Queued("failure", SlotOf[t]) # {}
    \/ Coming(t)
    \/ subscribing[t] # "no"

\* A subscription to a slot that says ready is served, slots_ filled or not.
ServedInv ==
    started_ /\ ~loopLost => \A t \in subscriptions_ : ready[SlotOf[t]] => Served(t)

ConsumersInv == BrokerInv /\ ConsumerTypes /\ OwnTasks /\ OwnTopics /\ ServedInv

-----------------------------------------------------------------------------
(* The broker beside its consumers.                                         *)

\* A step of the composition is a step of the broker, one that it does not see, or the
\* answer to an orphan.
LEMMA BrokersPart ==
    ASSUME ConsumersNext
    PROVE  Next \/ UNCHANGED vars \/ \E t \in Topics : OrphanAnswered(t)
<1>1. CASE Drops
    BY <1>1, Zenon DEF Drops, Next, LoopSteps
<1>2. CASE Rebuilds \/ StartConsumer
    BY <1>2, Zenon DEF Rebuilds, StartConsumer, Next, LoopSteps
<1>3. CASE ChannelCloses
    BY <1>3, Zenon DEF ChannelCloses, Next
<1>4. CASE OtherSteps
    BY <1>4, Zenon DEF OtherSteps, Next, LoopSteps
<1>5. ASSUME NEW t \in Topics,
             Answered(t) \/ Received(t) \/ OrphanClosed(t) \/ Sent(t) \/ Acked(t)
      PROVE  UNCHANGED vars
    BY <1>5, Zenon DEF Answered, Received, OrphanClosed, Sent, Acked
<1> QED
    BY <1>1, <1>2, <1>3, <1>4, <1>5, Zenon DEF ConsumersNext

\* What the broker promises of a loop that is lost, it promises of one that gets lost.
LEMMA OrphanInv ==
    ASSUME BrokerInv, NEW t \in Topics, OrphanAnswered(t)
    PROVE  BrokerInv'
<1>1. UNCHANGED <<slotFlags, channelVars, amqpVars, mainVars, publishVars, subscriptions_,
                  subscribing, pendingPublishes, loop, timers, doing>> /\ loopLost' = TRUE
    BY DEF OrphanAnswered
<1>2. TypeOK' /\ TypedTasks'
    BY <1>1 DEF BrokerInv, TypeOK, TypedTasks, slotFlags, channelVars, amqpVars, mainVars,
                publishVars
<1>3. CountInv'
    BY <1>1 DEF BrokerInv, CountInv, Waiting, publishVars
<1>4. \A kind, s : Queued(kind, s)' = Queued(kind, s)
    BY <1>1 DEF Queued
<1>5. FlagInv' /\ WaitsForReady' /\ UnderWayInv'
    BY <1>1 DEF FlagInv, WaitsForReady, UnderWayInv
<1>6. MainInv'
    BY <1>1, <1>4 DEF BrokerInv, MainInv, mainVars
<1>7. ReconnectInv'
    BY <1>1, <1>4 DEF BrokerInv, ReconnectInv, Reconnects, Reconnecting, Fresh, Calling,
                      slotFlags, amqpVars, mainVars
<1>8. PlaceInv'
    BY <1>1 DEF BrokerInv, PlaceInv, Placed, Waits, Lies, Called, TasksOf, publishVars
<1> QED
    BY <1>2, <1>3, <1>5, <1>6, <1>7, <1>8 DEF BrokerInv

LEMMA BesideBroker ==
    ASSUME BrokerInv, [ConsumersNext]_allVars
    PROVE  BrokerInv'
<1>1. UNCHANGED allVars => UNCHANGED vars
    BY DEF allVars
<1> QED
    BY <1>1, BrokersPart, BrokerStep, SameInv, OrphanInv

LEMMA BrokerInvBesideConsumers == ConsumersSpec => []BrokerInv
<1>1. ConsumersInit => BrokerInv
    BY InitInv DEF ConsumersInit
<1> QED
    BY <1>1, BesideBroker, PTL DEF ConsumersSpec

-----------------------------------------------------------------------------
(* Types.                                                                   *)

LEMMA CallsCounted == DOMAIN SetUpCalls = 1 .. 5 /\ Consuming = 6 /\ NoConsumer = 0
BY DEF SetUpCalls, Consuming, NoConsumer

LEMMA RequeueTypes ==
    ASSUME ConsumerTypes, NEW T, Requeue(T)
    PROVE  mail' \in [Topics -> {"none", "queued", "unacked", "acked"}]
BY DEF ConsumerTypes, Requeue

LEMMA ConsumerTypesStep ==
    ASSUME ConsumerTypes, ConsumersNext
    PROVE  ConsumerTypes'
<1>0. NoConsumer \in NoConsumer .. Consuming /\ 1 \in NoConsumer .. Consuming
    BY CallsCounted
<1>1. ASSUME NEW s, ConnectionGoes(s) PROVE ConsumerTypes'
    BY <1>0, <1>1, RequeueTypes DEF ConnectionGoes, ConsumerTypes
<1>2. ASSUME NEW old, NEW new, Replace(old, new) PROVE ConsumerTypes'
  <2>1. stage' \in [Topics -> NoConsumer .. Consuming]
      BY <1>0, <1>2 DEF Replace, ConsumerTypes
  <2>2. orphan' \in [Topics -> BOOLEAN]
      BY <1>2, Zenon DEF Replace, ConsumerTypes
  <2> QED
      BY <1>2, <2>1, <2>2 DEF Replace, ConsumerTypes
<1>3. UNCHANGED consumerVars => ConsumerTypes'
    BY DEF consumerVars, ConsumerTypes
<1>4. CASE Drops
    BY <1>1, <1>2, <1>4, Zenon DEF Drops
<1>5. CASE Rebuilds
    BY <1>2, <1>5, Zenon DEF Rebuilds
<1>6. CASE StartConsumer
  <2>1. UNCHANGED consumerVars \/ \E t : Replace({t}, {t})
      BY <1>6, Zenon DEF StartConsumer
  <2> QED
      BY <1>2, <1>3, <2>1
<1>7. CASE ChannelCloses
  <2>1. CASE UNCHANGED consumerVars
      BY <1>3, <2>1
  <2>2. ASSUME NEW t, stage' = [stage EXCEPT ![t] = NoConsumer], Requeue({t}),
               UNCHANGED <<orphan, observed>>
        PROVE  ConsumerTypes'
      BY <1>0, <2>2, RequeueTypes DEF ConsumerTypes
  <2> QED
      BY <1>7, <2>1, <2>2 DEF ChannelCloses
<1>8. CASE OtherSteps
    BY <1>3, <1>8 DEF OtherSteps
<1>9. ASSUME NEW t \in Topics, Answered(t) PROVE ConsumerTypes'
    BY <1>9, CallsCounted DEF Answered, ConsumerTypes
<1>10. ASSUME NEW t \in Topics,
              Received(t) \/ OrphanAnswered(t) \/ OrphanClosed(t) \/ Sent(t) \/ Acked(t)
       PROVE  ConsumerTypes'
    BY <1>10 DEF Received, OrphanAnswered, OrphanClosed, Sent, Acked, consumerVars, ConsumerTypes
<1> QED
    BY <1>4, <1>5, <1>6, <1>7, <1>8, <1>9, <1>10 DEF ConsumersNext

-----------------------------------------------------------------------------
(* The tasks that start a consumer.                                         *)

\* The actions that run no task.
RunsNone ==
    \/ MainSteps \/ StopBegin \/ PublishQueue \/ ConnectSlot
    \/ \E t \in Topics : Subscribe(t) \/ SubscribeGoesOn(t)
    \/ \E p \in Publishes : Publish(p)
    \/ \E s \in Slots : TimerFires(s) \/ AmqpReady(s) \/ AmqpFails(s) \/ ChannelFails(s)

\* They take no task out of the loop, and give it consumers' tasks of their own slot only.
LEMMA LoopGrows ==
    ASSUME TypeOK, RunsNone
    PROVE  /\ \A i \in DOMAIN loop : i \in DOMAIN loop' /\ loop'[i] = loop[i]
           /\ \A i \in DOMAIN loop' \ DOMAIN loop :
                 loop'[i].kind = "consumer" => loop'[i].slot = SlotOf[loop'[i].what]
<1> DEFINE Grows ==
      /\ \A i \in DOMAIN loop : i \in DOMAIN loop' /\ loop'[i] = loop[i]
      /\ \A i \in DOMAIN loop' \ DOMAIN loop :
            loop'[i].kind = "consumer" => loop'[i].slot = SlotOf[loop'[i].what]
<1> SUFFICES Grows
    OBVIOUS
<1>0. loop \in Seq(Tasks)
    BY DEF TypeOK
<1>1. ASSUME NEW task \in Tasks, loop' = Append(loop, task),
             task.kind = "consumer" => task.slot = SlotOf[task.what]
      PROVE  Grows
    BY <1>0, <1>1, AppendFacts
<1>2. UNCHANGED loop => Grows
    OBVIOUS
<1>3. CASE StartSlot \/ StopSlot
  <2>1. PICK kind \in Kinds : loop' = Append(loop, Task(kind, mi))
      BY <1>3 DEF StartSlot, StopSlot, ForEachSlot, Kinds
  <2>2. Task(kind, mi) \in Tasks /\ Task(kind, mi).kind # "consumer"
      BY TaskTypes DEF TypeOK, Kinds
  <2> QED
      BY <1>1, <2>1, <2>2
<1>4. CASE PublishQueue
  <2>1. [kind |-> "publish", slot |-> doing.slot, what |-> doing.what] \in Tasks
      BY <1>4 DEF TypeOK, Tasks
  <2> QED
      BY <1>1, <1>4, <2>1 DEF PublishQueue
<1>5. CASE ConnectSlot
  <2>1. Task("connect", doing.slot) \in Tasks /\ Task("connect", doing.slot).kind # "consumer"
      BY TaskTypes DEF TypeOK, Kinds
  <2> QED
      BY <1>1, <1>5, <2>1 DEF ConnectSlot
<1>6. ASSUME NEW t \in Topics, Subscribe(t) \/ SubscribeGoesOn(t) PROVE Grows
  <2>1. [kind |-> "consumer", slot |-> SlotOf[t], what |-> t] \in Tasks
      BY TopicsAssumption DEF Tasks
  <2> QED
      BY <1>1, <1>2, <1>6, <2>1 DEF Subscribe, SubscribeGoesOn, SubscribeChecks,
            SubscribeQueues
<1>7. ASSUME NEW s \in Slots, AmqpReady(s) PROVE Grows
  <2>1. Task("ready", s) \in Tasks /\ Task("ready", s).kind # "consumer"
      BY TaskTypes DEF Kinds
  <2>2. loop' = Append(loop, Task("ready", s))
      BY <1>0, <1>7, <2>1 DEF AmqpReady, Callback
  <2> QED
      BY <1>1, <2>1, <2>2
<1>8. ASSUME NEW s \in Slots, AmqpFails(s) \/ ChannelFails(s) PROVE Grows
  <2>1. PICK n \in 1 .. MaxReports : loop' = loop \o [i \in 1 .. n |-> Task("failure", s)]
      BY <1>8 DEF AmqpFails, ChannelFails, Callback
  <2>2. Task("failure", s).kind # "consumer"
      BY DEF Task
  <2> QED
      BY <1>0, <2>1, <2>2, ReportFacts
<1>9. CASE \/ StartBegin \/ InitializeSlots \/ StopBegin
           \/ \E p \in Publishes : Publish(p)
           \/ \E s \in Slots : TimerFires(s)
    BY <1>2, <1>9 DEF StartBegin, InitializeSlots, StopBegin, Publish, TimerFires
<1> HIDE DEF Grows
<1> QED
    BY <1>3, <1>4, <1>5, <1>6, <1>7, <1>8, <1>9, Zenon DEF RunsNone, MainSteps

\* A task that runs is the first, and the others move up.
LEMMA LoopShrinks ==
    ASSUME TypeOK, RunsTask
    PROVE  /\ Head(loop) = loop[1] /\ 1 \in DOMAIN loop
           /\ \A i \in DOMAIN loop' : i + 1 \in DOMAIN loop /\ loop'[i] = loop[i + 1]
           /\ \A i \in DOMAIN loop : i # 1 => i - 1 \in DOMAIN loop' /\ loop'[i - 1] = loop[i]
<1>1. loop \in Seq(Tasks) /\ loop # <<>> /\ loop' = Tail(loop)
    BY DEF TypeOK, RunsTask, RunConnect, RunReady, RunFailure, RunPublish, RunStop, RunConsumer,
           Run
<1> QED
    BY <1>1, HeadFacts

\* A step runs a task or it does not, and never both.
LEMMA EitherRuns ==
    ASSUME TypeOK
    PROVE  (Next <=> RunsTask \/ RunsNone) /\ ~(RunsTask /\ RunsNone)
<1>1. Next <=> RunsTask \/ RunsNone
    BY Zenon DEF Next, LoopSteps, RunsTask, RunsNone
<1>2. ASSUME RunsTask, RunsNone PROVE FALSE
  <2>1. loop \in Seq(Tasks) /\ 1 \in DOMAIN loop
      BY <1>2, LoopShrinks DEF TypeOK
  <2>2. Len(loop) \in DOMAIN loop /\ Len(loop) + 1 \notin DOMAIN loop
      BY <2>1
  <2>3. Len(loop) \in DOMAIN loop'
      BY <1>2, <2>2, LoopGrows
  <2> QED
      BY <1>2, <2>2, <2>3, LoopShrinks
<1> QED
    BY <1>1, <1>2

LEMMA OwnTasksStep ==
    ASSUME TypeOK, Next, OwnTasks
    PROVE  OwnTasks'
<1>1. CASE RunsTask
    BY <1>1, LoopShrinks DEF OwnTasks
<1>2. CASE RunsNone
    BY <1>2, LoopGrows DEF OwnTasks
<1> QED
    BY <1>1, <1>2, EitherRuns

LEMMA OwnTopicsStep ==
    ASSUME TypeOK, TypedTasks, Next, OwnTasks, OwnTopics
    PROVE  OwnTopics'
<1>0. consumerChannels \in [Slots -> SUBSET Topics]
    BY DEF TypeOK
<1>1. CASE ~RunsTask
  <2>1. UNCHANGED consumerChannels
      BY <1>1 DEF Next, MainSteps, LoopSteps, RunsTask, StartBegin, InitializeSlots,
            StartSlot, StopSlot, ForEachSlot, StopBegin, Subscribe, SubscribeGoesOn,
            SubscribeChecks, SubscribeQueues, Publish, PublishQueue, ConnectSlot, TimerFires,
            AmqpReady, AmqpFails, ChannelFails, Callback, channelVars
  <2> QED
      BY <2>1 DEF OwnTopics
<1>2. CASE RunsTask
  <2>1. Head(loop).slot \in Slots
      BY <1>2, TaskRuns
  <2>2. CASE RunConnect \/ RunFailure \/ RunStop
    <3>1. consumerChannels' = [consumerChannels EXCEPT ![Head(loop).slot] = {}]
        BY <2>2 DEF RunConnect, RunFailure, RunStop
    <3> QED
        BY <1>0, <3>1 DEF OwnTopics
  <2>3. CASE RunReady
    <3>1. \/ UNCHANGED consumerChannels
          \/ consumerChannels' = [consumerChannels EXCEPT
                 ![Head(loop).slot] = {t \in subscriptions_ : SlotOf[t] = Head(loop).slot}]
        BY <2>3 DEF RunReady, RebuildAndFlush, RebuildOnNothing, channelVars
    <3> QED
        BY <1>0, <2>1, <3>1 DEF OwnTopics
  <2>4. CASE RunPublish
    <3>1. UNCHANGED consumerChannels
        BY <2>4 DEF RunPublish
    <3> QED
        BY <3>1 DEF OwnTopics
  <2>5. CASE RunConsumer
    <3>1. SlotOf[Head(loop).what] = Head(loop).slot
      <4>1. Head(loop).kind = "consumer"
          BY <2>5 DEF RunConsumer, Run
      <4> QED
          BY <1>2, <4>1, LoopShrinks DEF OwnTasks
    <3>2. consumerChannels'[Head(loop).slot] \subseteq
              consumerChannels[Head(loop).slot] \cup {Head(loop).what}
        BY <1>0, <2>1, <2>5 DEF RunConsumer
    <3>3. \A s \in Slots \ {Head(loop).slot} : consumerChannels'[s] = consumerChannels[s]
        BY <1>0, <2>1, <2>5 DEF RunConsumer
    <3> QED
        BY <3>1, <3>2, <3>3 DEF OwnTopics
  <2> QED
      BY <1>2, <2>2, <2>3, <2>4, <2>5 DEF RunsTask
<1> QED
    BY <1>1, <1>2

\* The task that starts a topic's consumer stays until it runs.
LEMMA ComingStays ==
    ASSUME TypeOK, Next, NEW t \in Topics, Coming(t),
           ~(RunConsumer /\ Head(loop).what = t)
    PROVE  Coming(t)'
<1>1. PICK i \in DOMAIN loop : loop[i].kind = "consumer" /\ loop[i].slot = SlotOf[t]
                               /\ loop[i].what = t
    BY DEF Coming, Queued
<1>2. CASE RunsNone
    BY <1>1, <1>2, LoopGrows DEF Coming, Queued
<1>3. CASE RunsTask
  <2>1. i # 1
    <3>1. Head(loop).kind = "consumer" => RunConsumer
        BY <1>3 DEF RunsTask, RunConnect, RunReady, RunFailure, RunPublish, RunStop, Run
    <3> QED
        BY <1>1, <1>3, <3>1, LoopShrinks
  <2> QED
      BY <1>1, <1>3, <2>1, LoopShrinks DEF Coming, Queued
<1> QED
    BY <1>2, <1>3, EitherRuns

-----------------------------------------------------------------------------
(* What the status says of the topics.                                      *)

\* Before slots_ is filled no slot says ready.
LEMMA NotReadyYet ==
    ASSUME BrokerInv, ~loopLost, main \in {"boot", "init"}
    PROVE  \A s \in Slots : ~ready[s]
BY DEF BrokerInv, FlagInv, ReconnectInv, Reconnects, Fresh, Usable

\* A call of subscribe that has pushed its subscription queues the consumer's task, or has
\* yet to, if the broker runs.
LEMMA CallGoesOn ==
    ASSUME TypeOK, Next, NEW t \in Topics, subscribing[t] # "no", started_, slots_ # {}
    PROVE  subscribing'[t] # "no" \/ Coming(t)'
<1>0. subscribing \in [Topics -> {"no", "pushed", "checked"}]
    BY DEF TypeOK
<1>1. ASSUME NEW u \in Topics, Subscribe(u) \/ SubscribeChecks(u)
      PROVE  subscribing'[t] # "no"
    BY <1>0, <1>1 DEF Subscribe, SubscribeChecks
<1>2. ASSUME NEW u \in Topics, SubscribeQueues(u)
      PROVE  subscribing'[t] # "no" \/ Coming(t)'
  <2>1. CASE u # t
      BY <1>0, <1>2, <2>1 DEF SubscribeQueues
  <2>2. CASE u = t
    <3> DEFINE task == [kind |-> "consumer", slot |-> SlotOf[t], what |-> t]
    <3>1. task \in Tasks /\ loop \in Seq(Tasks) /\ loop' = Append(loop, task)
        BY <1>2, <2>2, TopicsAssumption DEF SubscribeQueues, TypeOK, Tasks
    <3>2. Len(loop) + 1 \in DOMAIN loop' /\ loop'[Len(loop) + 1] = task
        BY <3>1, AppendFacts
    <3> QED
        BY <3>2 DEF Coming, Queued
  <2> QED
      BY <2>1, <2>2
<1>3. CASE ~\E u \in Topics : Subscribe(u) \/ SubscribeGoesOn(u)
  <2>1. UNCHANGED subscribing
      BY <1>3 DEF Next, MainSteps, LoopSteps, StartBegin, InitializeSlots, StartSlot, StopSlot,
            ForEachSlot, StopBegin, Publish, PublishQueue, ConnectSlot, TimerFires, AmqpReady,
            AmqpFails, ChannelFails, Callback, RunConnect, RunReady, RunFailure, RunPublish,
            RunStop, RunConsumer, Run
  <2> QED
      BY <2>1
<1> QED
    BY <1>1, <1>2, <1>3 DEF SubscribeGoesOn

\* A topic stays served by a step that does not take its consumer, its slot's failure or
\* the task that starts it, while the broker runs.
LEMMA ServedKept ==
    ASSUME BrokerInv, Next, NEW t \in Topics, Served(t), started_, slots_ # {},
           stage'[t] = stage[t],
           ~(RunFailure /\ Head(loop).slot = SlotOf[t]),
           ~(RunConsumer /\ Head(loop).what = t)
    PROVE  Served(t)'
<1>0. TypeOK /\ TypedTasks /\ SlotOf[t] \in Slots /\ "failure" \in Kinds
    BY TopicsAssumption DEF BrokerInv, Kinds
<1>1. Coming(t) => Coming(t)'
    BY <1>0, ComingStays
<1>2. Queued("failure", SlotOf[t]) # {} => Queued("failure", SlotOf[t])' # {}
  <2>1. CASE ~RunsTask
      BY <1>0, <2>1, OthersKeep
  <2>2. CASE RunsTask
    <3>1. Head(loop).kind # "failure" \/ Head(loop).slot # SlotOf[t]
      <4>1. Head(loop).kind = "failure" => RunFailure
          BY <2>2 DEF RunsTask, RunConnect, RunReady, RunPublish, RunStop, RunConsumer, Run
      <4> QED
          BY <4>1
    <3> QED
        BY <1>0, <2>2, <3>1, TaskRuns
  <2> QED
      BY <2>1, <2>2
<1>3. subscribing[t] # "no" => subscribing'[t] # "no" \/ Coming(t)'
    BY <1>0, CallGoesOn
<1> QED
    BY <1>1, <1>2, <1>3 DEF Served

\* The steps that the consumers have no part in.
LEMMA OthersServe ==
    ASSUME BrokerInv, Next, ServedInv, OtherSteps, started_', ~loopLost',
           NEW t \in Topics, t \in subscriptions_', ready'[SlotOf[t]]
    PROVE  Served(t)'
<1>0. TypeOK /\ MainInv /\ SlotOf[t] \in Slots
    BY TopicsAssumption DEF BrokerInv
<1>1. UNCHANGED stage /\ ready' = ready /\ loopLost' = loopLost
  <2>1. UNCHANGED stage
      BY Zenon DEF OtherSteps, consumerVars
  <2>2. UNCHANGED slotFlags /\ UNCHANGED loopLost
      BY DEF OtherSteps, MainSteps, StartBegin, InitializeSlots, StartSlot, StopSlot,
             ForEachSlot, StopBegin, Subscribe, SubscribeGoesOn, SubscribeChecks,
             SubscribeQueues, Publish, PublishQueue, ConnectSlot, TimerFires, AmqpReady,
             Callback, RunPublish
  <2> QED
      BY <2>1, <2>2 DEF slotFlags
<1>2. ~RunFailure /\ ~RunConsumer
  <2>1. RunPublish \/ RunsNone
      BY Zenon DEF OtherSteps, RunsNone
  <2>2. RunPublish => Head(loop).kind = "publish"
      BY DEF RunPublish, Run
  <2>3. (RunFailure => Head(loop).kind = "failure") /\ (RunConsumer => Head(loop).kind = "consumer")
      BY DEF RunFailure, RunConsumer, Run
  <2> QED
      BY <1>0, <2>1, <2>2, <2>3, EitherRuns DEF RunsTask
<1>3. main \notin {"boot", "init"}
    BY <1>0, <1>1, NotReadyYet
<1>4. CASE started_ /\ t \in subscriptions_
  <2>1. Served(t)
      BY <1>1, <1>4 DEF ServedInv
  <2>2. slots_ # {}
      BY <1>0, <1>3 DEF MainInv
  <2> QED
      BY <1>1, <1>2, <1>4, <2>1, <2>2, ServedKept
<1>5. CASE ~started_
  <2>1. StartBegin
      BY <1>5, Zenon DEF OtherSteps, MainSteps, InitializeSlots, StartSlot, StopSlot,
            ForEachSlot, StopBegin, Subscribe, SubscribeGoesOn, SubscribeChecks,
            SubscribeQueues, Publish, PublishQueue, ConnectSlot, TimerFires, AmqpReady,
            Callback, RunPublish, Run, mainVars
  <2> QED
      BY <1>3, <2>1 DEF StartBegin
<1>6. CASE started_ /\ t \notin subscriptions_
  <2>1. Subscribe(t)
    <3>1. ASSUME NEW u \in Topics, Subscribe(u) PROVE u = t
        BY <1>6, <3>1 DEF Subscribe
    <3>2. (\E u \in Topics : Subscribe(u)) \/ subscriptions_' = subscriptions_
        BY Zenon DEF OtherSteps, MainSteps, StartBegin, InitializeSlots, StartSlot, StopSlot,
           ForEachSlot, StopBegin, SubscribeGoesOn, SubscribeChecks, SubscribeQueues, Publish,
           PublishQueue, ConnectSlot, TimerFires, AmqpReady, Callback, RunPublish, Run
    <3> QED
        BY <1>6, <3>1, <3>2
  <2>2. subscribing'[t] = "pushed"
      BY <1>0, <2>1 DEF Subscribe, TypeOK
  <2> QED
      BY <2>2 DEF Served
<1> QED
    BY <1>4, <1>5, <1>6

\* A topic of another slot than the one that the step is about.
LEMMA ElsewhereServe ==
    ASSUME BrokerInv, Next, ServedInv, UNCHANGED <<started_, subscriptions_>>, ~loopLost,
           started_, NEW t \in Topics, t \in subscriptions_,
           ready'[SlotOf[t]] = ready[SlotOf[t]], ready'[SlotOf[t]], stage'[t] = stage[t],
           ~(RunFailure /\ Head(loop).slot = SlotOf[t]),
           ~(RunConsumer /\ Head(loop).what = t)
    PROVE  Served(t)'
<1>1. Served(t)
    BY DEF ServedInv
<1>2. slots_ # {}
  <2>1. main \notin {"boot", "init"}
      BY TopicsAssumption, NotReadyYet
  <2> QED
      BY <2>1 DEF BrokerInv, MainInv
<1> QED
    BY <1>1, <1>2, ServedKept

\* What a task leaves alone.
LEMMA TaskLeaves ==
    ASSUME BrokerInv, RunsTask
    PROVE  /\ UNCHANGED <<started_, subscriptions_>> /\ ~loopLost /\ Next
           /\ Head(loop).slot \in Slots
           /\ \A s \in Slots : s # Head(loop).slot => ready'[s] = ready[s]
<1>0. TypeOK /\ TypedTasks /\ ready \in [Slots -> BOOLEAN]
    BY DEF BrokerInv, TypeOK
<1>1. UNCHANGED started_ /\ ~loopLost /\ Head(loop).slot \in Slots
    BY <1>0, TaskRuns
<1>2. UNCHANGED subscriptions_
    BY DEF RunsTask, RunConnect, RunReady, RunFailure, RunPublish, RunStop, RunConsumer, Run
<1>3. Next
    BY <1>0, EitherRuns
<1>4. \/ UNCHANGED ready
      \/ ready' = [ready EXCEPT ![Head(loop).slot] = TRUE]
      \/ ready' = [ready EXCEPT ![Head(loop).slot] = FALSE]
    BY Zenon DEF RunsTask, RunConnect, RunReady, RebuildAndFlush, RebuildOnNothing, RunFailure,
       RunPublish, RunStop, RunConsumer, slotFlags
<1>5. \A s \in Slots : s # Head(loop).slot => ready'[s] = ready[s]
    BY <1>0, <1>1, <1>4
<1> QED
    BY <1>1, <1>2, <1>3, <1>5

\* The connection of a slot goes, or is said to have gone.
LEMMA DropsServe ==
    ASSUME BrokerInv, ConsumerTypes, ServedInv, Drops, started_', ~loopLost',
           NEW t \in Topics, t \in subscriptions_', ready'[SlotOf[t]]
    PROVE  Served(t)'
<1>0. TypeOK /\ ready \in [Slots -> BOOLEAN] /\ SlotOf[t] \in Slots
    BY TopicsAssumption DEF BrokerInv, TypeOK
<1>1. CASE /\ RunConnect \/ RunStop \/ RunFailure
           /\ ConnectionGoes(Head(loop).slot) \/ Replace(Here(Head(loop).slot), {})
  <2>1. RunsTask
      BY <1>1 DEF RunsTask
  <2>2. ready' = [ready EXCEPT ![Head(loop).slot] = FALSE]
      BY <1>1 DEF RunConnect, RunStop, RunFailure
  <2>3. Head(loop).slot # SlotOf[t]
      BY <1>0, <2>2
  <2>4. stage'[t] = stage[t]
      BY <1>1, <2>3 DEF ConnectionGoes, Replace, Here
  <2>5. ~RunConsumer
    <3>1. Head(loop).kind # "consumer"
        BY <1>1 DEF RunConnect, RunStop, RunFailure, Run
    <3> QED
        BY <3>1 DEF RunConsumer, Run
  <2> QED
      BY <1>0, <2>1, <2>3, <2>4, <2>5, TaskLeaves, ElsewhereServe
<1>2. ASSUME NEW s \in Slots, AmqpFails(s), ConnectionGoes(s) PROVE Served(t)'
  <2>1. CASE SlotOf[t] = s
    <3>1. Queued("failure", SlotOf[t])' # {}
        BY <1>0, <1>2, <2>1, FailureQueued
    <3> QED
        BY <3>1 DEF Served
  <2>2. CASE SlotOf[t] # s
    <3>1. RunsNone /\ ~RunsTask /\ Next
        BY <1>0, <1>2, EitherRuns DEF RunsNone
    <3>2. UNCHANGED <<started_, subscriptions_, subscribing, loopLost, ready>>
        BY <1>2 DEF AmqpFails, Callback, mainVars, slotFlags
    <3>3. stage'[t] = stage[t]
        BY <1>2, <2>2 DEF ConnectionGoes, Here
    <3> QED
        BY <3>1, <3>2, <3>3, ElsewhereServe DEF RunsTask
  <2> QED
      BY <2>1, <2>2
<1> QED
    BY <1>1, <1>2, Zenon DEF Drops

\* rebuildChannels starts the consumers of all subscriptions of its slot.
LEMMA RebuildsServe ==
    ASSUME BrokerInv, ServedInv, Rebuilds, started_', ~loopLost',
           NEW t \in Topics, t \in subscriptions_', ready'[SlotOf[t]]
    PROVE  Served(t)'
<1>0. TypeOK /\ consumerChannels \in [Slots -> SUBSET Topics] /\ SlotOf[t] \in Slots
    BY TopicsAssumption DEF BrokerInv, TypeOK
<1>1. RunReady /\ RunsTask
    BY DEF Rebuilds, RunsTask
<1>2. PICK s \in Slots : s = Head(loop).slot
    BY <1>1, TaskLeaves
<1>3. UNCHANGED <<started_, subscriptions_>> /\ ~loopLost /\ Next
    BY <1>1, TaskLeaves
<1>4. Replace(Here(s), consumerChannels'[s])
    BY <1>2 DEF Rebuilds
<1>5. consumerChannels' = [consumerChannels EXCEPT ![s] = {u \in subscriptions_ : SlotOf[u] = s}]
    BY <1>1, <1>2 DEF RunReady, RebuildAndFlush, RebuildOnNothing
<1>6. consumerChannels'[s] = {u \in subscriptions_ : SlotOf[u] = s}
    BY <1>0, <1>5
<1>7. CASE SlotOf[t] = s
  <2>1. stage'[t] = 1
      BY <1>3, <1>4, <1>6, <1>7 DEF Replace
  <2> QED
      BY <2>1, CallsCounted DEF Served
<1>8. CASE SlotOf[t] # s
  <2>1. stage'[t] = stage[t]
      BY <1>4, <1>6, <1>8 DEF Replace, Here
  <2>2. ready'[SlotOf[t]] = ready[SlotOf[t]]
      BY <1>0, <1>1, <1>2, <1>8, TaskLeaves
  <2>3. ~RunFailure /\ ~RunConsumer
    <3>1. Head(loop).kind = "ready"
        BY <1>1 DEF RunReady, Run
    <3> QED
        BY <3>1 DEF RunFailure, RunConsumer, Run
  <2> QED
      BY <1>3, <2>1, <2>2, <2>3, ElsewhereServe
<1> QED
    BY <1>7, <1>8

\* startConsumer opens the topic's consumer, unless the slot is not what its flag says.
LEMMA StartServes ==
    ASSUME BrokerInv, ServedInv, StartConsumer, started_', ~loopLost',
           NEW t \in Topics, t \in subscriptions_', ready'[SlotOf[t]]
    PROVE  Served(t)'
<1>0. TypeOK /\ TypedTasks /\ SlotOf[t] \in Slots /\ "failure" \in Kinds
    BY TopicsAssumption DEF BrokerInv, Kinds
<1>1. RunConsumer /\ RunsTask /\ Head(loop).kind = "consumer" /\ UNCHANGED ready
    BY DEF StartConsumer, RunsTask, RunConsumer, Run, slotFlags
<1>2. UNCHANGED <<started_, subscriptions_>> /\ ~loopLost /\ Next
    BY <1>1, TaskLeaves
<1>3. CASE Head(loop).what = t /\ link[SlotOf[t]] \in Usable
  <2>1. Replace({t}, {t})
      BY <1>1, <1>3 DEF StartConsumer
  <2>2. stage'[t] = 1
      BY <2>1 DEF Replace
  <2> QED
      BY <2>2, CallsCounted DEF Served
<1>4. CASE link[SlotOf[t]] \notin Usable
  <2>1. Queued("failure", SlotOf[t]) # {}
      BY <1>0, <1>1, <1>2, <1>4 DEF BrokerInv, FlagInv
  <2>2. Queued("failure", SlotOf[t])' # {}
      BY <1>0, <1>1, <2>1, TaskRuns
  <2> QED
      BY <2>2 DEF Served
<1>5. CASE Head(loop).what # t
  <2>1. stage'[t] = stage[t]
    <3>1. UNCHANGED consumerVars \/ Replace({Head(loop).what}, {Head(loop).what})
        BY DEF StartConsumer
    <3> QED
        BY <1>5, <3>1 DEF Replace, consumerVars
  <2>2. ~RunFailure
      BY <1>1 DEF RunFailure, Run
  <2> QED
      BY <1>1, <1>2, <1>5, <2>1, <2>2, ElsewhereServe
<1> QED
    BY <1>3, <1>4, <1>5

\* A channel that the server closes is reported, and its consumer is of the same slot.
LEMMA ClosesServe ==
    ASSUME BrokerInv, ConsumerTypes, OwnTopics, ServedInv, ChannelCloses, started_', ~loopLost',
           NEW t \in Topics, t \in subscriptions_', ready'[SlotOf[t]]
    PROVE  Served(t)'
<1>0. TypeOK /\ SlotOf[t] \in Slots
    BY TopicsAssumption DEF BrokerInv
<1>1. PICK s \in Slots :
          /\ ChannelFails(s)
          /\ \/ UNCHANGED consumerVars
             \/ \E u \in consumerChannels[s] : stage' = [stage EXCEPT ![u] = NoConsumer]
    BY DEF ChannelCloses
<1>2. CASE SlotOf[t] = s
  <2>1. Queued("failure", SlotOf[t])' # {}
      BY <1>0, <1>1, <1>2, FailureQueued
  <2> QED
      BY <2>1 DEF Served
<1>3. CASE SlotOf[t] # s
  <2>1. RunsNone /\ ~RunsTask /\ Next
      BY <1>0, <1>1, EitherRuns DEF RunsNone
  <2>2. UNCHANGED <<started_, subscriptions_, subscribing, loopLost, ready>>
      BY <1>1 DEF ChannelFails, Callback, mainVars, slotFlags
  <2>3. stage'[t] = stage[t]
      BY <1>1, <1>3 DEF OwnTopics, ConsumerTypes, consumerVars
  <2> QED
      BY <2>1, <2>2, <2>3, ElsewhereServe DEF RunsTask
<1> QED
    BY <1>2, <1>3

LEMMA ServedStep ==
    ASSUME ConsumersInv, ConsumersNext
    PROVE  ServedInv'
<1>0. BrokerInv /\ ConsumerTypes /\ OwnTopics /\ ServedInv /\ TypeOK'
    BY BesideBroker DEF ConsumersInv, BrokerInv
<1> SUFFICES ASSUME started_', ~loopLost', NEW t \in subscriptions_', ready'[SlotOf[t]]
             PROVE  Served(t)'
    BY DEF ServedInv
<1>1. t \in Topics
    BY <1>0 DEF TypeOK
<1>2. CASE Drops
    BY <1>0, <1>1, <1>2, DropsServe
<1>3. CASE Rebuilds
    BY <1>0, <1>1, <1>3, RebuildsServe
<1>4. CASE StartConsumer
    BY <1>0, <1>1, <1>4, StartServes
<1>5. CASE ChannelCloses
    BY <1>0, <1>1, <1>5, ClosesServe
<1>6. CASE OtherSteps
  <2>1. Next
      BY <1>6, Zenon DEF OtherSteps, Next, LoopSteps
  <2> QED
      BY <1>0, <1>1, <1>6, <2>1, OthersServe
<1>7. ASSUME NEW u \in Topics,
             Answered(u) \/ Received(u) \/ OrphanClosed(u) \/ Sent(u) \/ Acked(u)
      PROVE  Served(t)'
  <2>1. UNCHANGED <<started_, loopLost, subscriptions_, subscribing, ready, loop>>
      BY <1>7 DEF Answered, Received, OrphanClosed, Sent, Acked, vars, mainVars, slotFlags
  <2>2. Served(t)
      BY <1>0, <2>1 DEF ServedInv
  <2>3. stage[t] # NoConsumer => stage'[t] # NoConsumer
    <3>1. UNCHANGED stage \/ Answered(u)
        BY <1>7 DEF Received, OrphanClosed, Sent, Acked
    <3>2. Answered(u) => stage'[t] \in {stage[t], stage[t] + 1} /\ stage[t] \in Nat
        BY <1>0, <1>1, CallsCounted DEF Answered, ConsumerTypes
    <3> QED
        BY <3>1, <3>2, CallsCounted
  <2>4. /\ Queued("failure", SlotOf[t])' = Queued("failure", SlotOf[t])
        /\ Coming(t)' = Coming(t) /\ subscribing' = subscribing
      BY <2>1 DEF Queued, Coming
  <2> QED
      BY <2>2, <2>3, <2>4 DEF Served
<1>8. ASSUME NEW u \in Topics, OrphanAnswered(u) PROVE FALSE
    BY <1>8 DEF OrphanAnswered
<1> QED
    BY <1>2, <1>3, <1>4, <1>5, <1>6, <1>7, <1>8, Zenon DEF ConsumersNext

-----------------------------------------------------------------------------
(* The invariant.                                                           *)

LEMMA ConsumersInitInv == ConsumersInit => ConsumersInv
<1> SUFFICES ASSUME ConsumersInit PROVE ConsumersInv
    OBVIOUS
<1>1. BrokerInv
    BY InitInv DEF ConsumersInit
<1>2. ConsumerTypes
    BY CallsCounted DEF ConsumersInit, ConsumerTypes
<1>3. OwnTasks /\ OwnTopics /\ ServedInv
    BY DEF ConsumersInit, Init, OwnTasks, OwnTopics, ServedInv
<1> QED
    BY <1>1, <1>2, <1>3 DEF ConsumersInv

LEMMA ConsumersSameInv ==
    ASSUME ConsumersInv, UNCHANGED allVars
    PROVE  ConsumersInv'
<1>1. UNCHANGED vars /\ UNCHANGED consumerVars
    BY DEF allVars
<1>2. BrokerInv'
    BY <1>1, SameInv DEF ConsumersInv
<1>3. UNCHANGED <<loop, consumerChannels, started_, loopLost, subscriptions_, subscribing,
                  ready>>
    BY <1>1 DEF vars, channelVars, mainVars, slotFlags
<1>4. ConsumerTypes' /\ UNCHANGED stage
    BY <1>1 DEF ConsumersInv, ConsumerTypes, consumerVars
<1>5. OwnTasks' /\ OwnTopics'
    BY <1>3 DEF ConsumersInv, OwnTasks, OwnTopics
<1>6. ServedInv'
    BY <1>3, <1>4 DEF ConsumersInv, ServedInv, Served, Coming, Queued
<1> QED
    BY <1>2, <1>4, <1>5, <1>6 DEF ConsumersInv

LEMMA ConsumersInvStep ==
    ASSUME ConsumersInv, ConsumersNext
    PROVE  ConsumersInv'
<1>1. BrokerInv /\ ConsumerTypes /\ OwnTasks /\ OwnTopics /\ TypeOK /\ TypedTasks
    BY DEF ConsumersInv, BrokerInv
<1>2. BrokerInv'
    BY <1>1, BesideBroker
<1>3. ConsumerTypes'
    BY <1>1, ConsumerTypesStep
<1>4. OwnTasks' /\ OwnTopics'
  <2>1. CASE Next
      BY <1>1, <2>1, OwnTasksStep, OwnTopicsStep
  <2>2. CASE ~Next
    <3>1. UNCHANGED <<loop, consumerChannels>>
        BY <2>2, BrokersPart DEF OrphanAnswered, vars, channelVars
    <3> QED
        BY <1>1, <3>1 DEF OwnTasks, OwnTopics
  <2> QED
      BY <2>1, <2>2
<1> QED
    BY <1>2, <1>3, <1>4, ServedStep DEF ConsumersInv

LEMMA ConsumersInvariant == ConsumersSpec => []ConsumersInv
<1>1. ConsumersInit => ConsumersInv
    BY ConsumersInitInv
<1>2. ConsumersInv /\ [ConsumersNext]_allVars => ConsumersInv'
    BY ConsumersInvStep, ConsumersSameInv
<1> QED
    BY <1>1, <1>2, PTL DEF ConsumersSpec

-----------------------------------------------------------------------------
(* The theorems.                                                            *)

\* The variables of the broker and of its consumers keep their types: a set-up makes its
\* five calls and no sixth, however often channels and connections are lost.
THEOREM ConsumersTypeCorrect == ConsumersSpec => []ConsumersTypeOK
<1>1. ConsumersInv => ConsumersTypeOK
    BY DEF ConsumersInv, BrokerInv, ConsumerTypes, ConsumersTypeOK
<1> QED
    BY <1>1, ConsumersInvariant, PTL

\* A topic that the status of a running broker lists as ready has a consumer, or the loop
\* is about to give it one or to learn that the slot has failed, or the call of subscribe
\* that listed it has not returned.
THEOREM StatusTellsTopics == ConsumersSpec => []ReadyTopicsServed
<1>1. ASSUME ConsumersInv PROVE ReadyTopicsServed
  <2> SUFFICES ASSUME started_, ~loopLost, NEW t \in ReadyTopics PROVE Served(t)
      BY DEF ReadyTopicsServed, StatusJson, Served, Coming
  <2>1. t \in subscriptions_ /\ ready[SlotOf[t]]
      BY DEF ReadyTopics
  <2> QED
      BY <1>1, <2>1 DEF ConsumersInv, ServedInv
<1> QED
    BY <1>1, ConsumersInvariant, PTL

\* Beside its consumers, whose late answers may cost the broker its loop, it still neither
\* loses nor repeats a publish, counts what waits, says ready when it is, reconnects once
\* and forgets no slot and no publish.
THEOREM BrokerBesideConsumers ==
    ConsumersSpec => [](/\ ExactlyOnePlace /\ QueuedCountExact /\ ReadyIsTrue
                        /\ OneReconnect /\ ReconnectUnderWay /\ WaitsForReady)
<1>1. BrokerInv => ExactlyOnePlace /\ QueuedCountExact /\ OneReconnect
    BY PlaceIsOne, CountIsExact, ReconnectIsOne
<1>2. BrokerInv => ReadyIsTrue /\ WaitsForReady
    BY DEF BrokerInv, FlagInv, ReadyIsTrue
<1>3. BrokerInv => ReconnectUnderWay
    BY DEF BrokerInv, UnderWayInv, UnderWay, Calling, ReconnectUnderWay
<1> QED
    BY <1>1, <1>2, <1>3, BrokerInvBesideConsumers, PTL

\* The callers of publish see the publish service beside the consumers as well: no set-up,
\* message or orphan changes what becomes of a publish.
THEOREM ServesBesideConsumers == ConsumersSpec => ImplementsPublishing
<1>1. ConsumersInit => Service!Init
    BY ServesFirst DEF ConsumersInit
<1>2. BrokerInv /\ BrokerInv' /\ [ConsumersNext]_allVars => [Service!Next]_(Service!vars)
  <2>1. ASSUME UNCHANGED vars PROVE UNCHANGED Service!vars
      BY <2>1, ServesUnseen DEF vars
  <2>2. ASSUME NEW t \in Topics, OrphanAnswered(t) PROVE UNCHANGED Service!vars
      BY <2>2, ServesUnseen DEF OrphanAnswered
  <2>3. UNCHANGED allVars => UNCHANGED vars
      BY DEF allVars
  <2> QED
      BY <2>1, <2>2, <2>3, BrokersPart, ServesStep
<1> QED
    BY <1>1, <1>2, BrokerInvBesideConsumers, PTL DEF ConsumersSpec, ImplementsPublishing, Service!Spec
=============================================================================
