------------------------ MODULE RabbitMqBrokerProofs ------------------------
(***************************************************************************)
(* Theorems about RabbitMqBroker, for any number of slots, channels,       *)
(* publishes, topics and faults.                                           *)
(***************************************************************************)
EXTENDS RabbitMqBroker, FiniteSetTheorems, TLAPS

\* What a task of publish and of startConsumer is about.
TypedTasks ==
    /\ \A i \in DOMAIN loop : loop[i].kind = "publish" => loop[i].what \in Publishes
    /\ \A i \in DOMAIN loop : loop[i].kind = "consumer" => loop[i].what \in Topics
    /\ doing.at = "publish" => doing.what \in Publishes

\* All that waits in the deques, by its place.
Waiting == UNION {{s} \X DOMAIN pendingPublishes[s] : s \in Slots}

CountInv == IsFiniteSet(Waiting) /\ queuedPublishes_ = Cardinality(Waiting)

\* A slot that says ready but could not publish is about to hear of its failure.
FlagInv ==
    \A s \in Slots :
        ready[s] /\ (publisherChannels[s] = {} \/ broken[s] # {} \/ link[s] \notin Usable)
            => Queued("failure", s) # {} \/ loopLost

\* The call of connectSlot by the timer.
Calling(s) == doing.at = "reconnect" /\ doing.slot = s

\* A reconnect of the slot is on its way.
Reconnecting(s) == timers[s] = 1 \/ Queued("connect", s) # {} \/ Calling(s)

\* The slot never had a connection.
Fresh(s) == link[s] = "none" /\ Queued("ready", s) = {} /\ Queued("failure", s) = {}

\* A reconnect is on its way in one form, and while the broker runs it is so exactly when
\* reconnectScheduled says so, or for the first connection that start asks for.
Reconnects(s) ==
    /\ timers[s] \in {0, 1}
    /\ \A i, j \in Queued("connect", s) : i = j
    /\ timers[s] = 1 => Queued("connect", s) = {} /\ ~Calling(s)
    /\ Calling(s) => Queued("connect", s) = {}
    /\ started_ /\ reconnectScheduled[s] => Reconnecting(s)
    /\ started_ /\ ~reconnectScheduled[s] /\ Reconnecting(s) => Fresh(s)
    /\ main \in {"boot", "init"} \/ (main = "start" /\ mi <= s) =>
          ~Reconnecting(s) /\ Fresh(s) /\ ~reconnectScheduled[s]

ReconnectInv == \A s \in Slots : Reconnects(s)

\* started_ follows the main thread, and only stop queues its tasks.
MainInv ==
    /\ started_ <=> main \in {"init", "start", "running"}
    /\ slots_ = {} <=> main \in {"boot", "init"}
    /\ \A s \in Slots : Queued("stop", s) # {} => main \in {"stop", "stopped"}

\* A slot works, or something that will reconnect it is on its way.
UnderWay(s) ==
    \/ ready[s] /\ link[s] = "open"
    \/ link[s] = "opening"
    \/ Queued("connect", s) # {} \/ Queued("ready", s) # {} \/ Queued("failure", s) # {}
    \/ timers[s] > 0
    \/ Calling(s)

\* Every slot that start has come by is under way.
UnderWayInv ==
    ~loopLost => \A s \in Slots :
        main = "running" \/ (main = "start" /\ s < mi) => UnderWay(s)

\* The places of publish p: a slot's deque, any deque, and the call that queues its task.
Lies(p, s) == {i \in DOMAIN pendingPublishes[s] : pendingPublishes[s][i] = p}
Waits(p)   == \E s \in Slots : Lies(p, s) # {}
Called(p)  == doing.at = "publish" /\ doing.what = p

\* A publish that was requested is in one place, and it is there once.
Placed(p) ==
    /\ \A i, j \in TasksOf(p) : i = j
    /\ \A s, t \in Slots : \A i \in Lies(p, s), j \in Lies(p, t) : s = t /\ i = j
    /\ published[p] \in {0, 1}
    /\ p \in requested <=> \/ TasksOf(p) # {} \/ Waits(p) \/ published[p] = 1
                           \/ p \in rejected \/ p \in dropped \/ Called(p)
    /\ TasksOf(p) # {} => ~Waits(p) /\ published[p] = 0 /\ p \notin rejected
                             /\ p \notin dropped /\ ~Called(p)
    /\ Waits(p) => published[p] = 0 /\ p \notin rejected /\ p \notin dropped /\ ~Called(p)
    /\ published[p] = 1 => p \notin rejected /\ p \notin dropped /\ ~Called(p)
    /\ p \in rejected => p \notin dropped /\ ~Called(p)
    /\ p \in dropped => ~Called(p)

PlaceInv == \A p \in Publishes : Placed(p)

BrokerInv ==
    /\ TypeOK
    /\ TypedTasks
    /\ CountInv
    /\ FlagInv
    /\ ReconnectInv
    /\ MainInv
    /\ UnderWayInv
    /\ WaitsForReady
    /\ PlaceInv

-----------------------------------------------------------------------------
(* Numbers and sequences.                                                   *)

LEMMA Numbers == NumSlots \in Nat \ {0} /\ Slots = 0 .. NumSlots - 1
<1>1. NumSlots \in Nat /\ Slots = 0 .. NumSlots - 1
    BY SlotsAssumption, FS_CardinalityType DEF NumSlots
<1> QED
    BY <1>1, SlotsAssumption

\* A remainder is less than what it is divided by.
LEMMA Remainder ==
    ASSUME NEW n \in Nat, NEW N \in Nat \ {0}
    PROVE  n % N \in 0 .. N - 1
OBVIOUS

LEMMA SmallRemainder ==
    ASSUME NEW N \in Nat \ {0}, NEW n \in 0 .. N - 1
    PROVE  n % N = n
OBVIOUS

LEMMA HeadFacts ==
    ASSUME NEW S, NEW q \in Seq(S), q # <<>>
    PROVE  /\ Head(q) \in S /\ Tail(q) \in Seq(S) /\ Head(q) = q[1] /\ 1 \in DOMAIN q
           /\ \A i \in DOMAIN Tail(q) : i + 1 \in DOMAIN q /\ Tail(q)[i] = q[i + 1]
           /\ \A i \in DOMAIN q : i # 1 => i - 1 \in DOMAIN Tail(q) /\ Tail(q)[i - 1] = q[i]
           /\ DOMAIN q \subseteq Nat \ {0} /\ DOMAIN Tail(q) \subseteq Nat \ {0}
OBVIOUS

LEMMA AppendFacts ==
    ASSUME NEW S, NEW q \in Seq(S), NEW x \in S
    PROVE  /\ Append(q, x) \in Seq(S) /\ Len(q) \in Nat
           /\ DOMAIN Append(q, x) = DOMAIN q \cup {Len(q) + 1} /\ Len(q) + 1 \notin DOMAIN q
           /\ \A i \in DOMAIN q : Append(q, x)[i] = q[i]
           /\ Append(q, x)[Len(q) + 1] = x
OBVIOUS

\* A publish that goes back to the front moves the others by one.
LEMMA PrependFacts ==
    ASSUME NEW S, NEW q \in Seq(S), NEW x \in S
    PROVE  /\ <<x>> \o q \in Seq(S) /\ Len(<<x>> \o q) = Len(q) + 1 /\ Len(q) \in Nat
           /\ DOMAIN (<<x>> \o q) = 1 .. Len(q) + 1 /\ (<<x>> \o q)[1] = x
           /\ \A i \in DOMAIN q : (<<x>> \o q)[i + 1] = q[i]
           /\ \A i \in 2 .. Len(q) + 1 : i - 1 \in DOMAIN q /\ (<<x>> \o q)[i] = q[i - 1]
OBVIOUS

LEMMA ConcatFacts ==
    ASSUME NEW S, NEW q \in Seq(S), NEW n \in Nat, NEW x \in S
    PROVE  LET r == q \o [i \in 1 .. n |-> x] IN
           /\ r \in Seq(S) /\ DOMAIN q \subseteq DOMAIN r
           /\ \A i \in DOMAIN q : r[i] = q[i]
           /\ \A i \in DOMAIN r \ DOMAIN q : r[i] = x
           /\ n > 0 => Len(q) + 1 \in DOMAIN r \ DOMAIN q
OBVIOUS

-----------------------------------------------------------------------------
(* The loop.                                                                *)

Kinds == {"connect", "ready", "failure", "stop"}

\* Running the first task takes it out, and nothing else.
LEMMA RunFacts ==
    ASSUME loop \in Seq(Tasks), loop # <<>>, loop' = Tail(loop)
    PROVE  \A kind \in Kinds, s \in Slots :
              /\ Head(loop).kind # kind \/ Head(loop).slot # s =>
                    (Queued(kind, s)' = {} <=> Queued(kind, s) = {})
              /\ Queued(kind, s) = {} => Queued(kind, s)' = {}
              /\ Head(loop).kind = kind /\ Head(loop).slot = s => Queued(kind, s) # {}
              /\ (\A i, j \in Queued(kind, s) : i = j) =>
                    /\ \A i, j \in Queued(kind, s)' : i = j
                    /\ Head(loop).kind = kind /\ Head(loop).slot = s => Queued(kind, s)' = {}
<1> SUFFICES ASSUME NEW kind \in Kinds, NEW s \in Slots
             PROVE  /\ Head(loop).kind # kind \/ Head(loop).slot # s =>
                          (Queued(kind, s)' = {} <=> Queued(kind, s) = {})
                    /\ Queued(kind, s) = {} => Queued(kind, s)' = {}
                    /\ Head(loop).kind = kind /\ Head(loop).slot = s => Queued(kind, s) # {}
                    /\ (\A i, j \in Queued(kind, s) : i = j) =>
                          /\ \A i, j \in Queued(kind, s)' : i = j
                          /\ Head(loop).kind = kind /\ Head(loop).slot = s =>
                                Queued(kind, s)' = {}
    OBVIOUS
<1>1. /\ Head(loop) = loop[1] /\ 1 \in DOMAIN loop
      /\ \A i \in DOMAIN Tail(loop) : i + 1 \in DOMAIN loop /\ Tail(loop)[i] = loop[i + 1]
      /\ \A i \in DOMAIN loop : i # 1 => i - 1 \in DOMAIN Tail(loop) /\ Tail(loop)[i - 1] = loop[i]
      /\ DOMAIN loop \subseteq Nat \ {0} /\ DOMAIN Tail(loop) \subseteq Nat \ {0}
    BY HeadFacts
<1>2. \A i \in Queued(kind, s)' : i \in Nat \ {0} /\ i + 1 \in Queued(kind, s)
    BY <1>1 DEF Queued
<1>3. \A i \in Queued(kind, s) : i \in Nat \ {0} /\ (i # 1 => i - 1 \in Queued(kind, s)')
    BY <1>1 DEF Queued
<1>4. 1 \in Queued(kind, s) <=> Head(loop).kind = kind /\ Head(loop).slot = s
    BY <1>1 DEF Queued
<1>5. Head(loop).kind # kind \/ Head(loop).slot # s =>
          (Queued(kind, s)' = {} <=> Queued(kind, s) = {})
    BY <1>2, <1>3, <1>4
<1>6. ASSUME \A i, j \in Queued(kind, s) : i = j
      PROVE  /\ \A i, j \in Queued(kind, s)' : i = j
             /\ Head(loop).kind = kind /\ Head(loop).slot = s => Queued(kind, s)' = {}
  <2>1. \A i, j \in Queued(kind, s)' : i = j
      BY <1>2, <1>6
  <2>2. ASSUME 1 \in Queued(kind, s), NEW i \in Queued(kind, s)' PROVE FALSE
      BY <2>2, <1>2, <1>6
  <2> QED
      BY <2>1, <2>2, <1>4
<1> QED
    BY <1>2, <1>4, <1>5, <1>6

\* A new task is the last.
LEMMA QueueFacts ==
    ASSUME loop \in Seq(Tasks), NEW task \in Tasks, loop' = Append(loop, task)
    PROVE  \A kind \in Kinds, s \in Slots :
              /\ task.kind # kind \/ task.slot # s => Queued(kind, s)' = Queued(kind, s)
              /\ task.kind = kind /\ task.slot = s =>
                    Queued(kind, s)' = Queued(kind, s) \cup {Len(loop) + 1}
BY AppendFacts DEF Queued

\* The reports of a failure come at the end.
LEMMA ReportFacts ==
    ASSUME loop \in Seq(Tasks), NEW n \in 1 .. MaxReports, NEW t \in Slots,
           loop' = loop \o [i \in 1 .. n |-> Task("failure", t)]
    PROVE  /\ loop' \in Seq(Tasks)
           /\ Queued("failure", t)' # {}
           /\ \A s \in Slots : Queued("failure", s) # {} => Queued("failure", s)' # {}
           /\ \A s \in Slots : s # t /\ Queued("failure", s) = {} => Queued("failure", s)' = {}
           /\ \A kind \in Kinds \ {"failure"}, s \in Slots : Queued(kind, s)' = Queued(kind, s)
           /\ \A i \in DOMAIN loop' : /\ i \in DOMAIN loop => loop'[i] = loop[i]
                                      /\ i \notin DOMAIN loop => loop'[i] = Task("failure", t)
           /\ DOMAIN loop \subseteq DOMAIN loop'
<1>1. Task("failure", t) \in Tasks /\ n \in Nat /\ n > 0
    BY FaultsAssumption DEF Task, Tasks
<1>2. /\ loop' \in Seq(Tasks) /\ DOMAIN loop \subseteq DOMAIN loop'
      /\ \A i \in DOMAIN loop : loop'[i] = loop[i]
      /\ \A i \in DOMAIN loop' \ DOMAIN loop : loop'[i] = Task("failure", t)
      /\ Len(loop) + 1 \in DOMAIN loop' \ DOMAIN loop
    BY <1>1, ConcatFacts
<1>3. Task("failure", t).kind = "failure" /\ Task("failure", t).slot = t
    BY DEF Task
<1> QED
    BY <1>2, <1>3 DEF Queued

-----------------------------------------------------------------------------
(* Types.                                                                   *)

\* The task that runs.
LEMMA RunTypes ==
    ASSUME TypeOK, TypedTasks, loop # <<>>, loop' = Tail(loop), doing' = doing
    PROVE  /\ Head(loop) \in Tasks /\ Head(loop).slot \in Slots /\ loop' \in Seq(Tasks)
           /\ Head(loop).kind = "publish" => Head(loop).what \in Publishes
           /\ Head(loop).kind = "consumer" => Head(loop).what \in Topics
           /\ TypedTasks'
<1>1. /\ Head(loop) \in Tasks /\ Tail(loop) \in Seq(Tasks) /\ Head(loop) = loop[1]
      /\ 1 \in DOMAIN loop
      /\ \A i \in DOMAIN Tail(loop) : i + 1 \in DOMAIN loop /\ Tail(loop)[i] = loop[i + 1]
    BY HeadFacts DEF TypeOK
<1> QED
    BY <1>1 DEF TypedTasks, Tasks

\* A well-typed task is put at the end.
LEMMA QueueTypes ==
    ASSUME TypeOK, TypedTasks, NEW task \in Tasks, loop' = Append(loop, task),
           task.kind = "publish" => task.what \in Publishes,
           task.kind = "consumer" => task.what \in Topics,
           doing'.at = "publish" => doing'.what \in Publishes
    PROVE  loop' \in Seq(Tasks) /\ TypedTasks'
<1>1. loop \in Seq(Tasks)
    BY DEF TypeOK
<1>2. /\ loop' \in Seq(Tasks) /\ DOMAIN loop' = DOMAIN loop \cup {Len(loop) + 1}
      /\ \A i \in DOMAIN loop : loop'[i] = loop[i]
      /\ loop'[Len(loop) + 1] = task
    BY <1>1, AppendFacts
<1> QED
    BY <1>2 DEF TypedTasks

LEMMA TaskTypes ==
    ASSUME NEW s \in Slots
    PROVE  \A kind \in Kinds : Task(kind, s) \in Tasks /\ Task(kind, s).kind = kind
                                /\ Task(kind, s).slot = s
BY DEF Kinds, Task, Tasks

LEMMA MainTypes ==
    ASSUME TypeOK, TypedTasks, CountInv',
           StartBegin \/ InitializeSlots \/ StartSlot \/ StopBegin \/ StopSlot
    PROVE  TypeOK' /\ TypedTasks'
<1>0. NumSlots \in Nat \ {0} /\ Slots = 0 .. NumSlots - 1
    BY Numbers
<1>1. ASSUME NEW from, NEW kind \in Kinds, NEW to \in {"running", "stopped"},
             from \in {"start", "stop"}, ForEachSlot(from, kind, to)
      PROVE  TypeOK' /\ TypedTasks'
  <2>1. Task(kind, mi) \in Tasks /\ Task(kind, mi).kind = kind /\ loop' = Append(loop, Task(kind, mi))
        /\ doing' = doing
      BY <1>1, TaskTypes DEF ForEachSlot, TypeOK
  <2>2. loop' \in Seq(Tasks) /\ TypedTasks'
    <3>1. kind # "publish" /\ kind # "consumer"
        BY DEF Kinds
    <3>2. doing.at = "publish" => doing.what \in Publishes
        BY DEF TypedTasks
    <3> QED
        BY <2>1, <3>1, <3>2, QueueTypes
  <2>3. mi' \in Slots
    <3>1. mi + 1 \in Nat
        BY <1>0 DEF TypeOK
    <3> QED
        BY <1>1, <1>0, <3>1, Remainder DEF ForEachSlot
  <2>4. main' \in {"boot", "init", "start", "running", "stop", "stopped"}
      BY <1>1 DEF ForEachSlot, TypeOK
  <2>5. UNCHANGED <<slotFlags, channelVars, amqpVars, publishVars, subscriptions_,
                    subscribing, pendingPublishes, started_, slots_, timers, doing, loopLost>>
      BY <1>1 DEF ForEachSlot
  <2> QED
      BY <2>2, <2>3, <2>4, <2>5 DEF TypeOK, slotFlags, channelVars, amqpVars, publishVars
<1>2. CASE StartBegin \/ InitializeSlots \/ StopBegin
  <2>1. started_' \in BOOLEAN
      BY <1>2, Zenon DEF StartBegin, InitializeSlots, StopBegin, mainVars, TypeOK
  <2>2. /\ slots_' \in {{}, Slots} /\ mi' \in Slots
        /\ main' \in {"boot", "init", "start", "running", "stop", "stopped"}
      BY <1>2, <1>0 DEF StartBegin, InitializeSlots, StopBegin, mainVars, TypeOK
  <2>3. UNCHANGED <<slotFlags, channelVars, amqpVars, publishVars, subscriptions_,
                    subscribing, pendingPublishes, loop, timers, doing, loopLost>>
      BY <1>2 DEF StartBegin, InitializeSlots, StopBegin
  <2> QED
      BY <2>1, <2>2, <2>3 DEF TypeOK, TypedTasks, slotFlags, channelVars, amqpVars, publishVars
<1>3. CASE StartSlot \/ StopSlot
    BY <1>3, <1>1 DEF StartSlot, StopSlot, Kinds
<1> QED
    BY <1>2, <1>3

\* subscribe, publish, the timer, and the callbacks of AMQP-CPP.
LEMMA CallTypes ==
    ASSUME TypeOK, TypedTasks, CountInv',
           \/ \E t \in Topics : Subscribe(t) \/ SubscribeGoesOn(t)
           \/ \E p \in Publishes : Publish(p)
           \/ PublishQueue \/ ConnectSlot
           \/ \E s \in Slots : TimerFires(s) \/ AmqpReady(s) \/ AmqpFails(s) \/ ChannelFails(s)
    PROVE  TypeOK' /\ TypedTasks'
<1>0. NumSlots \in Nat \ {0} /\ Slots = 0 .. NumSlots - 1
    BY Numbers
<1>1. ASSUME NEW t \in Topics, Subscribe(t) \/ SubscribeGoesOn(t) PROVE TypeOK' /\ TypedTasks'
  <2> DEFINE task == [kind |-> "consumer", slot |-> SlotOf[t], what |-> t]
  <2>1. task \in Tasks /\ task.kind = "consumer" /\ task.what = t
      BY TopicsAssumption DEF Tasks
  <2>2. loop' = Append(loop, task) \/ loop' = loop
      BY <1>1 DEF Subscribe, SubscribeGoesOn, SubscribeChecks, SubscribeQueues
  <2> HIDE DEF task
  <2>3. loop' \in Seq(Tasks) /\ TypedTasks'
    <3>1. doing' = doing /\ (doing.at = "publish" => doing.what \in Publishes)
        BY <1>1 DEF Subscribe, SubscribeGoesOn, SubscribeChecks, SubscribeQueues, TypedTasks
    <3>2. CASE loop' = loop
        BY <3>1, <3>2 DEF TypeOK, TypedTasks
    <3>3. CASE loop' = Append(loop, task)
        BY <3>1, <3>3, <2>1, QueueTypes
    <3> QED
        BY <2>2, <3>2, <3>3
  <2>4. /\ subscriptions_' \in SUBSET Topics
        /\ subscribing' \in [Topics -> {"no", "pushed", "checked"}]
      BY <1>1 DEF Subscribe, SubscribeGoesOn, SubscribeChecks, SubscribeQueues, TypeOK
  <2> QED
      BY <1>1, <2>3, <2>4 DEF Subscribe, SubscribeGoesOn, SubscribeChecks, SubscribeQueues,
            TypeOK, slotFlags, channelVars, amqpVars, mainVars, publishVars
<1>2. ASSUME NEW p \in Publishes, Publish(p) PROVE TypeOK' /\ TypedTasks'
  <2>1. /\ doing' \in [at : {"idle", "publish", "reconnect"}, slot : Slots,
                       what : Publishes \cup {Nothing}]
        /\ doing'.at = "publish" => doing'.what \in Publishes
        /\ requested' \in SUBSET Publishes /\ rejected' \in SUBSET Publishes
      BY <1>2 DEF Publish, PublishRejected, PublishAccepted, TypeOK, TypedTasks, Idle
  <2>2. publishCursor_' \in Slots
    <3>1. publishCursor_ + 1 \in Nat
        BY <1>0 DEF TypeOK
    <3>2. (publishCursor_ + 1) % NumSlots \in Slots
        BY <3>1, <1>0, Remainder
    <3> QED
        BY <1>2, <3>2 DEF Publish, PublishRejected, PublishAccepted, TypeOK
  <2>3. UNCHANGED <<slotFlags, channelVars, amqpVars, mainVars, queuedPublishes_, published,
                    dropped, subscriptions_, subscribing, pendingPublishes, loop, timers,
                    loopLost>>
      BY <1>2 DEF Publish
  <2> QED
      BY <2>1, <2>2, <2>3 DEF TypeOK, TypedTasks, slotFlags, channelVars, amqpVars, mainVars
<1>3. CASE PublishQueue \/ ConnectSlot
  <2>1. PICK task \in Tasks : /\ loop' = Append(loop, task)
                              /\ task.kind = "publish" => task.what \in Publishes
                              /\ task.kind # "consumer"
    <3>1. CASE PublishQueue
      <4> DEFINE task == [kind |-> "publish", slot |-> doing.slot, what |-> doing.what]
      <4>1. task \in Tasks /\ task.kind = "publish" /\ task.what \in Publishes
            /\ loop' = Append(loop, task)
          BY <3>1 DEF PublishQueue, TypeOK, TypedTasks, Tasks
      <4> QED
          BY <4>1
    <3>2. CASE ConnectSlot
      <4>1. loop' = Append(loop, Task("connect", doing.slot)) /\ doing.slot \in Slots
          BY <3>2 DEF ConnectSlot, TypeOK
      <4>2. /\ Task("connect", doing.slot) \in Tasks
            /\ Task("connect", doing.slot).kind = "connect"
          BY <4>1, TaskTypes DEF Kinds
      <4> QED
          BY <4>1, <4>2
    <3> QED
        BY <1>3, <3>1, <3>2
  <2>2. doing' = Idle /\ Idle \in [at : {"idle", "publish", "reconnect"}, slot : Slots,
                                   what : Publishes \cup {Nothing}] /\ Idle.at = "idle"
      BY <1>3, <1>0 DEF PublishQueue, ConnectSlot, Idle
  <2>3. loop' \in Seq(Tasks) /\ TypedTasks'
      BY <2>1, <2>2, QueueTypes
  <2> QED
      BY <1>3, <2>2, <2>3 DEF PublishQueue, ConnectSlot, TypeOK, slotFlags, channelVars,
                             amqpVars, mainVars, publishVars
<1>4. ASSUME NEW s \in Slots, TimerFires(s) PROVE TypeOK' /\ TypedTasks'
  <2>1. /\ doing' \in [at : {"idle", "publish", "reconnect"}, slot : Slots,
                       what : Publishes \cup {Nothing}]
        /\ doing'.at # "publish"
      BY <1>4, <1>0 DEF TimerFires, Idle
  <2>2. timers' \in [Slots -> Nat]
      BY <1>4 DEF TimerFires, TypeOK
  <2> QED
      BY <1>4, <2>1, <2>2 DEF TimerFires, TypeOK, TypedTasks, slotFlags, channelVars, amqpVars,
                             mainVars, publishVars
<1>5. ASSUME NEW s \in Slots, AmqpReady(s) PROVE TypeOK' /\ TypedTasks'
  <2>1. Task("ready", s) \in Tasks /\ Task("ready", s).kind = "ready"
      BY TaskTypes DEF Kinds
  <2>2. loop' = Append(loop, Task("ready", s)) /\ doing' = doing
      BY <1>5, <2>1 DEF AmqpReady, Callback, TypeOK
  <2>3. loop' \in Seq(Tasks) /\ TypedTasks'
    <3>1. doing.at = "publish" => doing.what \in Publishes
        BY DEF TypedTasks
    <3> QED
        BY <2>1, <2>2, <3>1, QueueTypes
  <2>4. link' \in [Slots -> {"none", "opening", "open", "dead"}]
      BY <1>5 DEF AmqpReady, TypeOK
  <2> QED
      BY <1>5, <2>3, <2>4 DEF AmqpReady, Callback, TypeOK, slotFlags, channelVars, mainVars,
                             publishVars
<1>6. ASSUME NEW s \in Slots, AmqpFails(s) \/ ChannelFails(s) PROVE TypeOK' /\ TypedTasks'
  <2>1. PICK n \in 1 .. MaxReports : loop' = loop \o [i \in 1 .. n |-> Task("failure", s)]
      BY <1>6 DEF AmqpFails, ChannelFails, Callback
  <2>2. loop' \in Seq(Tasks)
      BY <2>1, ReportFacts DEF TypeOK
  <2>3. TypedTasks'
    <3>1. \A i \in DOMAIN loop' : /\ i \in DOMAIN loop => loop'[i] = loop[i]
                                  /\ i \notin DOMAIN loop => loop'[i] = Task("failure", s)
        BY <2>1, ReportFacts DEF TypeOK
    <3>2. Task("failure", s).kind = "failure"
        BY DEF Task
    <3>3. doing' = doing
        BY <1>6 DEF AmqpFails, ChannelFails, Callback
    <3> QED
        BY <3>1, <3>2, <3>3 DEF TypedTasks
  <2>4. /\ link' \in [Slots -> {"none", "opening", "open", "dead"}]
        /\ faults' \in Nat
    <3>1. link' = link \/ link' = [link EXCEPT ![s] = "dead"]
        BY <1>6 DEF AmqpFails, ChannelFails
    <3>2. faults' = faults + 1
        BY <1>6 DEF AmqpFails, ChannelFails
    <3>3. link \in [Slots -> {"none", "opening", "open", "dead"}] /\ faults \in Nat
        BY DEF TypeOK
    <3> QED
        BY <3>1, <3>2, <3>3
  <2>5. broken' \in [Slots -> SUBSET Channels]
    <3>1. broken \in [Slots -> SUBSET Channels] /\ \A c \in publisherChannels[s] : c \in Channels
        BY DEF TypeOK
    <3>2. \/ broken' = broken
          \/ \E c \in publisherChannels[s] : broken' = [broken EXCEPT ![s] = @ \cup {c}]
        BY <1>6 DEF AmqpFails, ChannelFails
    <3> QED
        BY <3>1, <3>2
  <2>6. UNCHANGED <<slotFlags, channelVars, mainVars, publishVars, subscriptions_,
                    subscribing, pendingPublishes, timers, doing, loopLost>>
      BY <1>6 DEF AmqpFails, ChannelFails, Callback
  <2> QED
      BY <2>2, <2>3, <2>4, <2>5, <2>6 DEF TypeOK, slotFlags, channelVars, mainVars, publishVars
<1> QED
    BY <1>1, <1>2, <1>3, <1>4, <1>5, <1>6

\* The tasks.
LEMMA TaskStepTypes ==
    ASSUME TypeOK, TypedTasks, CountInv',
           RunConnect \/ RunReady \/ RunFailure \/ RunPublish \/ RunStop \/ RunConsumer
    PROVE  TypeOK' /\ TypedTasks'
<1> DEFINE s == Head(loop).slot
<1> DEFINE p == Head(loop).what
<1>1. /\ loop # <<>> /\ loop' = Tail(loop)
      /\ UNCHANGED <<mainVars, subscriptions_, subscribing, doing>>
    BY DEF RunConnect, RunReady, RunFailure, RunPublish, RunStop, RunConsumer, Run
<1>2. /\ s \in Slots /\ loop' \in Seq(Tasks) /\ TypedTasks'
      /\ Head(loop).kind = "publish" => p \in Publishes
      /\ Head(loop).kind = "consumer" => p \in Topics
    BY <1>1, RunTypes
<1>3. /\ NumChannels \in Nat \ {0} /\ Channels = 0 .. NumChannels - 1
      /\ \A n \in Nat : n % NumChannels \in Channels
    BY ChannelsAssumption, Remainder DEF Channels
<1>c. \A n \in Channels, k \in Nat : n + k \in Nat /\ n + 1 \in Nat
    BY <1>3
<1>4. queuedPublishes_' \in Nat
    BY FS_CardinalityType DEF CountInv
<1>5. CASE RunConnect
  <2>1. /\ ready' \in [Slots -> BOOLEAN] /\ reconnectScheduled' \in [Slots -> BOOLEAN]
        /\ publisherChannels' \in [Slots -> {{}, Channels}]
        /\ consumerChannels' \in [Slots -> SUBSET Topics]
        /\ link' \in [Slots -> {"none", "opening", "open", "dead"}]
        /\ broken' \in [Slots -> SUBSET Channels]
      BY <1>2, <1>5 DEF RunConnect, TypeOK
  <2>2. UNCHANGED <<reconnectDelay, nextPublisherChannel, faults, publishVars, pendingPublishes,
                    timers, loopLost>>
      BY <1>5 DEF RunConnect
  <2> QED
      BY <1>1, <1>2, <2>1, <2>2 DEF TypeOK, mainVars, publishVars
<1>6. CASE RunReady
  <2>1. /\ ready' \in [Slots -> BOOLEAN]
        /\ reconnectDelay' \in [Slots -> 1 .. MaxDelay]
    <3>1. /\ ready' = [ready EXCEPT ![s] = TRUE]
          /\ reconnectDelay' = [reconnectDelay EXCEPT ![s] = 1]
        BY <1>6 DEF RunReady, RebuildAndFlush, RebuildOnNothing
    <3>2. ready \in [Slots -> BOOLEAN] /\ reconnectDelay \in [Slots -> 1 .. MaxDelay]
        BY DEF TypeOK
    <3> QED
        BY <1>2, <3>1, <3>2, DelayAssumption
  <2>2. loopLost' \in BOOLEAN
      BY <1>6, Zenon DEF RunReady, RebuildAndFlush, RebuildOnNothing, TypeOK
  <2>3. CASE RebuildAndFlush(s)
    <3>1. /\ publisherChannels' \in [Slots -> {{}, Channels}]
          /\ consumerChannels' \in [Slots -> SUBSET Topics]
          /\ broken' \in [Slots -> SUBSET Channels]
      <4>1. {t \in subscriptions_ : SlotOf[t] = s} \in SUBSET Topics
          BY DEF TypeOK
      <4> HIDE DEF s
      <4> QED
          BY <1>2, <2>3, <4>1 DEF RebuildAndFlush, TypeOK
    <3>2. pendingPublishes' \in [Slots -> Seq(Publishes)]
        BY <1>2, <2>3 DEF RebuildAndFlush, TypeOK
    <3>3. nextPublisherChannel' \in [Slots -> Channels]
      <4>1. nextPublisherChannel[s] + Len(pendingPublishes[s]) \in Nat
        <5>1. nextPublisherChannel[s] \in Channels /\ pendingPublishes[s] \in Seq(Publishes)
            BY <1>2 DEF TypeOK
        <5>2. Len(pendingPublishes[s]) \in Nat
            BY <5>1
        <5> QED
            BY <5>1, <5>2, <1>c
      <4>2. (nextPublisherChannel[s] + Len(pendingPublishes[s])) % NumChannels \in Channels
          BY <4>1, <1>3
      <4> QED
          BY <1>2, <2>3, <4>2 DEF RebuildAndFlush, TypeOK
    <3>4. published' \in [Publishes -> Nat]
      <4>1. ASSUME NEW q \in Publishes
            PROVE  Cardinality({i \in DOMAIN pendingPublishes[s] : pendingPublishes[s][i] = q}) \in Nat
        <5>1. DOMAIN pendingPublishes[s] = 1 .. Len(pendingPublishes[s])
              /\ Len(pendingPublishes[s]) \in Nat
            BY <1>2 DEF TypeOK
        <5>2. IsFiniteSet(DOMAIN pendingPublishes[s])
            BY <5>1, FS_Interval
        <5>3. {i \in DOMAIN pendingPublishes[s] : pendingPublishes[s][i] = q}
                  \in SUBSET DOMAIN pendingPublishes[s]
            OBVIOUS
        <5>4. IsFiniteSet({i \in DOMAIN pendingPublishes[s] : pendingPublishes[s][i] = q})
            BY <5>2, <5>3, FS_Subset
        <5> QED
            BY <5>4, FS_CardinalityType
      <4>2. published \in [Publishes -> Nat]
          BY DEF TypeOK
      <4>3. published' = [q \in Publishes |-> published[q] +
                Cardinality({i \in DOMAIN pendingPublishes[s] : pendingPublishes[s][i] = q})]
          BY <2>3 DEF RebuildAndFlush
      <4> QED
          BY <4>1, <4>2, <4>3
    <3>5. UNCHANGED <<reconnectScheduled, link, faults, publishCursor_, requested, rejected,
                      dropped, timers>>
        BY <1>6 DEF RunReady
    <3> QED
        BY <1>1, <1>2, <1>4, <2>1, <2>2, <3>1, <3>2, <3>3, <3>4, <3>5 DEF TypeOK, mainVars
  <2>4. CASE RebuildOnNothing(s)
      BY <1>1, <1>2, <1>4, <1>6, <2>1, <2>2, <2>4
         DEF RunReady, RebuildOnNothing, TypeOK, mainVars, channelVars
  <2> QED
      BY <1>6, <2>3, <2>4 DEF RunReady
<1>7. CASE RunFailure
  <2>1. /\ ready' \in [Slots -> BOOLEAN]
        /\ publisherChannels' \in [Slots -> {{}, Channels}]
        /\ consumerChannels' \in [Slots -> SUBSET Topics]
      BY <1>2, <1>7 DEF RunFailure, TypeOK
  <2>2. /\ reconnectScheduled' \in [Slots -> BOOLEAN]
        /\ reconnectDelay' \in [Slots -> 1 .. MaxDelay]
        /\ timers' \in [Slots -> Nat]
    <3>1. CASE UNCHANGED <<reconnectScheduled, reconnectDelay, timers>>
        BY <3>1 DEF TypeOK
    <3>2. CASE /\ reconnectScheduled' = [reconnectScheduled EXCEPT ![s] = TRUE]
               /\ reconnectDelay' = [reconnectDelay EXCEPT
                                        ![s] = IF 2 * @ > MaxDelay THEN MaxDelay ELSE 2 * @]
               /\ timers' = [timers EXCEPT ![s] = @ + 1]
      <4>1. /\ reconnectScheduled \in [Slots -> BOOLEAN] /\ timers \in [Slots -> Nat]
            /\ reconnectDelay \in [Slots -> 1 .. MaxDelay]
          BY DEF TypeOK
      <4>2. reconnectScheduled' \in [Slots -> BOOLEAN] /\ timers' \in [Slots -> Nat]
          BY <4>1, <3>2, <1>2
      <4>3. reconnectDelay' \in [Slots -> 1 .. MaxDelay]
          BY <4>1, <3>2, <1>2, DelayAssumption
      <4> QED
          BY <4>2, <4>3
    <3> QED
        BY <1>7, <3>1, <3>2 DEF RunFailure, ScheduleReconnect
  <2>3. UNCHANGED <<nextPublisherChannel, amqpVars, publishVars, pendingPublishes, loopLost>>
      BY <1>7 DEF RunFailure
  <2> QED
      BY <1>1, <1>2, <2>1, <2>2, <2>3 DEF TypeOK, mainVars, amqpVars, publishVars
<1>8. CASE RunPublish
  <2>1. p \in Publishes /\ pendingPublishes[s] \in Seq(Publishes)
      BY <1>2, <1>8 DEF RunPublish, Run, TypeOK
  <2>2. Append(pendingPublishes[s], p) \in Seq(Publishes)
        /\ <<p>> \o pendingPublishes[s] \in Seq(Publishes)
      BY <2>1, AppendFacts, PrependFacts
  <2>3. pendingPublishes' \in [Slots -> Seq(Publishes)]
      BY <1>2, <1>8, <2>2 DEF RunPublish, PublishWaits, PublishOnChannel, TypeOK
  <2>4. nextPublisherChannel' \in [Slots -> Channels]
    <3>1. (nextPublisherChannel[s] + 1) % NumChannels \in Channels
      <4>1. nextPublisherChannel[s] \in Channels
          BY <1>2 DEF TypeOK
      <4>2. nextPublisherChannel[s] + 1 \in Nat
          BY <4>1, <1>c
      <4> QED
          BY <4>2, <1>3
    <3> QED
        BY <1>2, <1>8, <3>1 DEF RunPublish, PublishWaits, PublishOnChannel, TypeOK
  <2>5. published' \in [Publishes -> Nat]
    <3>1. published' = published \/ published' = [published EXCEPT ![p] = @ + 1]
        BY <1>8 DEF RunPublish, PublishWaits, PublishOnChannel
    <3>2. published \in [Publishes -> Nat]
        BY DEF TypeOK
    <3> QED
        BY <2>1, <3>1, <3>2
  <2>6. UNCHANGED <<slotFlags, publisherChannels, consumerChannels, amqpVars, publishCursor_,
                    requested, rejected, dropped, timers, loopLost>>
      BY <1>8 DEF RunPublish
  <2> QED
      BY <1>1, <1>2, <1>4, <2>3, <2>4, <2>5, <2>6 DEF TypeOK, mainVars, slotFlags, amqpVars
<1>9. CASE RunStop
  <2>1. /\ ready' \in [Slots -> BOOLEAN] /\ reconnectScheduled' \in [Slots -> BOOLEAN]
        /\ publisherChannels' \in [Slots -> {{}, Channels}]
        /\ consumerChannels' \in [Slots -> SUBSET Topics]
        /\ link' \in [Slots -> {"none", "opening", "open", "dead"}]
      BY <1>2, <1>9 DEF RunStop, TypeOK
  <2>4. pendingPublishes' \in [Slots -> Seq(Publishes)]
      BY <1>2, <1>9 DEF RunStop, TypeOK
  <2>2. dropped' \in SUBSET Publishes
    <3>1. \A i \in DOMAIN pendingPublishes[s] : pendingPublishes[s][i] \in Publishes
        BY <1>2 DEF TypeOK
    <3> QED
        BY <1>9, <3>1 DEF RunStop, TypeOK
  <2>3. UNCHANGED <<reconnectDelay, nextPublisherChannel, broken, faults, publishCursor_,
                    requested, rejected, published, timers, loopLost>>
      BY <1>9 DEF RunStop
  <2> QED
      BY <1>1, <1>2, <1>4, <2>1, <2>2, <2>3, <2>4 DEF TypeOK, mainVars
<1>10. CASE RunConsumer
  <2>1. consumerChannels' \in [Slots -> SUBSET Topics]
    <3>1. p \in Topics /\ consumerChannels[s] \in SUBSET Topics
        BY <1>2, <1>10 DEF RunConsumer, Run, TypeOK
    <3> QED
        BY <1>2, <1>10, <3>1 DEF RunConsumer, TypeOK
  <2>2. loopLost' \in BOOLEAN
      BY <1>10, Zenon DEF RunConsumer
  <2>3. UNCHANGED <<slotFlags, publisherChannels, nextPublisherChannel, amqpVars, publishVars,
                    pendingPublishes, timers>>
      BY <1>10 DEF RunConsumer
  <2> QED
      BY <1>1, <1>2, <2>1, <2>2, <2>3 DEF TypeOK, mainVars, slotFlags, amqpVars, publishVars
<1> QED
    BY <1>5, <1>6, <1>7, <1>8, <1>9, <1>10

-----------------------------------------------------------------------------
(* The number of publishes that wait.                                       *)

\* One more publish waits in a deque.
LEMMA OneWaits ==
    ASSUME pendingPublishes \in [Slots -> Seq(Publishes)], CountInv,
           NEW s \in Slots, NEW q \in Seq(Publishes), Len(q) = Len(pendingPublishes[s]) + 1,
           pendingPublishes' = [pendingPublishes EXCEPT ![s] = q],
           queuedPublishes_' = queuedPublishes_ + 1
    PROVE  CountInv'
<1> DEFINE n == Len(pendingPublishes[s])
<1>1. /\ n \in Nat /\ DOMAIN pendingPublishes[s] = 1 .. n /\ DOMAIN q = 1 .. n + 1
      /\ 1 .. n + 1 = (1 .. n) \cup {n + 1} /\ n + 1 \notin 1 .. n
    OBVIOUS
<1>2. \A t \in Slots : DOMAIN pendingPublishes'[t] =
          DOMAIN pendingPublishes[t] \cup (IF t = s THEN {n + 1} ELSE {})
    BY <1>1
<1> HIDE DEF n
<1>3. Waiting' = Waiting \cup {<<s, n + 1>>}
    BY <1>2 DEF Waiting
<1>4. <<s, n + 1>> \notin Waiting
    BY <1>1 DEF Waiting
<1> QED
    BY <1>3, <1>4, FS_AddElement DEF CountInv

\* A deque is emptied.
LEMMA NoneWaits ==
    ASSUME pendingPublishes \in [Slots -> Seq(Publishes)], CountInv,
           NEW s \in Slots, pendingPublishes' = [pendingPublishes EXCEPT ![s] = <<>>],
           queuedPublishes_' = queuedPublishes_ - Len(pendingPublishes[s])
    PROVE  CountInv'
<1> DEFINE n == Len(pendingPublishes[s])
<1> DEFINE mine == {s} \X (1 .. n)
<1>1. n \in Nat /\ DOMAIN pendingPublishes[s] = 1 .. n /\ DOMAIN pendingPublishes'[s] = {}
      /\ \A t \in Slots \ {s} : DOMAIN pendingPublishes'[t] = DOMAIN pendingPublishes[t]
    OBVIOUS
<1>2. IsFiniteSet(mine) /\ Cardinality(mine) = n
  <2>1. IsFiniteSet(1 .. n) /\ Cardinality(1 .. n) = n
    <3>1. n \in Nat
        BY <1>1
    <3> HIDE DEF n
    <3>2. /\ IsFiniteSet(1 .. n)
          /\ Cardinality(1 .. n) = IF 1 > n THEN 0 ELSE n - 1 + 1
        BY <3>1, FS_Interval
    <3> QED
        BY <3>1, <3>2
  <2>2. IsFiniteSet({s}) /\ Cardinality({s}) = 1
      BY FS_Singleton
  <2>3. IsFiniteSet(mine) /\ Cardinality(mine) = Cardinality({s}) * Cardinality(1 .. n)
      BY <2>1, <2>2, FS_Product
  <2> QED
      BY <1>1, <2>1, <2>2, <2>3
<1>3. Waiting' = Waiting \ mine /\ Waiting \cap mine = mine
  <2>1. \A t \in Slots : DOMAIN pendingPublishes'[t] =
            DOMAIN pendingPublishes[t] \ (IF t = s THEN 1 .. n ELSE {})
      BY <1>1
  <2> HIDE DEF n
  <2> QED
      BY <2>1, <1>1 DEF Waiting
<1>4. IsFiniteSet(Waiting \ mine)
      /\ Cardinality(Waiting \ mine) = Cardinality(Waiting) - Cardinality(Waiting \cap mine)
    BY FS_Difference DEF CountInv
<1> QED
    BY <1>2, <1>3, <1>4 DEF CountInv

LEMMA CountStep ==
    ASSUME TypeOK, TypedTasks, CountInv, Next
    PROVE  CountInv'
<1>0. pendingPublishes \in [Slots -> Seq(Publishes)]
    BY DEF TypeOK
<1>1. CASE UNCHANGED <<pendingPublishes, queuedPublishes_>>
    BY <1>1 DEF CountInv, Waiting
<1>2. CASE RunPublish \/ RunStop \/ RunReady
  <2> DEFINE s == Head(loop).slot
  <2> DEFINE p == Head(loop).what
  <2>1. loop # <<>> /\ loop' = Tail(loop) /\ doing' = doing
      BY <1>2 DEF RunPublish, RunStop, RunReady, Run
  <2>2. s \in Slots /\ (RunPublish => p \in Publishes) /\ pendingPublishes[s] \in Seq(Publishes)
      BY <2>1, <1>0, RunTypes DEF RunPublish, Run
  <2>3. CASE RunPublish
    <3>1. /\ Append(pendingPublishes[s], p) \in Seq(Publishes)
          /\ Len(Append(pendingPublishes[s], p)) = Len(pendingPublishes[s]) + 1
          /\ <<p>> \o pendingPublishes[s] \in Seq(Publishes)
          /\ Len(<<p>> \o pendingPublishes[s]) = Len(pendingPublishes[s]) + 1
        BY <2>2, <2>3, PrependFacts
    <3>2. \/ UNCHANGED <<pendingPublishes, queuedPublishes_>>
          \/ /\ \/ pendingPublishes' = [pendingPublishes EXCEPT ![s] = Append(@, p)]
                \/ pendingPublishes' = [pendingPublishes EXCEPT ![s] = <<p>> \o @]
             /\ queuedPublishes_' = queuedPublishes_ + 1
        BY <2>3 DEF RunPublish, PublishWaits, PublishOnChannel
    <3> QED
        BY <1>0, <1>1, <2>2, <3>1, <3>2, OneWaits
  <2>4. CASE RunStop \/ RunReady
    <3>1. \/ UNCHANGED <<pendingPublishes, queuedPublishes_>>
          \/ /\ pendingPublishes' = [pendingPublishes EXCEPT ![s] = <<>>]
             /\ queuedPublishes_' = queuedPublishes_ - Len(pendingPublishes[s])
        BY <2>4 DEF RunStop, RunReady, RebuildAndFlush, RebuildOnNothing
    <3> QED
        BY <1>0, <1>1, <2>2, <3>1, NoneWaits
  <2> QED
      BY <1>2, <2>3, <2>4
<1>3. CASE ~(RunPublish \/ RunStop \/ RunReady)
  <2>1. UNCHANGED <<pendingPublishes, queuedPublishes_>>
      BY <1>3 DEF Next, MainSteps, LoopSteps, StartBegin, InitializeSlots, StartSlot,
            StopSlot, ForEachSlot, StopBegin, PublishQueue, ConnectSlot, RunConnect,
            RunFailure, RunConsumer, Subscribe, SubscribeGoesOn, SubscribeChecks,
            SubscribeQueues, Publish, TimerFires, AmqpReady, AmqpFails, ChannelFails,
            Callback, publishVars
  <2> QED
      BY <1>1, <2>1
<1> QED
    BY <1>2, <1>3

LEMMA TypeStep ==
    ASSUME TypeOK, TypedTasks, CountInv, Next
    PROVE  TypeOK' /\ TypedTasks' /\ CountInv'
BY CountStep, MainTypes, CallTypes, TaskStepTypes DEF Next, MainSteps, LoopSteps

-----------------------------------------------------------------------------
(* What each action does to the tasks in the loop.                          *)

RunsTask == RunConnect \/ RunReady \/ RunFailure \/ RunPublish \/ RunStop \/ RunConsumer

\* A task runs between two others, and only its slot may lose it.
LEMMA TaskRuns ==
    ASSUME TypeOK, TypedTasks, RunsTask
    PROVE  /\ ~loopLost /\ doing = Idle /\ doing' = Idle /\ Head(loop).slot \in Slots
           /\ UNCHANGED <<started_, slots_, main, mi>>
           /\ \A s \in Slots : ~Calling(s) /\ ~Calling(s)'
           /\ \A kind \in Kinds, s \in Slots :
                 /\ Head(loop).kind # kind \/ Head(loop).slot # s =>
                       (Queued(kind, s)' = {} <=> Queued(kind, s) = {})
                 /\ Queued(kind, s) = {} => Queued(kind, s)' = {}
                 /\ Head(loop).kind = kind /\ Head(loop).slot = s => Queued(kind, s) # {}
                 /\ (\A i, j \in Queued(kind, s) : i = j) =>
                       /\ \A i, j \in Queued(kind, s)' : i = j
                       /\ Head(loop).kind = kind /\ Head(loop).slot = s => Queued(kind, s)' = {}
<1>1. /\ loop # <<>> /\ loop' = Tail(loop) /\ ~loopLost /\ doing = Idle /\ doing' = doing
      /\ UNCHANGED mainVars
    BY DEF RunsTask, RunConnect, RunReady, RunFailure, RunPublish, RunStop, RunConsumer, Run
<1>2. Head(loop).slot \in Slots /\ loop \in Seq(Tasks)
    BY <1>1, RunTypes DEF TypeOK
<1>3. UNCHANGED <<started_, slots_, main, mi>>
    BY <1>1 DEF mainVars
<1>4. \A s \in Slots : ~Calling(s) /\ ~Calling(s)'
    BY <1>1 DEF Idle, Calling
<1> QED
    BY <1>1, <1>2, <1>3, <1>4, RunFacts

\* The other actions take no task out of the loop.
LEMMA OthersKeep ==
    ASSUME TypeOK, TypedTasks, Next, ~RunsTask
    PROVE  \A kind \in Kinds, s \in Slots : Queued(kind, s) # {} => Queued(kind, s)' # {}
<1>0. loop \in Seq(Tasks)
    BY DEF TypeOK
<1>1. ASSUME NEW task \in Tasks, loop' = Append(loop, task)
      PROVE  \A kind \in Kinds, s \in Slots : Queued(kind, s) # {} => Queued(kind, s)' # {}
    BY <1>0, <1>1, QueueFacts
<1>2. CASE UNCHANGED loop
    BY <1>2 DEF Queued
<1>3. CASE StartSlot \/ StopSlot
  <2>1. PICK kind \in Kinds : loop' = Append(loop, Task(kind, mi))
      BY <1>3 DEF StartSlot, StopSlot, ForEachSlot, Kinds
  <2>2. Task(kind, mi) \in Tasks
      BY TaskTypes DEF TypeOK
  <2> QED
      BY <1>1, <2>1, <2>2
<1>4. CASE PublishQueue \/ ConnectSlot \/ \E t \in Topics : Subscribe(t) \/ SubscribeGoesOn(t)
  <2>1. CASE PublishQueue
    <3>1. [kind |-> "publish", slot |-> doing.slot, what |-> doing.what] \in Tasks
        BY <2>1 DEF TypeOK, Tasks
    <3> QED
        BY <1>1, <2>1, <3>1 DEF PublishQueue
  <2>2. CASE ConnectSlot
    <3>1. Task("connect", doing.slot) \in Tasks
        BY TaskTypes DEF TypeOK, Kinds
    <3> QED
        BY <1>1, <2>2, <3>1 DEF ConnectSlot
  <2>3. ASSUME NEW t \in Topics, Subscribe(t) \/ SubscribeGoesOn(t)
        PROVE  \A kind \in Kinds, s \in Slots : Queued(kind, s) # {} => Queued(kind, s)' # {}
    <3>1. [kind |-> "consumer", slot |-> SlotOf[t], what |-> t] \in Tasks
        BY TopicsAssumption DEF Tasks
    <3> QED
        BY <1>1, <1>2, <2>3, <3>1 DEF Subscribe, SubscribeGoesOn, SubscribeChecks,
              SubscribeQueues
  <2> QED
      BY <1>4, <2>1, <2>2, <2>3
<1>5. ASSUME NEW t \in Slots, AmqpReady(t) \/ AmqpFails(t) \/ ChannelFails(t)
      PROVE  \A kind \in Kinds, s \in Slots : Queued(kind, s) # {} => Queued(kind, s)' # {}
  <2>1. CASE AmqpReady(t)
    <3>1. Task("ready", t) \in Tasks
        BY TaskTypes DEF Kinds
    <3>2. loop' = Append(loop, Task("ready", t))
        BY <2>1, <1>0, <3>1 DEF AmqpReady, Callback
    <3> QED
        BY <1>1, <3>1, <3>2
  <2>2. CASE AmqpFails(t) \/ ChannelFails(t)
    <3>1. PICK n \in 1 .. MaxReports : loop' = loop \o [i \in 1 .. n |-> Task("failure", t)]
        BY <2>2 DEF AmqpFails, ChannelFails, Callback
    <3>2. /\ \A s \in Slots : Queued("failure", s) # {} => Queued("failure", s)' # {}
          /\ \A kind \in Kinds \ {"failure"}, s \in Slots : Queued(kind, s)' = Queued(kind, s)
        BY <1>0, <3>1, ReportFacts
    <3> QED
        BY <3>2
  <2> QED
      BY <1>5, <2>1, <2>2
<1>6. CASE \/ StartBegin \/ InitializeSlots \/ StopBegin
           \/ \E p \in Publishes : Publish(p)
           \/ \E s \in Slots : TimerFires(s)
    BY <1>2, <1>6 DEF StartBegin, InitializeSlots, StopBegin, Publish, TimerFires
<1> QED
    BY <1>3, <1>4, <1>5, <1>6 DEF Next, MainSteps, LoopSteps, RunsTask

\* Who queues which kind of task, and who sets what of a slot.
LEMMA OthersQueue ==
    ASSUME TypeOK, TypedTasks, Next, ~RunsTask
    PROVE  /\ ~(StartSlot \/ ConnectSlot) =>
                 \A s \in Slots : Queued("connect", s)' = Queued("connect", s)
           /\ ~StopSlot => \A s \in Slots : Queued("stop", s)' = Queued("stop", s)
           /\ \A s \in Slots : ~AmqpReady(s) => Queued("ready", s)' = Queued("ready", s)
           /\ \A s \in Slots : Queued("failure", s) = {} /\ ~AmqpFails(s) /\ ~ChannelFails(s) =>
                 Queued("failure", s)' = {}
           /\ UNCHANGED <<slotFlags, publisherChannels, loopLost>>
           /\ \A s \in Slots : ~AmqpReady(s) /\ ~AmqpFails(s) => link'[s] = link[s]
           /\ \A s \in Slots : ~ChannelFails(s) => broken'[s] = broken[s]
<1> DEFINE Goal ==
      /\ ~(StartSlot \/ ConnectSlot) =>
            \A s \in Slots : Queued("connect", s)' = Queued("connect", s)
      /\ ~StopSlot => \A s \in Slots : Queued("stop", s)' = Queued("stop", s)
      /\ \A s \in Slots : ~AmqpReady(s) => Queued("ready", s)' = Queued("ready", s)
      /\ \A s \in Slots : Queued("failure", s) = {} /\ ~AmqpFails(s) /\ ~ChannelFails(s) =>
            Queued("failure", s)' = {}
<1>0. loop \in Seq(Tasks) /\ Kinds = {"connect", "ready", "failure", "stop"}
    BY DEF TypeOK, Kinds
<1>1. UNCHANGED <<slotFlags, publisherChannels, loopLost>>
    BY DEF Next, MainSteps, LoopSteps, RunsTask, StartBegin, InitializeSlots, StartSlot,
           StopSlot, ForEachSlot, StopBegin, Subscribe, SubscribeGoesOn, SubscribeChecks,
           SubscribeQueues, Publish, PublishQueue, ConnectSlot, TimerFires, AmqpReady,
           AmqpFails, ChannelFails, Callback, channelVars
<1>2. /\ \A s \in Slots : ~AmqpReady(s) /\ ~AmqpFails(s) => link'[s] = link[s]
      /\ \A s \in Slots : ~ChannelFails(s) => broken'[s] = broken[s]
  <2>1. CASE \E s \in Slots : AmqpReady(s) \/ AmqpFails(s) \/ ChannelFails(s)
    <3>1. PICK t \in Slots : AmqpReady(t) \/ AmqpFails(t) \/ ChannelFails(t)
        BY <2>1
    <3>2. /\ AmqpReady(t) \/ AmqpFails(t) => \A s \in Slots \ {t} : link'[s] = link[s]
          /\ AmqpReady(t) \/ AmqpFails(t) => broken' = broken
          /\ ChannelFails(t) => link' = link /\ \A s \in Slots \ {t} : broken'[s] = broken[s]
        BY DEF AmqpReady, AmqpFails, ChannelFails, TypeOK
    <3>3. ASSUME NEW s \in Slots, ~AmqpReady(s), ~AmqpFails(s) PROVE link'[s] = link[s]
        BY <3>1, <3>2, <3>3
    <3>4. ASSUME NEW s \in Slots, ~ChannelFails(s) PROVE broken'[s] = broken[s]
        BY <3>1, <3>2, <3>4
    <3> QED
        BY <3>3, <3>4
  <2>2. CASE ~\E s \in Slots : AmqpReady(s) \/ AmqpFails(s) \/ ChannelFails(s)
    <3>1. UNCHANGED amqpVars
        BY <2>2 DEF Next, MainSteps, LoopSteps, RunsTask, StartBegin, InitializeSlots,
              StartSlot, StopSlot, ForEachSlot, StopBegin, Subscribe, SubscribeGoesOn,
              SubscribeChecks, SubscribeQueues, Publish, PublishQueue, ConnectSlot,
              TimerFires
    <3> QED
        BY <3>1 DEF amqpVars
  <2> QED
      BY <2>1, <2>2
<1>3. CASE UNCHANGED loop
  <2>1. \A kind, s : Queued(kind, s)' = Queued(kind, s)
      BY <1>3 DEF Queued
  <2> QED
      BY <1>1, <1>2, <2>1
<1>4. ASSUME NEW task \in Tasks, loop' = Append(loop, task),
             task.kind = "connect" => StartSlot \/ ConnectSlot, task.kind = "stop" => StopSlot,
             task.kind = "ready" => AmqpReady(task.slot), task.kind # "failure"
      PROVE  Goal
  <2>1. \A kind \in Kinds, s \in Slots : task.kind # kind \/ task.slot # s =>
            Queued(kind, s)' = Queued(kind, s)
      BY <1>0, <1>4, QueueFacts
  <2>2. /\ task.kind # "connect" => \A s \in Slots : Queued("connect", s)' = Queued("connect", s)
        /\ task.kind # "stop" => \A s \in Slots : Queued("stop", s)' = Queued("stop", s)
        /\ \A s \in Slots : task.kind # "ready" \/ task.slot # s =>
              Queued("ready", s)' = Queued("ready", s)
        /\ task.kind # "failure" => \A s \in Slots : Queued("failure", s)' = Queued("failure", s)
      BY <1>0, <2>1
  <2>4. \A s \in Slots : Queued("failure", s) = {} => Queued("failure", s)' = {}
      BY <1>4, <2>2
  <2>5. ~(StartSlot \/ ConnectSlot) =>
            \A s \in Slots : Queued("connect", s)' = Queued("connect", s)
      BY <1>4, <2>2, Zenon
  <2>6. ~StopSlot => \A s \in Slots : Queued("stop", s)' = Queued("stop", s)
      BY <1>4, <2>2, Zenon
  <2>3. \A s \in Slots : ~AmqpReady(s) => Queued("ready", s)' = Queued("ready", s)
      BY <1>4, <2>2, Zenon
  <2> QED
      BY <2>3, <2>4, <2>5, <2>6, Zenon
<1>5. CASE StartSlot
  <2>1. Task("connect", mi) \in Tasks /\ Task("connect", mi).kind = "connect"
      BY <1>0, TaskTypes DEF TypeOK
  <2> QED
      BY <1>1, <1>2, <1>4, <1>5, <2>1 DEF StartSlot, ForEachSlot
<1>6. CASE StopSlot
  <2>1. Task("stop", mi) \in Tasks /\ Task("stop", mi).kind = "stop"
      BY <1>0, TaskTypes DEF TypeOK
  <2> QED
      BY <1>1, <1>2, <1>4, <1>6, <2>1 DEF StopSlot, ForEachSlot
<1>7. CASE PublishQueue
  <2> DEFINE task == [kind |-> "publish", slot |-> doing.slot, what |-> doing.what]
  <2>1. task \in Tasks /\ task.kind = "publish" /\ loop' = Append(loop, task)
      BY <1>7 DEF PublishQueue, TypeOK, Tasks
  <2> QED
      BY <1>1, <1>2, <1>4, <2>1
<1>8. CASE ConnectSlot
  <2>1. Task("connect", doing.slot) \in Tasks /\ Task("connect", doing.slot).kind = "connect"
      BY <1>0, TaskTypes DEF TypeOK
  <2> QED
      BY <1>1, <1>2, <1>4, <1>8, <2>1 DEF ConnectSlot
<1>9. ASSUME NEW t \in Topics, Subscribe(t) \/ SubscribeGoesOn(t), loop' # loop PROVE Goal
  <2> DEFINE task == [kind |-> "consumer", slot |-> SlotOf[t], what |-> t]
  <2>1. task \in Tasks /\ task.kind = "consumer" /\ loop' = Append(loop, task)
      BY <1>9, TopicsAssumption DEF Subscribe, SubscribeGoesOn, SubscribeChecks,
            SubscribeQueues, Tasks
  <2> QED
      BY <1>4, <2>1
<1>10. ASSUME NEW t \in Slots, AmqpReady(t) PROVE Goal
  <2>1. Task("ready", t) \in Tasks /\ Task("ready", t).kind = "ready" /\ Task("ready", t).slot = t
      BY <1>0, TaskTypes
  <2>2. loop' = Append(loop, Task("ready", t))
      BY <1>0, <1>10, <2>1 DEF AmqpReady, Callback
  <2> QED
      BY <1>4, <1>10, <2>1, <2>2
<1>11. ASSUME NEW t \in Slots, AmqpFails(t) \/ ChannelFails(t) PROVE Goal
  <2>1. PICK n \in 1 .. MaxReports : loop' = loop \o [i \in 1 .. n |-> Task("failure", t)]
      BY <1>11 DEF AmqpFails, ChannelFails, Callback
  <2>2. /\ \A s \in Slots : s # t /\ Queued("failure", s) = {} => Queued("failure", s)' = {}
        /\ \A kind \in Kinds \ {"failure"}, s \in Slots : Queued(kind, s)' = Queued(kind, s)
      BY <1>0, <2>1, ReportFacts
  <2> QED
      BY <1>0, <1>11, <2>2
<1>12. CASE \/ StartBegin \/ InitializeSlots \/ StopBegin
            \/ \E p \in Publishes : Publish(p)
            \/ \E s \in Slots : TimerFires(s)
    BY <1>3, <1>12 DEF StartBegin, InitializeSlots, StopBegin, Publish, TimerFires
<1> QED
    BY <1>1, <1>2, <1>3, <1>5, <1>6, <1>7, <1>8, <1>9, <1>10, <1>11, <1>12
       DEF Next, MainSteps, LoopSteps, RunsTask

\* A failure that is reported is queued, with at least one task.
LEMMA FailureQueued ==
    ASSUME TypeOK, NEW s \in Slots, AmqpFails(s) \/ ChannelFails(s)
    PROVE  Queued("failure", s)' # {}
<1>1. PICK n \in 1 .. MaxReports : loop' = loop \o [i \in 1 .. n |-> Task("failure", s)]
    BY DEF AmqpFails, ChannelFails, Callback
<1> QED
    BY <1>1, ReportFacts DEF TypeOK

-----------------------------------------------------------------------------
(* Ready and the channels.                                                  *)

LEMMA FlagStep ==
    ASSUME TypeOK, TypedTasks, FlagInv, Next
    PROVE  FlagInv'
<1> SUFFICES ASSUME NEW s \in Slots, ready'[s],
                    publisherChannels'[s] = {} \/ broken'[s] # {} \/ link'[s] \notin Usable
             PROVE  Queued("failure", s)' # {} \/ loopLost'
    BY DEF FlagInv
<1>0. "failure" \in Kinds
    BY DEF Kinds
<1>1. CASE ~RunsTask
  <2>1. UNCHANGED <<ready, publisherChannels, loopLost>>
      BY <1>1, OthersQueue DEF slotFlags
  <2>2. CASE AmqpFails(s) \/ ChannelFails(s)
      BY <2>2, FailureQueued
  <2>3. CASE ~AmqpFails(s) /\ ~ChannelFails(s)
    <3>1. broken'[s] = broken[s] /\ (link'[s] = link[s] \/ link'[s] = "open")
      <4>1. AmqpReady(s) => link'[s] = "open"
          BY DEF AmqpReady, TypeOK
      <4>2. broken'[s] = broken[s] /\ (~AmqpReady(s) => link'[s] = link[s])
          BY <1>1, <2>3, OthersQueue
      <4> QED
          BY <4>1, <4>2
    <3>2. Queued("failure", s) # {} \/ loopLost
        BY <2>1, <3>1 DEF FlagInv, Usable
    <3> QED
        BY <1>0, <1>1, <2>1, <3>2, OthersKeep
  <2> QED
      BY <2>2, <2>3
<1>2. CASE RunsTask
  <2> DEFINE t == Head(loop).slot
  <2>1. /\ ~loopLost /\ t \in Slots
        /\ Head(loop).kind # "failure" \/ t # s =>
              (Queued("failure", s)' = {} <=> Queued("failure", s) = {})
      BY <1>0, <1>2, TaskRuns
  <2>2. CASE RunConnect \/ RunStop \/ RunFailure
    <3>1. t # s /\ UNCHANGED <<ready[s], publisherChannels[s], broken[s], link[s], loopLost>>
        BY <2>1, <2>2 DEF RunConnect, RunStop, RunFailure, amqpVars, TypeOK
    <3> QED
        BY <2>1, <3>1 DEF FlagInv
  <2>3. CASE RunReady
    <3>1. CASE t = s
      <4>1. CASE RebuildAndFlush(s)
        <5>1. Channels # {}
            BY ChannelsAssumption DEF Channels
        <5>2. /\ publisherChannels'[s] = Channels /\ broken'[s] = {} /\ link[s] \in Usable
            BY <2>1, <4>1 DEF RebuildAndFlush, TypeOK
        <5>3. link' = link
            BY <2>3 DEF RunReady
        <5> QED
            BY <5>1, <5>2, <5>3
      <4>2. CASE RebuildOnNothing(s)
          BY <4>2 DEF RebuildOnNothing
      <4> QED
          BY <2>3, <3>1, <4>1, <4>2 DEF RunReady
    <3>2. CASE t # s
      <4>1. UNCHANGED <<ready[s], publisherChannels[s], broken[s], link[s]>>
          BY <2>1, <2>3, <3>2
             DEF RunReady, RebuildAndFlush, RebuildOnNothing, TypeOK, channelVars
      <4> QED
          BY <2>1, <3>2, <4>1 DEF FlagInv
    <3> QED
        BY <3>1, <3>2
  <2>4. CASE RunPublish \/ RunConsumer
    <3>1. UNCHANGED <<ready, publisherChannels, broken, link>> /\ Head(loop).kind # "failure"
        BY <2>4 DEF RunPublish, RunConsumer, Run, slotFlags, amqpVars
    <3> QED
        BY <2>1, <3>1 DEF FlagInv
  <2> QED
      BY <1>2, <2>2, <2>3, <2>4 DEF RunsTask
<1> QED
    BY <1>1, <1>2

-----------------------------------------------------------------------------
(* Reconnects.                                                              *)

LEMMA MainStep ==
    ASSUME TypeOK, TypedTasks, MainInv, Next
    PROVE  MainInv'
<1>0. Slots # {} /\ "stop" \in Kinds
    BY SlotsAssumption DEF Kinds
<1>1. CASE RunsTask
    BY <1>0, <1>1, TaskRuns DEF MainInv
<1>2. CASE ~RunsTask
  <2>1. CASE StartBegin \/ InitializeSlots \/ StartSlot \/ StopBegin \/ StopSlot
    <3>1. ~StopSlot => \A s \in Slots : Queued("stop", s)' = Queued("stop", s)
        BY <1>2, OthersQueue
    <3>2. CASE StopSlot
        BY <3>2 DEF StopSlot, ForEachSlot, MainInv
    <3>3. CASE StartBegin \/ InitializeSlots \/ StopBegin
        BY <1>0, <3>1, <3>3 DEF StartBegin, InitializeSlots, StopBegin, StopSlot, ForEachSlot, MainInv
    <3>4. CASE StartSlot
      <4>1. ~StopSlot
          BY <3>4 DEF StartSlot, StopSlot, ForEachSlot
      <4> QED
          BY <3>1, <3>4, <4>1 DEF StartSlot, ForEachSlot, MainInv
    <3> QED
        BY <2>1, <3>2, <3>3, <3>4
  <2>2. CASE ~(StartBegin \/ InitializeSlots \/ StartSlot \/ StopBegin \/ StopSlot)
    <3>1. UNCHANGED <<started_, slots_, main>>
        BY <1>2, <2>2 DEF Next, MainSteps, LoopSteps, RunsTask, Subscribe, SubscribeGoesOn,
              SubscribeChecks, SubscribeQueues, Publish, PublishQueue, ConnectSlot,
              TimerFires, AmqpReady, AmqpFails, ChannelFails, Callback, mainVars
    <3>2. \A s \in Slots : Queued("stop", s)' = Queued("stop", s)
        BY <1>2, <2>2, OthersQueue
    <3> QED
        BY <3>1, <3>2 DEF MainInv
  <2> QED
      BY <2>1, <2>2
<1> QED
    BY <1>1, <1>2

LEMMA ReconnectStep ==
    ASSUME TypeOK, TypedTasks, MainInv, ReconnectInv, Next
    PROVE  ReconnectInv'
<1> SUFFICES ASSUME NEW s \in Slots
             PROVE  Reconnects(s)'
    BY DEF ReconnectInv
<1>0. /\ "connect" \in Kinds /\ "ready" \in Kinds /\ "failure" \in Kinds /\ "stop" \in Kinds
      /\ Reconnects(s)
    BY DEF Kinds, ReconnectInv
<1>n. NumSlots \in Nat \ {0} /\ Slots = 0 .. NumSlots - 1 /\ mi \in Slots
    BY Numbers DEF TypeOK
<1>1. CASE RunsTask
  <2> DEFINE t == Head(loop).slot
  <2>1. /\ ~loopLost /\ t \in Slots /\ UNCHANGED <<started_, main, mi>>
        /\ ~Calling(s) /\ ~Calling(s)'
        /\ \A kind \in {"connect", "ready", "failure", "stop"} :
              /\ Head(loop).kind # kind \/ Head(loop).slot # s =>
                    (Queued(kind, s)' = {} <=> Queued(kind, s) = {})
              /\ Queued(kind, s) = {} => Queued(kind, s)' = {}
              /\ Head(loop).kind = kind /\ Head(loop).slot = s => Queued(kind, s) # {}
              /\ (\A i, j \in Queued(kind, s) : i = j) =>
                    /\ \A i, j \in Queued(kind, s)' : i = j
                    /\ Head(loop).kind = kind /\ Head(loop).slot = s => Queued(kind, s)' = {}
      BY <1>1, TaskRuns DEF Kinds
  <2>2. CASE RunConnect
    <3>1. Head(loop).kind = "connect" /\ timers' = timers
        BY <2>2 DEF RunConnect, Run
    <3>2. CASE t = s
      <4>1. ~reconnectScheduled'[s]
          BY <2>1, <2>2, <3>2 DEF RunConnect, TypeOK
      <4>2. Queued("connect", s) # {} /\ Queued("connect", s)' = {}
          BY <1>0, <2>1, <3>1, <3>2 DEF Reconnects
      <4>3. timers[s] = 0 /\ ~Reconnecting(s)'
          BY <1>0, <2>1, <3>1, <4>2 DEF Reconnects, Reconnecting
      <4>4. ~(main \in {"boot", "init"} \/ (main = "start" /\ mi <= s))
          BY <1>0, <4>2 DEF Reconnects, Reconnecting
      <4> QED
          BY <2>1, <3>1, <4>1, <4>2, <4>3, <4>4 DEF Reconnects
    <3>3. CASE t # s
      <4>1. UNCHANGED <<reconnectScheduled[s], link[s]>>
          BY <2>1, <2>2, <3>3 DEF RunConnect, TypeOK
      <4> QED
          BY <1>0, <2>1, <3>1, <3>3, <4>1 DEF Reconnects, Reconnecting, Fresh
    <3> QED
        BY <3>2, <3>3
  <2>3. CASE RunReady \/ RunPublish \/ RunConsumer
    <3>1. UNCHANGED <<reconnectScheduled, link, timers>> /\ Head(loop).kind # "connect"
          /\ Head(loop).kind # "failure"
        BY <2>3 DEF RunReady, RunPublish, RunConsumer, Run, slotFlags, amqpVars
    <3> QED
        BY <1>0, <2>1, <3>1 DEF Reconnects, Reconnecting, Fresh
  <2>4. CASE RunFailure
    <3>1. link' = link /\ Head(loop).kind = "failure"
        BY <2>4 DEF RunFailure, Run, amqpVars
    <3>2. CASE t = s
      <4>1. Queued("failure", s) # {} /\ ~Fresh(s)
          BY <2>1, <3>1, <3>2 DEF Fresh
      <4>2. ~(main \in {"boot", "init"} \/ (main = "start" /\ mi <= s))
          BY <1>0, <4>1 DEF Reconnects
      <4>3. CASE started_ /\ ~reconnectScheduled[s]
        <5>1. ~Reconnecting(s) /\ timers[s] = 0
            BY <1>0, <4>1, <4>3 DEF Reconnects, Reconnecting
        <5>2. reconnectScheduled'[s] /\ timers'[s] = 1
            BY <2>1, <2>4, <3>2, <4>3, <5>1 DEF RunFailure, ScheduleReconnect, TypeOK
        <5>3. Queued("connect", s)' = {}
            BY <2>1, <5>1 DEF Reconnecting
        <5> QED
            BY <2>1, <4>2, <5>2, <5>3 DEF Reconnects, Reconnecting
      <4>4. CASE ~(started_ /\ ~reconnectScheduled[s])
        <5>1. UNCHANGED <<reconnectScheduled, timers>>
            BY <2>4, <3>2, <4>4 DEF RunFailure, ScheduleReconnect
        <5> QED
            BY <1>0, <2>1, <3>1, <4>1, <4>2, <4>4, <5>1 DEF Reconnects, Reconnecting
      <4> QED
          BY <4>3, <4>4
    <3>3. CASE t # s
      <4>1. UNCHANGED <<reconnectScheduled[s], timers[s]>>
          BY <2>1, <2>4, <3>3 DEF RunFailure, ScheduleReconnect, TypeOK
      <4> QED
          BY <1>0, <2>1, <3>1, <3>3, <4>1 DEF Reconnects, Reconnecting, Fresh
    <3> QED
        BY <3>2, <3>3
  <2>5. CASE RunStop
    <3>1. Head(loop).kind = "stop" /\ timers' = timers
        BY <2>5 DEF RunStop, Run
    <3>2. ~started_ /\ main \in {"stop", "stopped"}
      <4>1. Queued("stop", t) # {}
          BY <1>0, <1>1, <2>1, <3>1, TaskRuns
      <4> QED
          BY <2>1, <4>1 DEF MainInv
    <3> QED
        BY <1>0, <2>1, <3>1, <3>2 DEF Reconnects
  <2> QED
      BY <1>1, <2>2, <2>3, <2>4, <2>5 DEF RunsTask
<1>2. CASE ~RunsTask
  <2>1. /\ UNCHANGED reconnectScheduled
        /\ ~(StartSlot \/ ConnectSlot) => Queued("connect", s)' = Queued("connect", s)
        /\ ~AmqpReady(s) => Queued("ready", s)' = Queued("ready", s)
        /\ Queued("failure", s) = {} /\ ~AmqpFails(s) /\ ~ChannelFails(s) =>
              Queued("failure", s)' = {}
        /\ ~AmqpReady(s) /\ ~AmqpFails(s) => link'[s] = link[s]
      BY <1>2, OthersQueue DEF slotFlags
  <2>2. CASE AmqpReady(s) \/ AmqpFails(s) \/ ChannelFails(s)
    <3>1. ~Fresh(s) /\ UNCHANGED <<started_, main, mi, timers, doing>>
        BY <2>2 DEF AmqpReady, AmqpFails, ChannelFails, Callback, mainVars, Fresh
    <3>2. Queued("connect", s)' = Queued("connect", s)
      <4>1. loop \in Seq(Tasks)
          BY DEF TypeOK
      <4>2. CASE AmqpReady(s)
        <5>1. /\ Task("ready", s) \in Tasks /\ Task("ready", s).kind = "ready"
              /\ loop' = Append(loop, Task("ready", s))
            BY <1>0, <4>1, <4>2, TaskTypes DEF AmqpReady, Callback
        <5> QED
            BY <1>0, <4>1, <5>1, QueueFacts
      <4>3. CASE AmqpFails(s) \/ ChannelFails(s)
        <5>1. PICK n \in 1 .. MaxReports : loop' = loop \o [i \in 1 .. n |-> Task("failure", s)]
            BY <4>3 DEF AmqpFails, ChannelFails, Callback
        <5> QED
            BY <1>0, <4>1, <5>1, ReportFacts
      <4> QED
          BY <2>2, <4>2, <4>3
    <3> QED
        BY <1>0, <2>1, <3>1, <3>2 DEF Reconnects, Reconnecting, Calling
  <2>3. CASE ~AmqpReady(s) /\ ~AmqpFails(s) /\ ~ChannelFails(s)
    <3>1. Fresh(s) => Fresh(s)'
        BY <2>1, <2>3 DEF Fresh
    <3>2. CASE StartSlot
      <4>1. /\ main = "start" /\ loop' = Append(loop, Task("connect", mi)) /\ UNCHANGED <<started_, timers, doing>>
            /\ main' \in {"start", "running"} /\ (main' = "start" => mi' = mi + 1)
        <5>1. main = "start" /\ loop' = Append(loop, Task("connect", mi))
              /\ UNCHANGED <<started_, timers, doing>>
            BY <3>2 DEF StartSlot, ForEachSlot
        <5>2. mi' = (mi + 1) % NumSlots
            BY <3>2 DEF StartSlot, ForEachSlot
        <5>3. main' \in {"start", "running"} /\ (main' = "start" => mi + 1 # NumSlots)
            BY <3>2 DEF StartSlot, ForEachSlot
        <5>4. mi + 1 # NumSlots => mi + 1 \in 0 .. NumSlots - 1
            BY <1>n
        <5>5. mi + 1 # NumSlots => (mi + 1) % NumSlots = mi + 1
            BY <1>n, <5>4, SmallRemainder
        <5> QED
            BY <5>1, <5>2, <5>3, <5>5, Zenon
      <4>2. /\ Task("connect", mi) \in Tasks /\ Task("connect", mi).kind = "connect"
            /\ Task("connect", mi).slot = mi
        <5>1. mi \in Slots
            BY DEF TypeOK
        <5> QED
            BY <1>0, <5>1, TaskTypes
      <4>3. loop \in Seq(Tasks) /\ started_
          BY <4>1 DEF TypeOK, MainInv
      <4>4. CASE s = mi
        <5>1. ~Reconnecting(s) /\ Fresh(s) /\ ~reconnectScheduled[s]
            BY <1>0, <1>n, <4>1, <4>4 DEF Reconnects
        <5>2. Queued("connect", s)' = Queued("connect", s) \cup {Len(loop) + 1}
            BY <1>0, <4>1, <4>2, <4>3, <4>4, QueueFacts
        <5>3. \A i, j \in Queued("connect", s)' : i = j
            BY <5>1, <5>2 DEF Reconnecting
        <5>4. ~(main' = "start" /\ mi' <= s)
            BY <1>n, <4>1, <4>4
        <5>5. timers'[s] = 0 /\ ~Calling(s)'
            BY <1>0, <4>1, <5>1 DEF Reconnects, Reconnecting, Calling
        <5> QED
            BY <2>1, <3>1, <4>1, <5>1, <5>3, <5>4, <5>5 DEF Reconnects
      <4>5. CASE s # mi
        <5>1. Queued("connect", s)' = Queued("connect", s)
            BY <1>0, <4>1, <4>2, <4>3, <4>5, QueueFacts
        <5>2. main' = "start" /\ mi' <= s => mi <= s
            BY <1>n, <4>1
        <5> QED
            BY <1>0, <2>1, <3>1, <4>1, <5>1, <5>2 DEF Reconnects, Reconnecting, Calling
      <4> QED
          BY <4>4, <4>5
    <3>3. CASE ConnectSlot
      <4>1. /\ loop' = Append(loop, Task("connect", doing.slot)) /\ doing' = Idle
            /\ doing.at = "reconnect" /\ UNCHANGED <<started_, main, mi, timers>>
          BY <3>3 DEF ConnectSlot, mainVars
      <4>2. /\ Task("connect", doing.slot) \in Tasks /\ Task("connect", doing.slot).kind = "connect"
            /\ Task("connect", doing.slot).slot = doing.slot /\ loop \in Seq(Tasks)
          BY <1>0, TaskTypes DEF TypeOK
      <4>3. ~Calling(s)'
          BY <4>1 DEF Calling, Idle
      <4>4. CASE s = doing.slot
        <5>1. Queued("connect", s) = {} /\ Calling(s) /\ timers[s] = 0
            BY <1>0, <4>1, <4>4 DEF Reconnects, Calling
        <5>2. Queued("connect", s)' = Queued("connect", s) \cup {Len(loop) + 1}
            BY <1>0, <4>1, <4>2, <4>4, QueueFacts
        <5>3. Queued("connect", s)' # {} /\ \A i, j \in Queued("connect", s)' : i = j
            BY <5>1, <5>2
        <5> QED
            BY <1>0, <2>1, <3>1, <4>1, <4>3, <5>1, <5>3 DEF Reconnects, Reconnecting
      <4>5. CASE s # doing.slot
        <5>1. Queued("connect", s)' = Queued("connect", s) /\ ~Calling(s)
            BY <1>0, <4>1, <4>2, <4>5, QueueFacts DEF Calling
        <5> QED
            BY <1>0, <2>1, <3>1, <4>1, <4>3, <5>1 DEF Reconnects, Reconnecting
      <4> QED
          BY <4>4, <4>5
    <3>4. CASE \E t \in Slots : TimerFires(t)
      <4>1. PICK t \in Slots : TimerFires(t)
          BY <3>4
      <4>2. /\ UNCHANGED <<started_, main, mi, loop>> /\ ~Calling(s)
            /\ Calling(s)' <=> started_ /\ s = t
            /\ s # t => timers'[s] = timers[s]
            /\ s = t => timers[s] > 0 /\ timers'[s] = timers[s] - 1
          BY <4>1 DEF TimerFires, mainVars, Calling, Idle, TypeOK
      <4>3. Queued("connect", s)' = Queued("connect", s)
          BY <4>2 DEF Queued
      <4>4. CASE s = t
        <5>1. timers[s] = 1 /\ timers'[s] = 0 /\ Queued("connect", s) = {} /\ Reconnecting(s)
            BY <1>0, <4>2, <4>4 DEF Reconnects, Reconnecting
        <5> QED
            BY <1>0, <2>1, <3>1, <4>2, <4>3, <4>4, <5>1 DEF Reconnects, Reconnecting
      <4>5. CASE s # t
          BY <1>0, <2>1, <3>1, <4>2, <4>3, <4>5 DEF Reconnects, Reconnecting
      <4> QED
          BY <4>4, <4>5
    <3>5. CASE ~StartSlot /\ ~ConnectSlot /\ ~\E t \in Slots : TimerFires(t)
      <4>1. timers' = timers /\ (Calling(s)' <=> Calling(s))
        <5>1. timers' = timers
            BY <1>2, <3>5 DEF Next, MainSteps, LoopSteps, RunsTask, StartBegin,
                  InitializeSlots, StopSlot, ForEachSlot, StopBegin, Subscribe,
                  SubscribeGoesOn, SubscribeChecks, SubscribeQueues, Publish, PublishQueue,
                  AmqpReady, AmqpFails, ChannelFails, Callback
        <5>2. doing' = doing \/ (doing.at # "reconnect" /\ doing'.at # "reconnect")
          <6>1. CASE PublishQueue \/ \E p \in Publishes : Publish(p)
              BY <6>1 DEF PublishQueue, Publish, PublishAccepted, PublishRejected, Idle
          <6>2. CASE ~(PublishQueue \/ \E p \in Publishes : Publish(p))
              BY <1>2, <3>5, <6>2 DEF Next, MainSteps, LoopSteps, RunsTask, StartBegin,
                    InitializeSlots, StopSlot, ForEachSlot, StopBegin, Subscribe,
                    SubscribeGoesOn, SubscribeChecks, SubscribeQueues, AmqpReady, AmqpFails,
                    ChannelFails, Callback
          <6> QED
              BY <6>1, <6>2
        <5> QED
            BY <5>1, <5>2 DEF Calling
      <4>2. /\ started_' => started_ \/ main = "boot"
            /\ main' \in {"boot", "init"} \/ (main' = "start" /\ mi' <= s) =>
                  main \in {"boot", "init"} \/ (main = "start" /\ mi <= s)
        <5>1. CASE StartBegin \/ InitializeSlots \/ StopBegin \/ StopSlot
            BY <5>1 DEF StartBegin, InitializeSlots, StopBegin, StopSlot, ForEachSlot
        <5>2. CASE ~(StartBegin \/ InitializeSlots \/ StopBegin \/ StopSlot)
          <6>1. UNCHANGED mainVars
              BY <1>2, <3>5, <5>2 DEF Next, MainSteps, LoopSteps, RunsTask, Subscribe,
                    SubscribeGoesOn, SubscribeChecks, SubscribeQueues, Publish, PublishQueue,
                    AmqpReady, AmqpFails, ChannelFails, Callback
          <6> QED
              BY <6>1 DEF mainVars
        <5> QED
            BY <5>1, <5>2
      <4> QED
          BY <1>0, <2>1, <3>1, <3>5, <4>1, <4>2 DEF Reconnects, Reconnecting
    <3> QED
        BY <3>2, <3>3, <3>4, <3>5
  <2> QED
      BY <2>2, <2>3
<1> QED
    BY <1>1, <1>2

-----------------------------------------------------------------------------
(* No slot is forgotten.                                                    *)

\* The running task leaves the slot under way: it is another slot's, or it opens the
\* connection, finds it usable, or sees to the reconnect.
LEMMA TaskUnderWay ==
    ASSUME TypeOK, TypedTasks, MainInv, ReconnectInv, RunsTask, ~loopLost',
           NEW s \in Slots, started_, UnderWay(s)
    PROVE  UnderWay(s)'
<1> DEFINE t == Head(loop).slot
<1>0. "connect" \in Kinds /\ "ready" \in Kinds /\ "failure" \in Kinds /\ "stop" \in Kinds
    BY DEF Kinds
<1>1. /\ t \in Slots /\ UNCHANGED <<started_, main>> /\ ~Calling(s)
      /\ \A kind \in {"connect", "ready", "failure", "stop"} :
            /\ Head(loop).kind # kind \/ t # s =>
                  (Queued(kind, s)' = {} <=> Queued(kind, s) = {})
            /\ Head(loop).kind = kind /\ t = s => Queued(kind, s) # {}
    BY <1>0, TaskRuns
<1>2. CASE t # s
  <2>1. UNCHANGED <<ready[s], link[s], timers[s]>>
    <3>1. CASE RunConnect \/ RunStop
        BY <1>1, <1>2, <3>1 DEF RunConnect, RunStop, TypeOK
    <3>2. CASE RunReady
        BY <1>1, <1>2, <3>2 DEF RunReady, RebuildAndFlush, RebuildOnNothing, TypeOK
    <3>3. CASE RunFailure
        BY <1>1, <1>2, <3>3 DEF RunFailure, ScheduleReconnect, amqpVars, TypeOK
    <3>4. CASE RunPublish \/ RunConsumer
        BY <3>4 DEF RunPublish, RunConsumer, slotFlags, amqpVars
    <3> QED
        BY <3>1, <3>2, <3>3, <3>4 DEF RunsTask
  <2> QED
      BY <1>1, <1>2, <2>1 DEF UnderWay
<1>3. CASE t = s
  <2>1. CASE RunConnect
      BY <1>1, <1>3, <2>1 DEF RunConnect, UnderWay, TypeOK
  <2>2. CASE RunReady
    <3>1. RebuildAndFlush(s)
        BY <1>3, <2>2 DEF RunReady, RebuildOnNothing
    <3>2. link[s] \in Usable /\ ready'[s] /\ link' = link
        BY <2>2, <3>1 DEF RunReady, RebuildAndFlush, TypeOK
    <3> QED
        BY <3>2 DEF UnderWay, Usable
  <2>3. CASE RunFailure
    <3>1. Head(loop).kind = "failure"
        BY <2>3 DEF RunFailure, Run
    <3>2. CASE reconnectScheduled[s]
      <4>1. timers[s] = 1 \/ Queued("connect", s) # {}
          BY <1>1, <3>2 DEF ReconnectInv, Reconnects, Reconnecting
      <4>2. timers' = timers
          BY <1>3, <2>3, <3>2 DEF RunFailure, ScheduleReconnect
      <4>3. Queued("connect", s) # {} => Queued("connect", s)' # {}
          BY <1>1, <3>1
      <4>4. timers[s] = 1 => timers[s]' > 0
          BY <4>2
      <4> QED
          BY <4>1, <4>3, <4>4 DEF UnderWay
    <3>3. CASE ~reconnectScheduled[s]
      <4>1. timers' = [timers EXCEPT ![s] = timers[s] + 1] /\ timers[s] \in Nat
          BY <1>3, <2>3, <3>3 DEF RunFailure, ScheduleReconnect, TypeOK
      <4>2. timers'[s] > 0
          BY <4>1 DEF TypeOK
      <4> QED
          BY <4>2 DEF UnderWay
    <3> QED
        BY <3>2, <3>3
  <2>4. CASE RunPublish \/ RunConsumer
    <3>1. UNCHANGED <<ready, link, timers>> /\ Head(loop).kind \in {"publish", "consumer"}
        BY <2>4 DEF RunPublish, RunConsumer, Run, slotFlags, amqpVars
    <3> QED
        BY <1>1, <3>1 DEF UnderWay
  <2>5. CASE RunStop
    <3>1. Queued("stop", s) # {}
        BY <1>1, <1>3, <2>5 DEF RunStop, Run
    <3> QED
        BY <3>1 DEF MainInv
  <2> QED
      BY <2>1, <2>2, <2>3, <2>4, <2>5 DEF RunsTask
<1> QED
    BY <1>2, <1>3

\* What the calls and the callbacks do to the timers and to the call of connectSlot.
LEMMA OthersReconnect ==
    ASSUME TypeOK, Next, ~RunsTask, started_, NEW s \in Slots
    PROVE  /\ timers[s] > 0 => timers'[s] > 0 \/ Calling(s)'
           /\ Calling(s) => Calling(s)' \/ ConnectSlot
<1>1. CASE \E t \in Slots : TimerFires(t)
  <2>1. PICK t \in Slots : TimerFires(t)
      BY <1>1
  <2>2. /\ ~Calling(s)
        /\ s # t => timers'[s] = timers[s]
        /\ s = t => Calling(s)'
      BY <2>1 DEF TimerFires, Calling, Idle, TypeOK
  <2> QED
      BY <2>2
<1>2. CASE ~\E t \in Slots : TimerFires(t)
  <2>1. timers' = timers
      BY <1>2 DEF Next, MainSteps, LoopSteps, RunsTask, StartBegin, InitializeSlots,
            StartSlot, StopSlot, ForEachSlot, StopBegin, Subscribe, SubscribeGoesOn,
            SubscribeChecks, SubscribeQueues, Publish, PublishQueue, ConnectSlot, AmqpReady,
            AmqpFails, ChannelFails, Callback
  <2>2. Calling(s) => ~PublishQueue /\ ~\E p \in Publishes : Publish(p)
      BY DEF Calling, PublishQueue, Publish, Idle
  <2>3. ~PublishQueue /\ ~(\E p \in Publishes : Publish(p)) => doing' = doing \/ ConnectSlot
      BY <1>2 DEF Next, MainSteps, LoopSteps, RunsTask, StartBegin, InitializeSlots,
            StartSlot, StopSlot, ForEachSlot, StopBegin, Subscribe, SubscribeGoesOn,
            SubscribeChecks, SubscribeQueues, AmqpReady, AmqpFails, ChannelFails, Callback
  <2> QED
      BY <2>1, <2>2, <2>3 DEF Calling
<1> QED
    BY <1>1, <1>2

LEMMA OthersUnderWay ==
    ASSUME TypeOK, TypedTasks, Next, ~RunsTask, started_, NEW s \in Slots, UnderWay(s)
    PROVE  UnderWay(s)'
<1>0. "connect" \in Kinds /\ "ready" \in Kinds /\ "failure" \in Kinds
    BY DEF Kinds
<1>1. /\ \A kind \in {"connect", "ready", "failure"} :
            Queued(kind, s) # {} => Queued(kind, s)' # {}
      /\ ready' = ready
      /\ ~AmqpReady(s) /\ ~AmqpFails(s) => link'[s] = link[s]
    BY <1>0, OthersKeep, OthersQueue DEF slotFlags
<1>2. AmqpReady(s) => Queued("ready", s)' # {}
  <2> SUFFICES ASSUME AmqpReady(s) PROVE Queued("ready", s)' # {}
      OBVIOUS
  <2>1. /\ loop \in Seq(Tasks) /\ Task("ready", s) \in Tasks /\ Task("ready", s).kind = "ready"
        /\ Task("ready", s).slot = s
      BY <1>0, TaskTypes DEF TypeOK
  <2>2. loop' = Append(loop, Task("ready", s))
      BY <2>1 DEF AmqpReady, Callback
  <2> QED
      BY <1>0, <2>1, <2>2, QueueFacts
<1>3. AmqpFails(s) => Queued("failure", s)' # {}
    BY FailureQueued
<1>4. ConnectSlot /\ Calling(s) => Queued("connect", s)' # {}
  <2> SUFFICES ASSUME ConnectSlot, Calling(s) PROVE Queued("connect", s)' # {}
      OBVIOUS
  <2>1. /\ loop \in Seq(Tasks) /\ Task("connect", s) \in Tasks
        /\ Task("connect", s).kind = "connect" /\ Task("connect", s).slot = s
      BY <1>0, TaskTypes DEF TypeOK
  <2>2. loop' = Append(loop, Task("connect", s))
      BY DEF ConnectSlot, Calling
  <2> QED
      BY <1>0, <2>1, <2>2, QueueFacts
<1>5. /\ timers[s] > 0 => timers'[s] > 0 \/ Calling(s)'
      /\ Calling(s) => Calling(s)' \/ ConnectSlot
    BY OthersReconnect
<1>6. CASE Queued("connect", s) # {} \/ Queued("ready", s) # {} \/ Queued("failure", s) # {}
    BY <1>1, <1>6 DEF UnderWay
<1>7. CASE timers[s] > 0 \/ Calling(s)
    BY <1>4, <1>5, <1>7 DEF UnderWay
<1>8. CASE (ready[s] /\ link[s] = "open") \/ link[s] = "opening"
    BY <1>1, <1>2, <1>3, <1>8 DEF UnderWay
<1> QED
    BY <1>6, <1>7, <1>8 DEF UnderWay

LEMMA UnderWayStep ==
    ASSUME TypeOK, TypedTasks, MainInv, ReconnectInv, UnderWayInv, Next
    PROVE  UnderWayInv'
<1> SUFFICES ASSUME ~loopLost', NEW s \in Slots, main' = "running" \/ (main' = "start" /\ s < mi')
             PROVE  UnderWay(s)'
    BY DEF UnderWayInv
<1>1. CASE RunsTask
  <2>1. ~loopLost /\ UNCHANGED <<main, mi>>
      BY <1>1, TaskRuns
  <2>2. UnderWay(s) /\ started_
      BY <2>1 DEF UnderWayInv, MainInv
  <2> QED
      BY <1>1, <2>2, TaskUnderWay
<1>2. CASE ~RunsTask
  <2>1. ~loopLost
      BY <1>2, OthersQueue
  <2>2. CASE StartSlot
    <3>1. main = "start" /\ started_ /\ loop' = Append(loop, Task("connect", mi))
        BY <2>2 DEF StartSlot, ForEachSlot, MainInv
    <3>2. CASE s = mi
      <4>1. /\ loop \in Seq(Tasks) /\ Task("connect", s) \in Tasks /\ "connect" \in Kinds
            /\ Task("connect", s).kind = "connect" /\ Task("connect", s).slot = s
          BY TaskTypes DEF TypeOK, Kinds
      <4>2. Queued("connect", s)' # {}
          BY <3>1, <3>2, <4>1, QueueFacts
      <4> QED
          BY <4>2 DEF UnderWay
    <3>3. CASE s # mi
      <4>1. s < mi
        <5>1. NumSlots \in Nat \ {0} /\ Slots = 0 .. NumSlots - 1 /\ mi \in Slots
            BY Numbers DEF TypeOK
        <5>2. mi' = (mi + 1) % NumSlots
            BY <2>2 DEF StartSlot, ForEachSlot
        <5>3. main' = "running" => mi + 1 = NumSlots
            BY <2>2 DEF StartSlot, ForEachSlot
        <5>4. main' = "start" => mi + 1 # NumSlots
            BY <2>2 DEF StartSlot, ForEachSlot
        <5>5. mi + 1 # NumSlots => mi' = mi + 1
          <6>1. mi + 1 # NumSlots => mi + 1 \in 0 .. NumSlots - 1
              BY <5>1
          <6> QED
              BY <5>1, <5>2, <6>1, SmallRemainder
        <5>6. CASE main' = "running"
            BY <5>1, <5>3, <5>6, <3>3
        <5>7. CASE main' = "start" /\ s < mi'
          <6>1. s < mi + 1
              BY <5>4, <5>5, <5>7
          <6> QED
              BY <6>1, <5>1, <3>3
        <5> QED
            BY <5>6, <5>7
      <4>2. UnderWay(s)
          BY <2>1, <3>1, <4>1 DEF UnderWayInv
      <4> QED
          BY <1>2, <3>1, <4>2, OthersUnderWay
    <3> QED
        BY <3>2, <3>3
  <2>3. CASE ~StartSlot
    <3>1. main = "running" \/ (main = "start" /\ s < mi)
      <4>1. CASE InitializeSlots \/ StartBegin \/ StopBegin \/ StopSlot
        <5>1. ~StopSlot /\ ~StopBegin /\ ~StartBegin
            BY DEF StopSlot, ForEachSlot, StopBegin, StartBegin
        <5>2. ~InitializeSlots
          <6>1. s \in Nat
              BY Numbers
          <6> QED
              BY <6>1 DEF InitializeSlots
        <5> QED
            BY <4>1, <5>1, <5>2
      <4>2. CASE ~(InitializeSlots \/ StartBegin \/ StopBegin \/ StopSlot)
        <5>1. UNCHANGED mainVars
            BY <1>2, <2>3, <4>2 DEF Next, MainSteps, LoopSteps, RunsTask, Subscribe,
                  SubscribeGoesOn, SubscribeChecks, SubscribeQueues, Publish, PublishQueue,
                  ConnectSlot, TimerFires, AmqpReady, AmqpFails, ChannelFails, Callback
        <5> QED
            BY <5>1 DEF mainVars
      <4> QED
          BY <4>1, <4>2
    <3>2. UnderWay(s) /\ started_
        BY <2>1, <3>1 DEF UnderWayInv, MainInv
    <3> QED
        BY <1>2, <3>2, OthersUnderWay
  <2> QED
      BY <2>2, <2>3
<1> QED
    BY <1>1, <1>2

-----------------------------------------------------------------------------
(* Nothing waits for a slot that works.                                     *)

LEMMA WaitsStep ==
    ASSUME TypeOK, TypedTasks, FlagInv, WaitsForReady, Next
    PROVE  WaitsForReady'
<1> SUFFICES ASSUME NEW s \in Slots, pendingPublishes'[s] # <<>>, ready'[s], ~loopLost'
             PROVE  Queued("failure", s)' # {}
    BY DEF WaitsForReady
<1>0. "failure" \in Kinds
    BY DEF Kinds
<1>1. CASE ~RunsTask
  <2>1. UNCHANGED <<ready, loopLost>>
      BY <1>1, OthersQueue DEF slotFlags
  <2>2. pendingPublishes' = pendingPublishes
      BY <1>1 DEF Next, MainSteps, LoopSteps, RunsTask, StartBegin, InitializeSlots,
            StartSlot, StopSlot, ForEachSlot, StopBegin, PublishQueue, ConnectSlot,
            Subscribe, SubscribeGoesOn, SubscribeChecks, SubscribeQueues, Publish,
            TimerFires, AmqpReady, AmqpFails, ChannelFails, Callback
  <2>3. Queued("failure", s) # {}
      BY <2>1, <2>2 DEF WaitsForReady
  <2> QED
      BY <1>0, <1>1, <2>3, OthersKeep
<1>2. CASE RunsTask
  <2> DEFINE t == Head(loop).slot
  <2>1. /\ ~loopLost /\ t \in Slots
        /\ Head(loop).kind # "failure" \/ t # s =>
              (Queued("failure", s)' = {} <=> Queued("failure", s) = {})
      BY <1>0, <1>2, TaskRuns
  <2>2. CASE RunConnect \/ RunStop \/ RunFailure
    <3>1. t # s /\ UNCHANGED <<ready[s], pendingPublishes[s]>>
        BY <2>1, <2>2 DEF RunConnect, RunStop, RunFailure, TypeOK
    <3> QED
        BY <2>1, <3>1 DEF WaitsForReady
  <2>3. CASE RunReady
    <3>1. t # s
        BY <2>1, <2>3 DEF RunReady, RebuildAndFlush, RebuildOnNothing, TypeOK
    <3>2. UNCHANGED <<ready[s], pendingPublishes[s]>>
        BY <2>1, <2>3, <3>1 DEF RunReady, RebuildAndFlush, RebuildOnNothing, TypeOK
    <3> QED
        BY <2>1, <3>1, <3>2 DEF WaitsForReady
  <2>4. CASE RunPublish
    <3>1. UNCHANGED <<ready, publisherChannels, broken, link>> /\ Head(loop).kind = "publish"
        BY <2>4 DEF RunPublish, Run, slotFlags, amqpVars
    <3>2. CASE pendingPublishes'[s] = pendingPublishes[s]
        BY <2>1, <3>1, <3>2 DEF WaitsForReady
    <3>3. CASE pendingPublishes'[s] # pendingPublishes[s]
      <4>1. t = s /\ (publisherChannels[s] = {} \/ broken[s] # {} \/ link[s] \notin Usable)
          BY <2>1, <2>4, <3>1, <3>3 DEF RunPublish, PublishWaits, PublishOnChannel, TypeOK
      <4> QED
          BY <2>1, <3>1, <4>1 DEF FlagInv
    <3> QED
        BY <3>2, <3>3
  <2>5. CASE RunConsumer
    <3>1. UNCHANGED <<ready, pendingPublishes>> /\ Head(loop).kind = "consumer"
        BY <2>5 DEF RunConsumer, Run, slotFlags
    <3> QED
        BY <2>1, <3>1 DEF WaitsForReady
  <2> QED
      BY <1>2, <2>2, <2>3, <2>4, <2>5 DEF RunsTask
<1> QED
    BY <1>1, <1>2

-----------------------------------------------------------------------------
(* Where a publish is.                                                      *)

\* The loop takes its first task: the task of the publish, or not.
LEMMA TasksTaken ==
    ASSUME loop \in Seq(Tasks), loop # <<>>, loop' = Tail(loop), NEW p \in Publishes,
           \A i, j \in TasksOf(p) : i = j
    PROVE  /\ \A i, j \in TasksOf(p)' : i = j
           /\ Head(loop).kind = "publish" /\ Head(loop).what = p =>
                 TasksOf(p) # {} /\ TasksOf(p)' = {}
           /\ Head(loop).kind # "publish" \/ Head(loop).what # p =>
                 (TasksOf(p)' = {} <=> TasksOf(p) = {})
<1>1. /\ Head(loop) = loop[1] /\ 1 \in DOMAIN loop
      /\ \A i \in DOMAIN Tail(loop) : i + 1 \in DOMAIN loop /\ Tail(loop)[i] = loop[i + 1]
      /\ \A i \in DOMAIN loop : i # 1 => i - 1 \in DOMAIN Tail(loop) /\ Tail(loop)[i - 1] = loop[i]
      /\ DOMAIN loop \subseteq Nat \ {0} /\ DOMAIN Tail(loop) \subseteq Nat \ {0}
    BY HeadFacts
<1>2. \A i \in TasksOf(p)' : i \in Nat \ {0} /\ i + 1 \in TasksOf(p)
    BY <1>1 DEF TasksOf
<1>3. \A i \in TasksOf(p) : i \in Nat \ {0} /\ (i # 1 => i - 1 \in TasksOf(p)')
    BY <1>1 DEF TasksOf
<1>4. 1 \in TasksOf(p) <=> Head(loop).kind = "publish" /\ Head(loop).what = p
    BY <1>1 DEF TasksOf
<1>5. \A i, j \in TasksOf(p)' : i = j
    BY <1>2
<1>6. ASSUME 1 \in TasksOf(p), NEW i \in TasksOf(p)' PROVE FALSE
    BY <1>2, <1>6
<1>7. 1 \notin TasksOf(p) => (TasksOf(p)' = {} <=> TasksOf(p) = {})
    BY <1>2, <1>3
<1> QED
    BY <1>4, <1>5, <1>6, <1>7

\* The loop gets a task.
LEMMA TasksGiven ==
    ASSUME loop \in Seq(Tasks), NEW task \in Tasks, loop' = Append(loop, task), NEW p \in Publishes
    PROVE  /\ task.kind # "publish" \/ task.what # p => TasksOf(p)' = TasksOf(p)
           /\ task.kind = "publish" /\ task.what = p =>
                 TasksOf(p)' = TasksOf(p) \cup {Len(loop) + 1}
BY AppendFacts DEF TasksOf

\* A publish that no step moves is where it was, though its index may change.
LEMMA PlaceKept ==
    ASSUME NEW p \in Publishes, Placed(p), \A i, j \in TasksOf(p)' : i = j,
           TasksOf(p)' = {} <=> TasksOf(p) = {},
           \A s \in Slots : Lies(p, s)' = {} <=> Lies(p, s) = {},
           \A s \in Slots : \A i, j \in Lies(p, s)' : i = j,
           published'[p] = published[p],
           p \in requested' <=> p \in requested, p \in rejected' <=> p \in rejected,
           p \in dropped' <=> p \in dropped, Called(p)' <=> Called(p)
    PROVE  Placed(p)'
<1>1. Waits(p)' <=> Waits(p)
    BY DEF Waits
<1>2. ASSUME NEW s \in Slots, NEW t \in Slots, NEW i \in Lies(p, s)', NEW j \in Lies(p, t)'
      PROVE  s = t /\ i = j
  <2>1. Lies(p, s) # {} /\ Lies(p, t) # {}
      BY <1>2
  <2>2. s = t
      BY <2>1 DEF Placed
  <2> QED
      BY <1>2, <2>2
<1> QED
    BY <1>1, <1>2 DEF Placed

\* A publish that is where it was, at the same index.
LEMMA PlaceSame ==
    ASSUME NEW p \in Publishes, Placed(p), \A i, j \in TasksOf(p)' : i = j,
           TasksOf(p)' = {} <=> TasksOf(p) = {}, \A s \in Slots : Lies(p, s)' = Lies(p, s),
           published'[p] = published[p],
           p \in requested' <=> p \in requested, p \in rejected' <=> p \in rejected,
           p \in dropped' <=> p \in dropped, Called(p)' <=> Called(p)
    PROVE  Placed(p)'
<1>1. /\ \A s \in Slots : Lies(p, s)' = {} <=> Lies(p, s) = {}
      /\ \A s \in Slots : \A i, j \in Lies(p, s)' : i = j
    BY DEF Placed
<1> QED
    BY <1>1, PlaceKept

\* The task of publish p puts it into the deque of slot s, at either end.
LEMMA LiesAdded ==
    ASSUME pendingPublishes \in [Slots -> Seq(Publishes)], NEW s \in Slots, NEW q \in Publishes,
           \/ pendingPublishes' = [pendingPublishes EXCEPT ![s] = Append(@, q)]
           \/ pendingPublishes' = [pendingPublishes EXCEPT ![s] = <<q>> \o @]
    PROVE  /\ Lies(q, s)' # {}
           /\ Lies(q, s) = {} => \A i, j \in Lies(q, s)' : i = j
           /\ \A p \in Publishes : p # q =>
                 /\ Lies(p, s)' = {} <=> Lies(p, s) = {}
                 /\ (\A i, j \in Lies(p, s) : i = j) => \A i, j \in Lies(p, s)' : i = j
           /\ \A p \in Publishes, t \in Slots : t # s => Lies(p, t)' = Lies(p, t)
<1> DEFINE d == pendingPublishes[s]
<1>1. d \in Seq(Publishes) /\ Len(d) \in Nat /\ DOMAIN d = 1 .. Len(d)
    OBVIOUS
<1>2. \A p \in Publishes, t \in Slots : t # s => Lies(p, t)' = Lies(p, t)
    BY DEF Lies
<1>3. CASE pendingPublishes' = [pendingPublishes EXCEPT ![s] = Append(@, q)]
  <2>1. pendingPublishes'[s] = Append(d, q)
      BY <1>3
  <2>2. /\ DOMAIN Append(d, q) = DOMAIN d \cup {Len(d) + 1} /\ Len(d) + 1 \notin DOMAIN d
        /\ \A i \in DOMAIN d : Append(d, q)[i] = d[i]
        /\ Append(d, q)[Len(d) + 1] = q
      BY <1>1, AppendFacts
  <2> DEFINE n == Len(d) + 1
  <2>3. Lies(q, s)' = Lies(q, s) \cup {n} /\ \A p \in Publishes : p # q => Lies(p, s)' = Lies(p, s)
      BY <2>1, <2>2 DEF Lies
  <2> QED
      BY <1>2, <2>3
<1>4. CASE pendingPublishes' = [pendingPublishes EXCEPT ![s] = <<q>> \o @]
  <2> DEFINE r == <<q>> \o d
  <2>1. pendingPublishes'[s] = r
      BY <1>4
  <2>2. /\ Len(r) = Len(d) + 1 /\ DOMAIN r = 1 .. Len(d) + 1 /\ r[1] = q
        /\ \A i \in DOMAIN d : r[i + 1] = d[i]
        /\ \A i \in 2 .. Len(d) + 1 : i - 1 \in DOMAIN d /\ r[i] = d[i - 1]
      BY <1>1, PrependFacts
  <2> HIDE DEF r
  <2>3. 1 \in Lies(q, s)' /\ \A p \in Publishes : p # q => 1 \notin Lies(p, s)'
      BY <1>1, <2>1, <2>2 DEF Lies
  <2>4. \A p \in Publishes : \A i \in Lies(p, s)' :
            i \in Nat \ {0} /\ (i # 1 => i - 1 \in Lies(p, s))
      BY <1>1, <2>1, <2>2 DEF Lies
  <2>5. \A p \in Publishes : \A i \in Lies(p, s) : i + 1 \in Lies(p, s)'
      BY <1>1, <2>1, <2>2 DEF Lies
  <2>6. Lies(q, s) = {} => \A i, j \in Lies(q, s)' : i = j
      BY <2>4
  <2>7. ASSUME NEW p \in Publishes, p # q
        PROVE  /\ Lies(p, s)' = {} <=> Lies(p, s) = {}
               /\ (\A i, j \in Lies(p, s) : i = j) => \A i, j \in Lies(p, s)' : i = j
    <3>1. \A i \in Lies(p, s)' : i \in Nat /\ i - 1 \in Lies(p, s)
        BY <2>3, <2>4, <2>7
    <3> QED
        BY <3>1, <2>5
  <2> QED
      BY <1>2, <2>3, <2>6, <2>7
<1> QED
    BY <1>3, <1>4

\* A slot's deque is emptied.
LEMMA LiesEmptied ==
    ASSUME pendingPublishes \in [Slots -> Seq(Publishes)], NEW s \in Slots,
           pendingPublishes' = [pendingPublishes EXCEPT ![s] = <<>>]
    PROVE  \A p \in Publishes : /\ Lies(p, s)' = {}
                                 /\ \A t \in Slots : t # s => Lies(p, t)' = Lies(p, t)
BY DEF Lies

\* A task that is not a publish's goes into the loop, or none does.
LEMMA OthersPlace ==
    ASSUME TypeOK, TypedTasks, PlaceInv, Next, ~RunsTask, ~PublishQueue,
           ~\E q \in Publishes : Publish(q)
    PROVE  PlaceInv'
<1> SUFFICES ASSUME NEW p \in Publishes PROVE Placed(p)'
    BY DEF PlaceInv
<1>0. Placed(p) /\ loop \in Seq(Tasks)
    BY DEF PlaceInv, TypeOK
<1>1. UNCHANGED <<publishVars, pendingPublishes>>
    BY DEF Next, MainSteps, LoopSteps, RunsTask, StartBegin, InitializeSlots, StartSlot,
           StopSlot, ForEachSlot, StopBegin, ConnectSlot, Subscribe, SubscribeGoesOn,
           SubscribeChecks, SubscribeQueues, TimerFires, AmqpReady, AmqpFails, ChannelFails,
           Callback
<1>2. UNCHANGED <<requested, rejected, published, dropped>> /\ \A s \in Slots : Lies(p, s)' = Lies(p, s)
    BY <1>1 DEF publishVars, Lies
<1>3. Called(p)' <=> Called(p)
  <2>1. doing' = doing \/ (doing.at # "publish" /\ doing'.at # "publish")
    <3>1. CASE ConnectSlot \/ \E s \in Slots : TimerFires(s)
        BY <3>1 DEF ConnectSlot, TimerFires, Idle
    <3>2. CASE ~(ConnectSlot \/ \E s \in Slots : TimerFires(s))
        BY <3>2 DEF Next, MainSteps, LoopSteps, RunsTask, StartBegin, InitializeSlots,
              StartSlot, StopSlot, ForEachSlot, StopBegin, Subscribe, SubscribeGoesOn,
              SubscribeChecks, SubscribeQueues, AmqpReady, AmqpFails, ChannelFails, Callback
    <3> QED
        BY <3>1, <3>2
  <2> QED
      BY <2>1 DEF Called
<1>4. TasksOf(p)' = TasksOf(p)
  <2>1. ASSUME NEW task \in Tasks, loop' = Append(loop, task), task.kind # "publish"
        PROVE  TasksOf(p)' = TasksOf(p)
      BY <1>0, <2>1, TasksGiven
  <2>2. CASE loop' = loop
      BY <2>2 DEF TasksOf
  <2>3. CASE StartSlot \/ StopSlot
    <3>1. PICK kind \in Kinds : loop' = Append(loop, Task(kind, mi))
        BY <2>3 DEF StartSlot, StopSlot, ForEachSlot, Kinds
    <3>2. Task(kind, mi) \in Tasks /\ Task(kind, mi).kind = kind /\ kind # "publish"
        BY TaskTypes DEF TypeOK, Kinds
    <3> QED
        BY <2>1, <3>1, <3>2
  <2>4. CASE ConnectSlot
    <3>1. Task("connect", doing.slot) \in Tasks /\ Task("connect", doing.slot).kind = "connect"
        BY TaskTypes DEF TypeOK, Kinds
    <3> QED
        BY <2>1, <2>4, <3>1 DEF ConnectSlot
  <2>5. ASSUME NEW t \in Topics, Subscribe(t) \/ SubscribeGoesOn(t)
        PROVE  TasksOf(p)' = TasksOf(p)
    <3> DEFINE task == [kind |-> "consumer", slot |-> SlotOf[t], what |-> t]
    <3>1. task \in Tasks /\ task.kind = "consumer" /\ (loop' = Append(loop, task) \/ loop' = loop)
        BY <2>5, TopicsAssumption DEF Subscribe, SubscribeGoesOn, SubscribeChecks,
              SubscribeQueues, Tasks
    <3> QED
        BY <2>1, <2>2, <3>1
  <2>6. ASSUME NEW s \in Slots, AmqpReady(s) PROVE TasksOf(p)' = TasksOf(p)
    <3>1. Task("ready", s) \in Tasks /\ Task("ready", s).kind = "ready"
        BY TaskTypes DEF Kinds
    <3>2. loop' = Append(loop, Task("ready", s))
        BY <1>0, <2>6, <3>1 DEF AmqpReady, Callback
    <3> QED
        BY <2>1, <3>1, <3>2
  <2>7. ASSUME NEW s \in Slots, AmqpFails(s) \/ ChannelFails(s) PROVE TasksOf(p)' = TasksOf(p)
    <3>1. PICK n \in 1 .. MaxReports : loop' = loop \o [i \in 1 .. n |-> Task("failure", s)]
        BY <2>7 DEF AmqpFails, ChannelFails, Callback
    <3>2. /\ DOMAIN loop \subseteq DOMAIN loop'
          /\ \A i \in DOMAIN loop : loop'[i] = loop[i]
          /\ \A i \in DOMAIN loop' \ DOMAIN loop : loop'[i] = Task("failure", s)
        BY <1>0, <3>1, ReportFacts
    <3>3. Task("failure", s).kind # "publish"
        BY DEF Task
    <3>4. ASSUME NEW i \in TasksOf(p) PROVE i \in TasksOf(p)'
      <4>1. i \in DOMAIN loop /\ loop[i].kind = "publish" /\ loop[i].what = p
          BY <3>4 DEF TasksOf
      <4>2. i \in DOMAIN loop' /\ loop'[i] = loop[i]
          BY <3>2, <4>1
      <4> QED
          BY <4>1, <4>2 DEF TasksOf
    <3>5. ASSUME NEW i \in TasksOf(p)' PROVE i \in TasksOf(p)
      <4>1. i \in DOMAIN loop' /\ loop'[i].kind = "publish" /\ loop'[i].what = p
          BY <3>5 DEF TasksOf
      <4>2. i \in DOMAIN loop /\ loop'[i] = loop[i]
          BY <3>2, <3>3, <4>1
      <4> QED
          BY <4>1, <4>2 DEF TasksOf
    <3> QED
        BY <3>4, <3>5
  <2>8. CASE StartBegin \/ InitializeSlots \/ StopBegin \/ \E s \in Slots : TimerFires(s)
      BY <2>2, <2>8 DEF StartBegin, InitializeSlots, StopBegin, TimerFires
  <2> QED
      BY <2>3, <2>4, <2>5, <2>6, <2>7, <2>8 DEF Next, MainSteps, LoopSteps, RunsTask
<1>5. \A i, j \in TasksOf(p)' : i = j
    BY <1>0, <1>4 DEF Placed
<1> QED
    BY <1>0, <1>2, <1>3, <1>4, <1>5, PlaceSame

\* The call of publish, which rejects it or goes on to queue its task.
LEMMA CallPlace ==
    ASSUME TypeOK, TypedTasks, PlaceInv, PublishQueue \/ \E q \in Publishes : Publish(q)
    PROVE  PlaceInv'
<1> SUFFICES ASSUME NEW p \in Publishes PROVE Placed(p)'
    BY DEF PlaceInv
<1>0. Placed(p) /\ loop \in Seq(Tasks)
    BY DEF PlaceInv, TypeOK
<1>1. ASSUME NEW q \in Publishes, Publish(q) PROVE Placed(p)'
  <2>1. /\ TasksOf(p)' = TasksOf(p) /\ UNCHANGED <<published, dropped>>
        /\ \A s \in Slots : Lies(p, s)' = Lies(p, s)
        /\ q \notin requested /\ requested' = requested \cup {q} /\ ~Called(p)
        /\ \/ rejected' = rejected \cup {q} /\ ~Called(p)'
           \/ rejected' = rejected /\ (Called(p)' <=> p = q)
      BY <1>1 DEF Publish, PublishRejected, PublishAccepted, TasksOf, Lies, Called, Idle
  <2>2. Waits(p)' <=> Waits(p)
      BY <2>1 DEF Waits
  <2>3. /\ \A i, j \in TasksOf(p)' : i = j
        /\ \A s, t \in Slots : \A i \in Lies(p, s)', j \in Lies(p, t)' : s = t /\ i = j
      BY <1>0, <2>1 DEF Placed
  <2>4. CASE p = q
    <3>1. TasksOf(p) = {} /\ ~Waits(p) /\ published[p] = 0 /\ p \notin rejected /\ p \notin dropped
        BY <1>0, <2>1, <2>4 DEF Placed
    <3> QED
        BY <2>1, <2>2, <2>3, <2>4, <3>1 DEF Placed
  <2>5. CASE p # q
      BY <1>0, <2>1, <2>3, <2>5, PlaceSame
  <2> QED
      BY <2>4, <2>5
<1>2. CASE PublishQueue
  <2> DEFINE task == [kind |-> "publish", slot |-> doing.slot, what |-> doing.what]
  <2>1. task \in Tasks /\ task.kind = "publish" /\ task.what = doing.what /\ loop' = Append(loop, task)
      BY <1>2 DEF PublishQueue, TypeOK, Tasks
  <2>2. /\ UNCHANGED <<requested, rejected, published, dropped>>
        /\ \A s \in Slots : Lies(p, s)' = Lies(p, s)
        /\ ~Called(p)' /\ (Called(p) <=> p = doing.what)
      BY <1>2 DEF PublishQueue, publishVars, Lies, Called, Idle
  <2>3. Waits(p)' <=> Waits(p)
      BY <2>2 DEF Waits
  <2>4. CASE p = doing.what
    <3>1. /\ TasksOf(p) = {} /\ ~Waits(p) /\ published[p] = 0 /\ p \notin rejected
          /\ p \notin dropped /\ p \in requested
        BY <1>0, <2>2, <2>4 DEF Placed
    <3>2. TasksOf(p)' = {Len(loop) + 1}
        BY <1>0, <2>1, <2>4, <3>1, TasksGiven
    <3>3. \A s, t \in Slots : \A i \in Lies(p, s)', j \in Lies(p, t)' : s = t /\ i = j
        BY <1>0, <2>2 DEF Placed
    <3> QED
        BY <2>2, <2>3, <3>1, <3>2, <3>3 DEF Placed
  <2>5. CASE p # doing.what
    <3>1. TasksOf(p)' = TasksOf(p)
        BY <1>0, <2>1, <2>5, TasksGiven
    <3>2. \A i, j \in TasksOf(p)' : i = j
        BY <1>0, <3>1 DEF Placed
    <3> QED
        BY <1>0, <2>2, <2>5, <3>1, <3>2, PlaceSame
  <2> QED
      BY <2>4, <2>5
<1> QED
    BY <1>1, <1>2

\* A deque that is flushed or thrown away takes the publish with it, if it is there.
LEMMA EmptiedPlace ==
    ASSUME TypeOK, NEW p \in Publishes, Placed(p), NEW s \in Slots,
           pendingPublishes' = [pendingPublishes EXCEPT ![s] = <<>>],
           \A i, j \in TasksOf(p)' : i = j, TasksOf(p)' = {} <=> TasksOf(p) = {},
           UNCHANGED <<requested, rejected>>, Called(p)' <=> Called(p),
           \/ /\ published'[p] = IF Lies(p, s) = {} THEN published[p] ELSE published[p] + 1
              /\ dropped' = dropped
           \/ /\ published' = published
              /\ p \in dropped' <=> p \in dropped \/ Lies(p, s) # {}
    PROVE  Placed(p)'
<1>1. Lies(p, s)' = {} /\ \A t \in Slots : t # s => Lies(p, t)' = Lies(p, t)
    BY LiesEmptied DEF TypeOK
<1>2. CASE Lies(p, s) = {}
  <2>1. \A t \in Slots : Lies(p, t)' = Lies(p, t)
      BY <1>1, <1>2
  <2> QED
      BY <1>2, <2>1, PlaceSame
<1>3. CASE Lies(p, s) # {}
  <2>1. \A t \in Slots : Lies(p, t)' = {}
      BY <1>1, <1>3 DEF Placed
  <2>2. Waits(p) /\ ~Waits(p)'
      BY <1>3, <2>1 DEF Waits
  <2>3. /\ TasksOf(p) = {} /\ published[p] = 0 /\ p \notin rejected /\ p \notin dropped
        /\ ~Called(p) /\ p \in requested
      BY <2>2 DEF Placed
  <2>4. (published'[p] = 1 /\ p \notin dropped') \/ (published'[p] = 0 /\ p \in dropped')
      BY <1>3, <2>3
  <2>5. \A t, u \in Slots : \A i \in Lies(p, t)', j \in Lies(p, u)' : t = u /\ i = j
      BY <2>1
  <2> QED
      BY <2>2, <2>3, <2>4, <2>5 DEF Placed
<1> QED
    BY <1>2, <1>3

\* The task of publish q sends it or puts it into the slot's deque.
LEMMA PublishPlace ==
    ASSUME TypeOK, TypedTasks, PlaceInv, RunPublish
    PROVE  PlaceInv'
<1>1. /\ loop # <<>> /\ loop' = Tail(loop) /\ doing' = doing /\ loop \in Seq(Tasks)
      /\ Head(loop).kind = "publish"
    BY DEF RunPublish, Run, TypeOK
<1>p. Head(loop).slot \in Slots /\ Head(loop).what \in Publishes
    BY <1>1, RunTypes
<1>s. PICK s \in Slots : s = Head(loop).slot
    BY <1>p
<1>q. PICK q \in Publishes : q = Head(loop).what
    BY <1>p
<1>2. pendingPublishes \in [Slots -> Seq(Publishes)]
    BY DEF TypeOK
<1>3. UNCHANGED <<requested, rejected, dropped>>
    BY DEF RunPublish
<1>4. \/ published' = [published EXCEPT ![q] = @ + 1] /\ pendingPublishes' = pendingPublishes
      \/ /\ published' = published
         /\ \/ pendingPublishes' = [pendingPublishes EXCEPT ![s] = Append(@, q)]
            \/ pendingPublishes' = [pendingPublishes EXCEPT ![s] = <<q>> \o @]
    BY <1>s, <1>q DEF RunPublish, PublishWaits, PublishOnChannel
<1> SUFFICES ASSUME NEW p \in Publishes PROVE Placed(p)'
    BY DEF PlaceInv
<1>5. Placed(p) /\ (Called(p)' <=> Called(p)) /\ published \in [Publishes -> Nat]
    BY <1>1 DEF PlaceInv, Called, TypeOK
<1>6. \A i, j \in TasksOf(p) : i = j
    BY <1>5 DEF Placed
<1>7. /\ \A i, j \in TasksOf(p)' : i = j
      /\ p = q => TasksOf(p) # {} /\ TasksOf(p)' = {}
      /\ p # q => (TasksOf(p)' = {} <=> TasksOf(p) = {})
    BY <1>1, <1>q, <1>6, TasksTaken
<1>8. CASE pendingPublishes' = pendingPublishes /\ published' = [published EXCEPT ![q] = @ + 1]
  <2>1. \A t \in Slots : Lies(p, t)' = Lies(p, t)
      BY <1>8 DEF Lies
  <2>2. CASE p = q
    <3>1. /\ ~Waits(p) /\ published[p] = 0 /\ p \notin rejected /\ p \notin dropped
          /\ ~Called(p) /\ p \in requested
        BY <1>5, <1>7, <2>2 DEF Placed
    <3>2. published'[p] = 1
        BY <1>5, <1>8, <2>2, <3>1
    <3>3. ~Waits(p)'
        BY <2>1, <3>1 DEF Waits
    <3>4. \A t, u \in Slots : \A i \in Lies(p, t)', j \in Lies(p, u)' : t = u /\ i = j
        BY <1>5, <2>1 DEF Placed
    <3> QED
        BY <1>3, <1>5, <1>7, <2>2, <3>1, <3>2, <3>3, <3>4 DEF Placed
  <2>3. CASE p # q
    <3>1. published'[p] = published[p]
        BY <1>2, <1>5, <1>8, <2>3
    <3> QED
        BY <1>3, <1>5, <1>7, <2>1, <2>3, <3>1, PlaceSame
  <2> QED
      BY <2>2, <2>3
<1>9. CASE /\ published' = published
           /\ \/ pendingPublishes' = [pendingPublishes EXCEPT ![s] = Append(@, q)]
              \/ pendingPublishes' = [pendingPublishes EXCEPT ![s] = <<q>> \o @]
  <2>1. /\ Lies(q, s)' # {}
        /\ Lies(q, s) = {} => \A i, j \in Lies(q, s)' : i = j
        /\ p # q => /\ Lies(p, s)' = {} <=> Lies(p, s) = {}
                    /\ (\A i, j \in Lies(p, s) : i = j) => \A i, j \in Lies(p, s)' : i = j
        /\ \A t \in Slots : t # s => Lies(p, t)' = Lies(p, t)
      BY <1>2, <1>9, LiesAdded
  <2>2. CASE p = q
    <3>1. /\ ~Waits(p) /\ published[p] = 0 /\ p \notin rejected /\ p \notin dropped
          /\ ~Called(p) /\ p \in requested
        BY <1>5, <1>7, <2>2 DEF Placed
    <3>2. \A t \in Slots : Lies(p, t) = {}
        BY <3>1 DEF Waits
    <3>3. Waits(p)'
        BY <1>2, <2>1, <2>2 DEF Waits
    <3>4. \A t, u \in Slots : \A i \in Lies(p, t)', j \in Lies(p, u)' : t = u /\ i = j
        BY <1>2, <2>1, <2>2, <3>2
    <3> QED
        BY <1>3, <1>5, <1>7, <1>9, <2>2, <3>1, <3>3, <3>4 DEF Placed
  <2>3. CASE p # q
    <3>1. \A t \in Slots : \A i, j \in Lies(p, t) : i = j
        BY <1>5 DEF Placed
    <3>2. /\ \A t \in Slots : Lies(p, t)' = {} <=> Lies(p, t) = {}
          /\ \A t \in Slots : \A i, j \in Lies(p, t)' : i = j
        BY <1>2, <2>1, <2>3, <3>1
    <3> QED
        BY <1>3, <1>5, <1>7, <1>9, <2>3, <3>2, PlaceKept
  <2> QED
      BY <2>2, <2>3
<1> QED
    BY <1>4, <1>8, <1>9

LEMMA PlaceStep ==
    ASSUME TypeOK, TypedTasks, PlaceInv, Next
    PROVE  PlaceInv'
<1>1. CASE RunConnect \/ RunReady \/ RunFailure \/ RunStop \/ RunConsumer
  <2> SUFFICES ASSUME NEW p \in Publishes PROVE Placed(p)'
      BY DEF PlaceInv
  <2>1. /\ loop # <<>> /\ loop' = Tail(loop) /\ doing' = doing /\ loop \in Seq(Tasks)
        /\ Head(loop).kind # "publish"
      BY <1>1 DEF RunConnect, RunReady, RunFailure, RunStop, RunConsumer, Run, TypeOK
  <2>p. Head(loop).slot \in Slots
      BY <2>1, RunTypes
  <2>s. PICK s \in Slots : s = Head(loop).slot
      BY <2>p
  <2>2. pendingPublishes \in [Slots -> Seq(Publishes)]
      BY DEF TypeOK
  <2>3. Placed(p) /\ (Called(p)' <=> Called(p)) /\ UNCHANGED <<requested, rejected>>
      BY <1>1, <2>1 DEF PlaceInv, Called, RunConnect, RunReady, RunFailure, RunStop, RunConsumer,
                        publishVars
  <2>4. \A i, j \in TasksOf(p) : i = j
      BY <2>3 DEF Placed
  <2>5. (\A i, j \in TasksOf(p)' : i = j) /\ (TasksOf(p)' = {} <=> TasksOf(p) = {})
      BY <2>1, <2>4, TasksTaken
  <2>6. CASE UNCHANGED <<pendingPublishes, published, dropped>>
    <3>1. \A t \in Slots : Lies(p, t)' = Lies(p, t)
        BY <2>6 DEF Lies
    <3> QED
        BY <2>3, <2>5, <2>6, <3>1, PlaceSame
  <2>7. CASE RunConnect \/ RunFailure \/ RunConsumer
    <3>1. UNCHANGED <<pendingPublishes, published, dropped>>
        BY <2>7 DEF RunConnect, RunFailure, RunConsumer, publishVars
    <3> QED
        BY <2>6, <3>1
  <2>8. CASE RunReady
    <3>1. dropped' = dropped
        BY <2>8 DEF RunReady
    <3>2. CASE RebuildOnNothing(s)
        BY <2>6, <3>1, <3>2 DEF RebuildOnNothing
    <3>3. CASE RebuildAndFlush(s)
      <4>1. /\ pendingPublishes' = [pendingPublishes EXCEPT ![s] = <<>>]
            /\ published'[p] = published[p] + Cardinality(Lies(p, s))
          BY <3>3 DEF RebuildAndFlush, Lies
      <4>2. Cardinality(Lies(p, s)) = IF Lies(p, s) = {} THEN 0 ELSE 1
        <5>1. CASE Lies(p, s) = {}
            BY <5>1, FS_EmptySet
        <5>2. CASE Lies(p, s) # {}
          <6>1. PICK i \in Lies(p, s) : TRUE
              BY <5>2
          <6>2. Lies(p, s) = {i}
              BY <2>3, <6>1 DEF Placed
          <6> QED
              BY <6>2, FS_Singleton
        <5> QED
            BY <5>1, <5>2
      <4>3. published'[p] = IF Lies(p, s) = {} THEN published[p] ELSE published[p] + 1
        <5>1. published[p] \in Nat
            BY DEF TypeOK
        <5> QED
            BY <4>1, <4>2, <5>1
      <4> QED
          BY <2>2, <2>3, <2>5, <3>1, <4>1, <4>3, EmptiedPlace
    <3> QED
        BY <2>8, <2>s, <3>2, <3>3 DEF RunReady
  <2>9. CASE RunStop
    <3>1. /\ pendingPublishes' = [pendingPublishes EXCEPT ![s] = <<>>] /\ published' = published
          /\ dropped' = dropped \cup {pendingPublishes[s][i] : i \in DOMAIN pendingPublishes[s]}
        BY <2>9, <2>s DEF RunStop
    <3>2. p \in dropped' <=> p \in dropped \/ Lies(p, s) # {}
        BY <3>1 DEF Lies
    <3> QED
        BY <2>2, <2>3, <2>5, <3>1, <3>2, EmptiedPlace
  <2> QED
      BY <1>1, <2>7, <2>8, <2>9
<1>2. CASE RunPublish
    BY <1>2, PublishPlace
<1>3. CASE ~RunsTask
    BY <1>3, OthersPlace, CallPlace
<1> QED
    BY <1>1, <1>2, <1>3 DEF RunsTask

-----------------------------------------------------------------------------
(* The invariant.                                                           *)

LEMMA InitInv == Init => BrokerInv
<1> SUFFICES ASSUME Init PROVE BrokerInv
    OBVIOUS
<1>1. NumSlots \in Nat \ {0} /\ Slots = 0 .. NumSlots - 1 /\ 0 \in Slots
    BY Numbers
<1>2. TypeOK
  <2>1. 1 \in 1 .. MaxDelay /\ 0 \in Channels
      BY DelayAssumption, ChannelsAssumption DEF Channels
  <2>2. <<>> \in Seq(Publishes) /\ <<>> \in Seq(Tasks)
      OBVIOUS
  <2> QED
      BY <1>1, <2>1, <2>2 DEF Init, TypeOK, Idle
<1>3. TypedTasks
    BY DEF Init, TypedTasks, Idle
<1>4. CountInv
  <2>1. Waiting = {}
      BY DEF Init, Waiting
  <2> QED
      BY <2>1, FS_EmptySet DEF Init, CountInv
<1>5. FlagInv /\ WaitsForReady
    BY DEF Init, FlagInv, WaitsForReady
<1>6. \A kind \in Kinds, s \in Slots : Queued(kind, s) = {}
    BY DEF Init, Queued
<1>7. ReconnectInv
    BY <1>6 DEF Init, ReconnectInv, Reconnects, Reconnecting, Fresh, Calling, Idle, Kinds
<1>8. MainInv
    BY <1>6 DEF Init, MainInv, Kinds
<1>9. UnderWayInv
    BY DEF Init, UnderWayInv
<1>10. PlaceInv
    BY DEF Init, PlaceInv, Placed, Waits, Lies, Called, TasksOf, Idle
<1> QED
    BY <1>2, <1>3, <1>4, <1>5, <1>7, <1>8, <1>9, <1>10 DEF BrokerInv

LEMMA SameInv ==
    ASSUME BrokerInv, UNCHANGED vars
    PROVE  BrokerInv'
<1>1. UNCHANGED <<slotFlags, channelVars, amqpVars, mainVars, publishVars, subscriptions_,
                  subscribing, pendingPublishes, loop, timers, doing, loopLost>>
    BY DEF vars
<1>2. TypeOK' /\ TypedTasks'
    BY <1>1 DEF BrokerInv, TypeOK, TypedTasks, slotFlags, channelVars, amqpVars, mainVars,
                publishVars
<1>3. CountInv'
    BY <1>1 DEF BrokerInv, CountInv, Waiting, publishVars
<1>4. \A kind, s : Queued(kind, s)' = Queued(kind, s)
    BY <1>1 DEF Queued
<1>5. FlagInv' /\ WaitsForReady'
    BY <1>1, <1>4 DEF BrokerInv, FlagInv, WaitsForReady, slotFlags, channelVars, amqpVars
<1>6. MainInv'
    BY <1>1, <1>4 DEF BrokerInv, MainInv, mainVars
<1>7. ReconnectInv'
    BY <1>1, <1>4 DEF BrokerInv, ReconnectInv, Reconnects, Reconnecting, Fresh, Calling,
                      slotFlags, amqpVars, mainVars
<1>8. UnderWayInv'
    BY <1>1, <1>4 DEF BrokerInv, UnderWayInv, UnderWay, Calling, slotFlags, amqpVars, mainVars
<1>9. PlaceInv'
    BY <1>1 DEF BrokerInv, PlaceInv, Placed, Waits, Lies, Called, TasksOf, publishVars
<1> QED
    BY <1>2, <1>3, <1>5, <1>6, <1>7, <1>8, <1>9 DEF BrokerInv

LEMMA BrokerStep ==
    ASSUME BrokerInv, Next
    PROVE  BrokerInv'
<1>1. /\ TypeOK /\ TypedTasks /\ CountInv /\ FlagInv /\ ReconnectInv /\ MainInv
      /\ UnderWayInv /\ WaitsForReady /\ PlaceInv
    BY DEF BrokerInv
<1>2. TypeOK' /\ TypedTasks' /\ CountInv'
    BY <1>1, TypeStep
<1>3. FlagInv' /\ MainInv' /\ ReconnectInv' /\ UnderWayInv' /\ WaitsForReady' /\ PlaceInv'
    BY <1>1, FlagStep, MainStep, ReconnectStep, UnderWayStep, WaitsStep, PlaceStep
<1> QED
    BY <1>2, <1>3 DEF BrokerInv

LEMMA BrokerInvariant == Spec => []BrokerInv
<1>1. Init => BrokerInv
    BY InitInv
<1>2. BrokerInv /\ [Next]_vars => BrokerInv'
    BY BrokerStep, SameInv
<1> QED
    BY <1>1, <1>2, PTL DEF Spec

-----------------------------------------------------------------------------
(* The theorems.                                                            *)

\* The variables of the broker keep their types, for any number of slots, channels,
\* publishes, topics and faults; the backoff stays within its limit.
THEOREM BrokerTypeCorrect == Spec => []TypeOK
<1>1. BrokerInv => TypeOK
    BY DEF BrokerInv
<1> QED
    BY <1>1, BrokerInvariant, PTL

LEMMA CountIsExact ==
    ASSUME BrokerInv
    PROVE  QueuedCountExact
<1>1. pendingPublishes \in [Slots -> Seq(Publishes)]
    BY DEF BrokerInv, TypeOK
<1>2. \A s \in Slots : \A i \in DOMAIN pendingPublishes[s] : pendingPublishes[s][i] \in Publishes
    BY <1>1
<1>3. UNION {WaitingOf(p) : p \in Publishes} = Waiting
  <2>1. \A x \in UNION {WaitingOf(p) : p \in Publishes} : x \in Waiting
      BY DEF WaitingOf, Waiting
  <2>2. ASSUME NEW x \in Waiting PROVE x \in UNION {WaitingOf(p) : p \in Publishes}
    <3>1. PICK s \in Slots : x \in {s} \X DOMAIN pendingPublishes[s]
        BY <2>2 DEF Waiting
    <3>2. PICK i \in DOMAIN pendingPublishes[s] : x = <<s, i>>
        BY <3>1
    <3>3. x \in WaitingOf(pendingPublishes[s][i])
        BY <3>2 DEF WaitingOf
    <3> QED
        BY <1>2, <3>3
  <2> QED
      BY <2>1, <2>2
<1> QED
    BY <1>3 DEF BrokerInv, CountInv, QueuedCountExact

\* The counter that /messaging/status reports is the number of publishes in the deques.
THEOREM CountsQueued == Spec => []QueuedCountExact
<1>1. BrokerInv => QueuedCountExact
    BY CountIsExact
<1> QED
    BY <1>1, BrokerInvariant, PTL

\* A slot that says ready can be published on, or is about to hear why not.
THEOREM ReadyTruly == Spec => []ReadyIsTrue
<1>1. BrokerInv => ReadyIsTrue
    BY DEF BrokerInv, FlagInv, ReadyIsTrue
<1> QED
    BY <1>1, BrokerInvariant, PTL

\* No publish waits for a slot that works: nothing would look at its deque.
THEOREM NothingStuck == Spec => []WaitsForReady
<1>1. BrokerInv => WaitsForReady
    BY DEF BrokerInv
<1> QED
    BY <1>1, BrokerInvariant, PTL

LEMMA ReconnectIsOne ==
    ASSUME BrokerInv
    PROVE  OneReconnect
<1> SUFFICES ASSUME NEW s \in Slots
             PROVE  timers[s] + Cardinality(Queued("connect", s))
                      + Truth(doing.at = "reconnect" /\ doing.slot = s) <= 1
    BY DEF OneReconnect
<1>1. Reconnects(s)
    BY DEF BrokerInv, ReconnectInv
<1>2. Cardinality(Queued("connect", s)) = IF Queued("connect", s) = {} THEN 0 ELSE 1
  <2>1. CASE Queued("connect", s) = {}
      BY <2>1, FS_EmptySet
  <2>2. CASE Queued("connect", s) # {}
    <3>1. PICK i : Queued("connect", s) = {i}
        BY <1>1, <2>2 DEF Reconnects
    <3> QED
        BY <3>1, FS_Singleton
  <2> QED
      BY <2>1, <2>2
<1>3. Truth(doing.at = "reconnect" /\ doing.slot = s) = IF Calling(s) THEN 1 ELSE 0
    BY DEF Truth, Calling
<1> QED
    BY <1>1, <1>2, <1>3 DEF Reconnects

\* However often a lost connection is reported, one reconnect is on its way.
THEOREM ReconnectsOnce == Spec => []OneReconnect
<1>1. BrokerInv => OneReconnect
    BY ReconnectIsOne
<1> QED
    BY <1>1, BrokerInvariant, PTL

\* While the broker runs, every slot works or something that reconnects it is on its way.
THEOREM NoSlotForgotten == Spec => []ReconnectUnderWay
<1>1. BrokerInv => ReconnectUnderWay
    BY DEF BrokerInv, UnderWayInv, UnderWay, Calling, ReconnectUnderWay
<1> QED
    BY <1>1, BrokerInvariant, PTL

LEMMA PlaceIsOne ==
    ASSUME BrokerInv
    PROVE  ExactlyOnePlace
<1> SUFFICES ASSUME NEW p \in Publishes PROVE Places(p) = Truth(p \in requested)
    BY DEF ExactlyOnePlace
<1>1. Placed(p)
    BY DEF BrokerInv, PlaceInv
<1>2. Cardinality(TasksOf(p)) = IF TasksOf(p) = {} THEN 0 ELSE 1
  <2>1. CASE TasksOf(p) = {}
      BY <2>1, FS_EmptySet
  <2>2. CASE TasksOf(p) # {}
    <3>1. PICK i \in TasksOf(p) : TRUE
        BY <2>2
    <3>2. TasksOf(p) = {i}
        BY <1>1, <3>1 DEF Placed
    <3> QED
        BY <3>2, FS_Singleton
  <2> QED
      BY <2>1, <2>2
<1>3. Cardinality(WaitingOf(p)) = IF Waits(p) THEN 1 ELSE 0
  <2>1. \A x \in WaitingOf(p) : \E s \in Slots : \E i \in Lies(p, s) : x = <<s, i>>
      BY DEF WaitingOf, Lies
  <2>2. \A s \in Slots : \A i \in Lies(p, s) : <<s, i>> \in WaitingOf(p)
      BY DEF WaitingOf, Lies
  <2>3. CASE ~Waits(p)
    <3>1. WaitingOf(p) = {}
        BY <2>1, <2>3 DEF Waits
    <3> QED
        BY <2>3, <3>1, FS_EmptySet
  <2>4. CASE Waits(p)
    <3>1. PICK s \in Slots : Lies(p, s) # {}
        BY <2>4 DEF Waits
    <3>2. PICK i \in Lies(p, s) : TRUE
        BY <3>1
    <3>3. \A x \in WaitingOf(p) : x = <<s, i>>
        BY <1>1, <2>1, <3>2 DEF Placed
    <3>4. <<s, i>> \in WaitingOf(p)
        BY <2>2, <3>2
    <3>5. WaitingOf(p) = {<<s, i>>}
        BY <3>3, <3>4
    <3> QED
        BY <2>4, <3>5, FS_Singleton
  <2> QED
      BY <2>3, <2>4
<1>4. Truth(doing.at = "publish" /\ doing.what = p) = IF Called(p) THEN 1 ELSE 0
    BY DEF Truth, Called
<1> QED
    BY <1>1, <1>2, <1>3, <1>4 DEF Placed, Places, Truth

\* A publish is on its way, waits, went out once, was rejected or was thrown away by
\* stop, and only one of these, whatever fails in between.
THEOREM NeitherLostNorRepeated == Spec => []ExactlyOnePlace
<1>1. BrokerInv => ExactlyOnePlace
    BY PlaceIsOne
<1> QED
    BY <1>1, BrokerInvariant, PTL

-----------------------------------------------------------------------------
(* The broker implements the publish service.                               *)

\* What the place of a publish means to its caller.
LEMMA OutcomeIs ==
    ASSUME NEW p \in Publishes, Placed(p)
    PROVE  /\ Outcome(p) = "new" <=> p \notin requested
           /\ p \in rejected => Outcome(p) = "rejected"
           /\ published[p] = 1 => Outcome(p) = "sent"
           /\ p \in dropped => Outcome(p) = "dropped"
           /\ TasksOf(p) # {} \/ Waits(p) \/ Called(p) => Outcome(p) = "accepted"
BY DEF Outcome, Placed

LEMMA PhaseIs ==
    ASSUME MainInv
    PROVE  /\ Phase = "open" <=> started_ /\ slots_ # {}
           /\ Phase = "stopped" <=> main \in {"stop", "stopped"}
           /\ Phase \in {"open", "stopped", "closed"}
BY DEF MainInv, Phase

\* start and stop: the outcomes stay.
LEMMA MainServes ==
    ASSUME TypeOK, MainInv, MainInv',
           StartBegin \/ InitializeSlots \/ StartSlot \/ StopBegin \/ StopSlot
    PROVE  Service!Open \/ Service!Stop \/ UNCHANGED Service!vars
<1>1. [p \in Publishes |-> Outcome(p)]' = [p \in Publishes |-> Outcome(p)]
  <2>1. UNCHANGED <<requested, rejected, published, dropped>>
      BY DEF StartBegin, InitializeSlots, StartSlot, StopBegin, StopSlot, ForEachSlot, publishVars
  <2> QED
      BY <2>1 DEF Outcome
<1>2. CASE StartBegin
  <2>1. Phase = "closed" /\ Phase' = "closed"
      BY <1>2 DEF StartBegin, MainInv, Phase
  <2> QED
      BY <1>1, <2>1 DEF Service!vars
<1>3. CASE InitializeSlots
  <2>1. Phase = "closed" /\ Phase' = "open"
      BY <1>3, SlotsAssumption DEF InitializeSlots, MainInv, Phase
  <2> QED
      BY <1>1, <2>1 DEF Service!Open
<1>4. CASE StopBegin
  <2>1. Phase = "open" /\ Phase' = "stopped"
      BY <1>4 DEF StopBegin, MainInv, Phase
  <2> QED
      BY <1>1, <2>1 DEF Service!Stop
<1>5. CASE StartSlot
  <2>1. Phase = "open" /\ Phase' = "open"
      BY <1>5 DEF StartSlot, ForEachSlot, MainInv, Phase
  <2> QED
      BY <1>1, <2>1 DEF Service!vars
<1>6. CASE StopSlot
  <2>1. Phase = "stopped" /\ Phase' = "stopped"
      BY <1>6 DEF StopSlot, ForEachSlot, MainInv, Phase
  <2> QED
      BY <1>1, <2>1 DEF Service!vars
<1> QED
    BY <1>2, <1>3, <1>4, <1>5, <1>6

\* The tasks: a flush and a publish send, stop throws away.
LEMMA TaskServes ==
    ASSUME BrokerInv, BrokerInv', RunsTask
    PROVE  \/ \E S \in SUBSET Service!Accepted : Service!Send(S) \/ Service!Drop(S)
           \/ UNCHANGED Service!vars
<1>0. /\ TypeOK /\ TypedTasks /\ \A p \in Publishes : Placed(p) /\ Placed(p)'
    BY DEF BrokerInv, PlaceInv
<1>1. Phase' = Phase
  <2>1. UNCHANGED <<started_, slots_, main>>
      BY <1>0, TaskRuns
  <2> QED
      BY <2>1 DEF Phase
<1>2. UNCHANGED <<requested, rejected>> /\ published \in [Publishes -> Nat]
    BY <1>0 DEF RunsTask, RunConnect, RunReady, RunFailure, RunPublish, RunStop, RunConsumer,
                publishVars, TypeOK
<1>3. CASE UNCHANGED <<published, dropped>>
  <2>1. \A p \in Publishes : Outcome(p)' = Outcome(p)
      BY <1>2, <1>3 DEF Outcome
  <2> QED
      BY <1>1, <2>1 DEF Service!vars
\* A set of publishes that waited, or whose task ran, changes its outcome as one.
<1>4. ASSUME NEW S \in SUBSET Publishes, NEW what,
             \A p \in S : Outcome(p) = "accepted" /\ Outcome(p)' = what,
             \A p \in Publishes \ S : UNCHANGED <<published[p]>> /\ (p \in dropped' <=> p \in dropped)
      PROVE  S \in SUBSET Service!Accepted /\ Service!Becomes(S, what)
  <2>1. \A p \in Publishes \ S : Outcome(p)' = Outcome(p)
      BY <1>2, <1>4 DEF Outcome
  <2>2. S \in SUBSET Service!Accepted
      BY <1>4 DEF Service!Accepted
  <2>3. [p \in Publishes |-> Outcome(p)]' = [p \in Publishes |-> IF p \in S THEN what ELSE Outcome(p)]
      BY <1>4, <2>1
  <2> QED
      BY <1>1, <2>2, <2>3 DEF Service!Becomes
<1>p. Head(loop).slot \in Slots
    BY <1>0, TaskRuns
<1>s. PICK s \in Slots : s = Head(loop).slot
    BY <1>p
<1>5. CASE RunReady
  <2>1. CASE RebuildOnNothing(s)
    <3>1. UNCHANGED <<published, dropped>>
        BY <1>5, <2>1 DEF RunReady, RebuildOnNothing
    <3> QED
        BY <1>3, <3>1
  <2>2. CASE RebuildAndFlush(s)
    <3> DEFINE S == {p \in Publishes : Lies(p, s) # {}}
    <3>1. /\ dropped' = dropped
          /\ \A p \in Publishes : published'[p] = published[p] + Cardinality(Lies(p, s))
        BY <1>5, <2>2 DEF RunReady, RebuildAndFlush, Lies
    <3>2. ASSUME NEW p \in S PROVE Outcome(p) = "accepted" /\ Outcome(p)' = "sent"
      <4>1. PICK i \in Lies(p, s) : TRUE
          OBVIOUS
      <4>2. Lies(p, s) = {i} /\ Waits(p)
          BY <1>0, <4>1 DEF Placed, Waits
      <4>3. published[p] = 0 /\ Outcome(p) = "accepted"
          BY <1>0, <4>2, OutcomeIs DEF Placed
      <4>4. published'[p] = 1
        <5>1. Cardinality(Lies(p, s)) = 1
            BY <4>2, FS_Singleton
        <5>2. published'[p] = published[p] + Cardinality(Lies(p, s))
            BY <3>1
        <5> QED
            BY <4>3, <5>1, <5>2
      <4>5. p \in requested' /\ p \notin rejected'
          BY <1>0, <4>4 DEF Placed
      <4> QED
          BY <4>3, <4>4, <4>5 DEF Outcome
    <3>3. ASSUME NEW p \in Publishes \ S PROVE published'[p] = published[p]
      <4>1. Cardinality(Lies(p, s)) = 0
          BY FS_EmptySet
      <4> QED
          BY <1>2, <3>1, <4>1
    <3> HIDE DEF S
    <3>4. S \in SUBSET Publishes
        BY DEF S
    <3>5. S \in SUBSET Service!Accepted /\ Service!Becomes(S, "sent")
        BY <1>4, <3>1, <3>2, <3>3, <3>4
    <3> QED
        BY <3>5 DEF Service!Send
  <2> QED
      BY <1>5, <1>s, <2>1, <2>2 DEF RunReady
<1>6. CASE RunStop
  <2> DEFINE S == {p \in Publishes : Lies(p, s) # {}}
  <2>1. /\ published' = published /\ Head(loop).kind = "stop"
        /\ dropped' = dropped \cup {pendingPublishes[s][i] : i \in DOMAIN pendingPublishes[s]}
      BY <1>6, <1>s DEF RunStop, Run
  <2>2. \A p \in Publishes : p \in dropped' <=> p \in dropped \/ Lies(p, s) # {}
      BY <2>1 DEF Lies
  <2>3. ASSUME NEW p \in S PROVE Outcome(p) = "accepted" /\ Outcome(p)' = "dropped"
    <3>1. Waits(p) /\ p \in dropped'
        BY <2>2 DEF Waits
    <3>2. Outcome(p) = "accepted"
        BY <1>0, <3>1, OutcomeIs
    <3>3. p \in requested' /\ p \notin rejected' /\ published'[p] = 0
        BY <1>0, <3>1 DEF Placed
    <3> QED
        BY <3>1, <3>2, <3>3 DEF Outcome
  <2>4. Phase = "stopped"
    <3>1. Queued("stop", s) # {}
        BY <1>0, <1>s, <2>1, TaskRuns DEF Kinds
    <3> QED
        BY <3>1, PhaseIs DEF BrokerInv, MainInv
  <2>6. \A p \in Publishes \ S : published'[p] = published[p] /\ (p \in dropped' <=> p \in dropped)
      BY <2>1, <2>2
  <2>7. S \in SUBSET Publishes
      OBVIOUS
  <2> HIDE DEF S
  <2>5. S \in SUBSET Service!Accepted /\ Service!Becomes(S, "dropped")
      BY <1>4, <2>3, <2>6, <2>7
  <2> QED
      BY <2>4, <2>5 DEF Service!Drop
<1>7. CASE RunPublish
  <2>1. loop # <<>> /\ loop' = Tail(loop) /\ doing' = doing /\ Head(loop).kind = "publish"
        /\ loop \in Seq(Tasks) /\ dropped' = dropped
      BY <1>0, <1>7 DEF RunPublish, Run, TypeOK
  <2>2. Head(loop).what \in Publishes
      BY <1>0, <2>1, RunTypes
  <2>3. PICK q \in Publishes : q = Head(loop).what
      BY <2>2
  <2>4. CASE published' = published
      BY <1>3, <2>1, <2>4
  <2>5. CASE published' = [published EXCEPT ![q] = @ + 1]
    <3>1. \A i, j \in TasksOf(q) : i = j
        BY <1>0 DEF Placed
    <3>2. TasksOf(q) # {}
        BY <2>1, <2>3, <3>1, TasksTaken
    <3>3. published[q] = 0 /\ Outcome(q) = "accepted"
        BY <1>0, <3>2, OutcomeIs DEF Placed
    <3>4. published'[q] = 1
        BY <1>2, <2>5, <3>3
    <3>5. q \in requested' /\ q \notin rejected'
        BY <1>0, <3>4 DEF Placed
    <3>6. Outcome(q)' = "sent"
        BY <3>4, <3>5 DEF Outcome
    <3>7. \A p \in Publishes \ {q} : published'[p] = published[p]
        BY <1>2, <2>5
    <3>8. {q} \in SUBSET Service!Accepted /\ Service!Becomes({q}, "sent")
        BY <1>4, <2>1, <3>3, <3>6, <3>7
    <3> QED
        BY <3>8 DEF Service!Send
  <2> QED
      BY <1>7, <2>3, <2>4, <2>5 DEF RunPublish, PublishWaits, PublishOnChannel
<1>8. CASE RunConnect \/ RunFailure \/ RunConsumer
  <2>1. UNCHANGED <<published, dropped>>
      BY <1>8 DEF RunConnect, RunFailure, RunConsumer, publishVars
  <2> QED
      BY <1>3, <2>1
<1> QED
    BY <1>5, <1>6, <1>7, <1>8 DEF RunsTask

\* A call is answered by the state of the broker.
LEMMA CallServes ==
    ASSUME BrokerInv, BrokerInv', NEW p \in Publishes, Publish(p)
    PROVE  Service!Publish(p)
<1>1. Phase' = Phase
  <2>1. UNCHANGED <<started_, slots_, main>>
      BY DEF Publish, mainVars
  <2> QED
      BY <2>1 DEF Phase
<1>2. p \notin requested /\ requested' = requested \cup {p} /\ UNCHANGED <<published, dropped>>
    BY DEF Publish
<1>3. Outcome(p) = "new"
    BY <1>2 DEF Outcome
<1>4. Outcome(p)' = IF Phase = "open" THEN "accepted" ELSE "rejected"
  <2>1. Placed(p)' /\ (Phase = "open" <=> started_ /\ slots_ # {})
      BY PhaseIs DEF BrokerInv, PlaceInv
  <2>2. CASE PublishRejected(p)
    <3>1. p \in rejected' /\ Phase # "open"
        BY <2>1, <2>2 DEF PublishRejected
    <3>2. p \in requested'
        BY <1>2
    <3> QED
        BY <3>1, <3>2 DEF Outcome
  <2>3. CASE PublishAccepted(p)
    <3>1. Called(p)' /\ Phase = "open"
        BY <2>1, <2>3 DEF PublishAccepted, Called
    <3>2. /\ p \in requested' /\ p \notin rejected' /\ p \notin dropped' /\ published'[p] = 0
        BY <1>2, <2>1, <3>1 DEF Placed
    <3> QED
        BY <3>1, <3>2 DEF Outcome
  <2> QED
      BY <2>2, <2>3 DEF Publish
<1>5. ASSUME NEW q \in Publishes, q # p PROVE Outcome(q)' = Outcome(q)
  <2>1. (q \in requested' <=> q \in requested) /\ (q \in rejected' <=> q \in rejected)
      BY <1>5 DEF Publish, PublishRejected, PublishAccepted
  <2> QED
      BY <1>2, <2>1 DEF Outcome
<1>6. [q \in Publishes |-> Outcome(q)]' =
        [[q \in Publishes |-> Outcome(q)] EXCEPT ![p] = IF Phase = "open" THEN "accepted" ELSE "rejected"]
    BY <1>4, <1>5
<1> QED
    BY <1>1, <1>3, <1>6 DEF Service!Publish

LEMMA ServesFirst ==
    ASSUME Init
    PROVE  Service!Init
<1>1. Phase = "closed" /\ \A p \in Publishes : Outcome(p) = "new"
    BY DEF Init, Phase, Outcome
<1> QED
    BY <1>1 DEF Service!Init

\* A step that publish and the main thread have no part in is not seen.
LEMMA ServesUnseen ==
    ASSUME UNCHANGED <<publishVars, mainVars>>
    PROVE  UNCHANGED Service!vars
<1>1. Phase' = Phase /\ \A p \in Publishes : Outcome(p)' = Outcome(p)
    BY DEF publishVars, mainVars, Phase, Outcome
<1> QED
    BY <1>1 DEF Service!vars

LEMMA ServesStep ==
    ASSUME BrokerInv, BrokerInv', Next
    PROVE  Service!Next \/ UNCHANGED Service!vars
<1>0. TypeOK /\ MainInv /\ MainInv'
    BY DEF BrokerInv
<1>1. CASE StartBegin \/ InitializeSlots \/ StartSlot \/ StopBegin \/ StopSlot
    BY <1>0, <1>1, MainServes DEF Service!Next
<1>2. CASE RunsTask
    BY <1>2, TaskServes DEF Service!Next
<1>3. CASE \E p \in Publishes : Publish(p)
    BY <1>3, CallServes DEF Service!Next
<1>4. CASE ~(\/ StartBegin \/ InitializeSlots \/ StartSlot \/ StopBegin \/ StopSlot
             \/ RunsTask \/ \E p \in Publishes : Publish(p))
  <2>1. UNCHANGED <<publishVars, mainVars>>
      BY <1>4 DEF Next, MainSteps, LoopSteps, RunsTask, Subscribe, SubscribeGoesOn,
            SubscribeChecks, SubscribeQueues, PublishQueue, ConnectSlot, TimerFires,
            AmqpReady, AmqpFails, ChannelFails, Callback
  <2> QED
      BY <2>1, ServesUnseen
<1> QED
    BY <1>1, <1>2, <1>3, <1>4

\* However connections fail, channels are rebuilt and deques flushed, the callers of
\* publish see the publish service.
THEOREM ServesPublishers == Spec => ImplementsPublishing
<1>1. Init => Service!Init
    BY ServesFirst
<1>2. BrokerInv /\ BrokerInv' /\ [Next]_vars => [Service!Next]_(Service!vars)
  <2>1. ASSUME UNCHANGED vars PROVE UNCHANGED Service!vars
      BY <2>1, ServesUnseen DEF vars
  <2> QED
      BY <2>1, ServesStep
<1> QED
    BY <1>1, <1>2, BrokerInvariant, PTL DEF Spec, ImplementsPublishing, Service!Spec
=============================================================================
