--------------------------- MODULE BrokerConsumers ---------------------------
(***************************************************************************)
(* The consumers of RabbitMqBroker, and what /messaging/status says of     *)
(* them: startConsumer's five set-up calls with their answers under way,   *)
(* the messages a consumer takes and acknowledges, and MessagingRegistry,  *)
(* which counts them.                                                      *)
(*                                                                         *)
(* The answers find the channel through a raw pointer, while the TcpChannel *)
(* belongs to consumerChannels.  AMQP-CPP keeps a destroyed channel until  *)
(* the server has closed it and still reports the answers that come first: *)
(* such a channel is an orphan, and what it reports meets freed memory.    *)
(* That counts as a loop that is lost.                                     *)
(*                                                                         *)
(* One message per topic stands for all; snapshot() and statusJson run on  *)
(* the loop's thread, between two tasks, and change nothing.               *)
(***************************************************************************)
EXTENDS RabbitMqBroker

VARIABLES
    stage,    \* of a topic's consumer: which set-up call waits for its answer
    orphan,   \* a destroyed channel of the topic has answers under way
    mail,     \* the topic's message, as the server sees it
    observed  \* the topics with an entry in observedMessages_, its count positive

consumerVars == <<stage, orphan, mail, observed>>
allVars == <<vars, consumerVars>>

SetUpCalls == <<"setQos", "declareExchange", "declareQueue", "bindQueue", "consume">>
NoConsumer == 0
Consuming == Len(SetUpCalls) + 1

ConsumersInit ==
    /\ Init
    /\ stage = [t \in Topics |-> NoConsumer]
    /\ orphan = [t \in Topics |-> FALSE]
    /\ mail = [t \in Topics |-> "none"]
    /\ observed = {}

-----------------------------------------------------------------------------
(* What the broker's own steps do to the consumers.                         *)

Here(s) == {t \in Topics : SlotOf[t] = s}

\* The server takes back what was not acknowledged.
Requeue(T) ==
    mail' = [t \in Topics |-> IF t \in T /\ mail[t] = "unacked" THEN "queued" ELSE mail[t]]

\* The connection is gone, and with it every answer that was under way.
ConnectionGoes(s) ==
    /\ stage' = [t \in Topics |-> IF t \in Here(s) THEN NoConsumer ELSE stage[t]]
    /\ orphan' = [t \in Topics |-> orphan[t] /\ t \notin Here(s)]
    /\ Requeue(Here(s))
    /\ UNCHANGED observed

\* The channels of these topics are destroyed; startConsumer opens some of them anew
\* and asks for the prefetch limit.
Replace(old, new) ==
    /\ stage' = [t \in Topics |-> IF t \in new THEN 1
                                  ELSE IF t \in old THEN NoConsumer ELSE stage[t]]
    /\ orphan' = [t \in Topics |-> orphan[t] \/ (t \in old /\ stage[t] # NoConsumer)]
    /\ UNCHANGED <<mail, observed>>

Drops ==
    \/ (RunConnect \/ RunStop) /\ ConnectionGoes(Head(loop).slot)
    \/ \E s \in Slots : AmqpFails(s) /\ ConnectionGoes(s)
    \/ RunFailure /\ Replace(Here(Head(loop).slot), {})

\* rebuildChannels starts the consumer of every subscription of the slot.
Rebuilds ==
    LET s == Head(loop).slot IN
    /\ RunReady
    /\ Replace(Here(s), IF loopLost' THEN {} ELSE consumerChannels'[s])

\* startConsumer for a subscription made while the broker runs: a second consumer of
\* the topic takes the place of the first.
StartConsumer ==
    LET t == Head(loop).what
        opened == ready[SlotOf[t]] /\ link[SlotOf[t]] \in Usable
    IN
    /\ RunConsumer
    /\ IF opened THEN Replace({t}, {t}) ELSE UNCHANGED consumerVars

\* A channel the server closes or a consumer it cancels takes no messages any more.
ChannelCloses ==
    \E s \in Slots :
        /\ ChannelFails(s)
        /\ \/ broken' # broken /\ UNCHANGED consumerVars
           \/ /\ broken' = broken
              /\ \E t \in consumerChannels[s] :
                    /\ stage[t] # NoConsumer
                    /\ stage' = [stage EXCEPT ![t] = NoConsumer]
                    /\ Requeue({t})
              /\ UNCHANGED <<orphan, observed>>

OtherSteps ==
    /\ \/ MainSteps \/ StopBegin \/ PublishQueue \/ ConnectSlot \/ RunPublish
       \/ \E t \in Topics : Subscribe(t) \/ SubscribeGoesOn(t)
       \/ \E p \in Publishes : Publish(p)
       \/ \E s \in Slots : TimerFires(s) \/ AmqpReady(s)
    /\ UNCHANGED consumerVars

-----------------------------------------------------------------------------
(* Answers and messages, on the loop's thread.                              *)

Hears(t) == doing = Idle /\ ~loopLost /\ link[SlotOf[t]] = "open"

\* Mutant: bindQueue's onSuccess does not go on to consume.
AnsweredNoConsume(t) ==
    /\ Hears(t)
    /\ stage[t] \in 1 .. Consuming - 2
    /\ stage' = [stage EXCEPT ![t] = @ + 1]
    /\ UNCHANGED <<vars, orphan, mail, observed>>

\* onSuccess of one set-up call makes the next.
Answered(t) ==
    /\ Hears(t)
    /\ stage[t] \in DOMAIN SetUpCalls
    /\ stage' = [stage EXCEPT ![t] = @ + 1]
    /\ UNCHANGED <<vars, orphan, mail, observed>>

\* onReceived: the registry counts the message, and then it is acknowledged.
Received(t) ==
    /\ Hears(t)
    /\ stage[t] = Consuming
    /\ mail[t] = "queued"
    /\ observed' = observed \cup {t}
    /\ mail' = [mail EXCEPT ![t] = "unacked"]
    /\ UNCHANGED <<vars, stage, orphan>>

\* An answer or a message for a channel that was destroyed.
OrphanAnswered(t) ==
    /\ Hears(t)
    /\ orphan[t]
    /\ loopLost' = TRUE
    /\ UNCHANGED <<slotFlags, channelVars, amqpVars, mainVars, publishVars, subscriptions_,
                   subscribing, pendingPublishes, loop, timers, doing, consumerVars>>

\* The server has closed the destroyed channel.
OrphanClosed(t) ==
    /\ Hears(t)
    /\ orphan[t]
    /\ orphan' = [orphan EXCEPT ![t] = FALSE]
    /\ UNCHANGED <<vars, stage, mail, observed>>

\* A message for the topic comes into its queue, which may have been declared by an earlier
\* run.  What is sent while there is no queue RabbitMQ drops, and is not counted here.
Sent(t) ==
    /\ mail[t] = "none"
    /\ mail' = [mail EXCEPT ![t] = "queued"]
    /\ UNCHANGED <<vars, stage, orphan, observed>>

\* The server has the acknowledgement.
Acked(t) ==
    /\ link[SlotOf[t]] = "open"
    /\ mail[t] = "unacked"
    /\ mail' = [mail EXCEPT ![t] = "acked"]
    /\ UNCHANGED <<vars, stage, orphan, observed>>

ConsumersNext ==
    \/ Drops \/ Rebuilds \/ StartConsumer \/ ChannelCloses \/ OtherSteps
    \/ \E t \in Topics :
          \/ Answered(t) \/ Received(t) \/ OrphanAnswered(t) \/ OrphanClosed(t)
          \/ Sent(t) \/ Acked(t)

ConsumersSpec == ConsumersInit /\ [][ConsumersNext]_allVars

\* While the server is up it answers, and delivers what it has.
ConsumersFairness == \A t \in Topics : SF_allVars(Answered(t)) /\ SF_allVars(Received(t))

FairConsumersSpec == ConsumersSpec /\ Fairness /\ ConsumersFairness

-----------------------------------------------------------------------------
(* snapshot() and statusJson.                                               *)

ReadyConnections == {s \in slots_ : ready[s]}
ReadyTopics == {t \in subscriptions_ : SlotOf[t] \in slots_ /\ ready[SlotOf[t]]}

StatusJson ==
    [started           |-> started_,
     ready_connections |-> Cardinality(ReadyConnections),
     queued_publishes  |-> queuedPublishes_,
     ready_topics      |-> ReadyTopics,
     observed_topics   |-> observed]

-----------------------------------------------------------------------------
(* Properties.                                                              *)

\* Every variable holds a value of its type, the backoff of the broker included.
ConsumersTypeOK ==
    /\ TypeOK
    /\ stage \in [Topics -> NoConsumer .. Consuming]
    /\ orphan \in [Topics -> BOOLEAN]
    /\ mail \in [Topics -> {"none", "queued", "unacked", "acked"}]
    /\ observed \in SUBSET Topics

\* A topic that the status of a running broker lists as ready has a consumer, set up or
\* in the middle of it, or the news that this is wrong is queued already.  The one other
\* case is a call of subscribe between its push and its queueInLoop: until it returns,
\* snapshot() finds the topic in subscriptions_, with nothing to consume it.
ReadyTopicsServed ==
    StatusJson.started /\ ~loopLost => \A t \in StatusJson.ready_topics :
        \/ stage[t] # NoConsumer
        \/ Queued("failure", SlotOf[t]) # {}
        \/ \E i \in Queued("consumer", SlotOf[t]) : loop[i].what = t
        \/ subscribing[t] # "no"

\* A message in the queue of a subscribed topic is observed in the end, wherever a set-up
\* breaks off and however often its channel and its connection are lost, unless the broker
\* stops or the loop is lost.
EveryMessageObserved ==
    \A t \in Topics :
        main = "running" /\ t \in subscriptions_ /\ mail[t] = "queued"
            ~> t \in observed \/ Stopped
=============================================================================
