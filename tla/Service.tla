------------------------------ MODULE Service ------------------------------
(***************************************************************************)
(* The life of the process: main's bootstrap step by step, the requests it *)
(* serves, and the exit, where the handler of std::atexit and the          *)
(* destructors of the singletons run in the reverse order of their         *)
(* registration.  With it the pieces of the messaging path that only hand  *)
(* on: MessagingRegistry and MessagingController.                          *)
(*                                                                         *)
(* An exception leaves main, or the beginning advice, uncaught: the        *)
(* process is dead and nothing of the exit runs.  A path is a sequence of  *)
(* pieces of text, "/" one of them.  RabbitMQ (external) routes a message  *)
(* to the queues bound with its key; the wildcard "#" matches every key.   *)
(***************************************************************************)
EXTENDS BrokerConfig, FiniteSets

CONSTANTS
    Environments,  \* what the environment may hold
    Paths,         \* paths of requests
    Routes,        \* paths the handlers are registered for
    MaxReserve     \* elements std::vector can reserve

\* The environment's variables; IBKR_SLOTS is one, TWS_ROUTE_PREFIX is a path or text.
Variables ==
    {"url", "exchange", "exchange_type", "exchange_durable", "exchange_auto_delete",
     "connection_pool_size", "channels_per_connection", "publisher_pool_size", "prefetch",
     "queue_trade", "binding_trade", "queue_pricing", "binding_pricing", "ibkr_slots"}

ASSUME EnvironmentsAssumption ==
    \A env \in Environments :
        /\ DOMAIN env = Variables \cup {"route_prefix"}
        /\ \A v \in Variables : IsVariable(env[v])
        /\ env.route_prefix \in Seq(STRING)

ASSUME PathsAssumption ==
    /\ Paths \subseteq Seq(STRING) /\ Routes \subseteq Seq(STRING)
    /\ \A r \in Routes : r # <<>> /\ r[1] = "/"

ASSUME ReserveAssumption == MaxReserve \in Nat

VARIABLES
    environment, config,
    main,        \* the step of main that is next, or where the process is after it
    registry,    \* of MessagingRegistry's instance: "none", "alive" or "destroyed"
    broker_,     \* the registry has a broker
    started_, slots_, subscriptions_,   \* of the broker
    pool, running_, poolSlots,          \* of ClientPool's instance
    exits,       \* what the exit has to run, the last registered first
    touched,     \* destroyed instances the exit still found something in
    routed,      \* the last request: its path, and where it was routed
    sent         \* the last publish, as publishTopic hands it to the broker

brokerVars == <<started_, slots_, subscriptions_>>
poolVars == <<pool, running_, poolSlots>>
requestVars == <<routed, sent>>
vars == <<environment, config, main, registry, broker_, brokerVars, poolVars,
          exits, touched, requestVars>>

None == <<>>

Init ==
    /\ environment \in Environments
    /\ config = None
    /\ main = "config"
    /\ registry = "none" /\ broker_ = FALSE
    /\ started_ = FALSE /\ slots_ = 0 /\ subscriptions_ = <<>>
    /\ pool = "none" /\ running_ = FALSE /\ poolSlots = 0
    /\ exits = <<>> /\ touched = {}
    /\ routed = None /\ sent = None

Goes(from, to) == main = from /\ main' = to

-----------------------------------------------------------------------------
(* Bootstrap.                                                               *)

LoadConfig ==
    /\ main = "config"
    /\ IF FromEnvironmentThrows(environment)
       THEN main' = "dead" /\ UNCHANGED config
       ELSE main' = "registry" /\ config' = FromEnvironment(environment)
    /\ UNCHANGED <<environment, registry, broker_, brokerVars, poolVars, exits, touched,
                   requestVars>>

\* The first call of MessagingRegistry::instance constructs it.
InitializeRegistry ==
    /\ Goes("registry", "subscribe")
    /\ registry' = "alive" /\ broker_' = TRUE
    /\ exits' = <<"registry">> \o exits
    /\ UNCHANGED <<environment, config, brokerVars, poolVars, touched, requestVars>>

\* Mutant: the loop stops one subscription early.
SubscribeAllButLast ==
    /\ Goes("subscribe", "atexit")
    /\ subscriptions_' = Front(config.subscriptions)
    /\ UNCHANGED <<environment, config, registry, broker_, started_, slots_, poolVars,
                   exits, touched, requestVars>>

SubscribeAll ==
    /\ Goes("subscribe", "atexit")
    /\ subscriptions_' = config.subscriptions
    /\ UNCHANGED <<environment, config, registry, broker_, started_, slots_, poolVars,
                   exits, touched, requestVars>>

RegisterExitHandler ==
    /\ Goes("atexit", "pool")
    /\ exits' = <<"handler">> \o exits
    /\ UNCHANGED <<environment, config, registry, broker_, brokerVars, poolVars, touched,
                   requestVars>>

\* std::atoi of IBKR_SLOTS: the number it begins with, or 0 when no digit leads.
IbkrSlots ==
    CASE environment.ibkr_slots.kind = "unset" -> 1
      [] environment.ibkr_slots.kind = "word" -> 0
      [] environment.ibkr_slots.kind = "number" -> Larger(0, environment.ibkr_slots.number)

InitializePool ==
    /\ Goes("pool", "run")
    /\ pool' = "alive" /\ running_' = TRUE /\ poolSlots' = IbkrSlots
    /\ exits' = <<"pool">> \o exits
    /\ UNCHANGED <<environment, config, registry, broker_, brokerVars, touched, requestVars>>

\* The beginning advice: MessagingRegistry::start, RabbitMqBroker::start, and
\* initializeSlots, which cannot reserve any number of slots.
BeginningAdvice ==
    /\ main = "run"
    /\ IF config.connectionPoolSize > MaxReserve
       THEN main' = "dead" /\ UNCHANGED brokerVars
       ELSE /\ main' = "serving"
            /\ started_' = TRUE /\ slots_' = config.connectionPoolSize
            /\ UNCHANGED subscriptions_
    /\ UNCHANGED <<environment, config, registry, broker_, poolVars, exits, touched,
                   requestVars>>

-----------------------------------------------------------------------------
(* Requests.                                                                *)

\* Of main.cc: an empty TWS_ROUTE_PREFIX is a prefix, an unset one is not.
RoutePrefix == environment.route_prefix

\* Mutant: the prefix need not end where a segment ends.
StripPathPrefixAnywhere(prefix, path) ==
    IF prefix = <<>> \/ ~IsPrefix(<<"/">>, prefix) \/ ~IsPrefix(prefix, path) THEN path
    ELSE IF Len(path) = Len(prefix) THEN <<"/">>
    ELSE SubSeq(path, Len(prefix) + 1, Len(path))

StripPathPrefix(prefix, path) ==
    IF \/ prefix = <<>> \/ prefix[1] # "/"
       \/ ~IsPrefix(prefix, path)
       \/ Len(path) > Len(prefix) /\ path[Len(prefix) + 1] # "/"
    THEN path
    ELSE IF Len(path) = Len(prefix) THEN <<"/">>
    ELSE SubSeq(path, Len(prefix) + 1, Len(path))

Request(path) ==
    /\ main = "serving"
    /\ routed' = <<path, StripPathPrefix(RoutePrefix, path)>>
    /\ UNCHANGED <<environment, config, main, registry, broker_, brokerVars, poolVars,
                   exits, touched, sent>>

\* Mutant: the topic itself is the routing key.
PublishTopicByName(topic) ==
    [topic |-> topic, exchange |-> config.exchange.name, routingKey |-> Word(topic)]

PublishTopic(topic) ==
    LET topicConfig == FindTopic(config, topic) IN
    [topic      |-> topic,
     exchange   |-> config.exchange.name,
     routingKey |-> IF topicConfig = {} THEN Word(topic)
                    ELSE (CHOOSE found \in topicConfig : TRUE).bindingKey]

\* MessagingController::publish.
Publish(topic) ==
    /\ main = "serving"
    /\ sent' = IF broker_ /\ started_ THEN PublishTopic(topic) ELSE None
    /\ UNCHANGED <<environment, config, main, registry, broker_, brokerVars, poolVars,
                   exits, touched, routed>>

-----------------------------------------------------------------------------
(* Exit.                                                                    *)

\* run() returns, and then main.
Quit ==
    /\ Goes("serving", "exit")
    /\ routed' = None /\ sent' = None
    /\ UNCHANGED <<environment, config, registry, broker_, brokerVars, poolVars, exits,
                   touched>>

Runs(what) == main = "exit" /\ exits # <<>> /\ Head(exits) = what /\ exits' = Tail(exits)

\* Mutant: the destructor leaves the shutdown to the exit handler.
DestroyPoolOnly ==
    /\ Runs("pool")
    /\ pool' = "destroyed"
    /\ UNCHANGED <<environment, config, main, registry, broker_, brokerVars, running_,
                   poolSlots, touched, requestVars>>

\* ~ClientPool calls shutdown.
DestroyPool ==
    /\ Runs("pool")
    /\ pool' = "destroyed"
    /\ running_' = FALSE /\ poolSlots' = 0
    /\ UNCHANGED <<environment, config, main, registry, broker_, brokerVars, touched,
                   requestVars>>

\* MessagingRegistry::stop and ClientPool::shutdown.
ExitHandler ==
    /\ Runs("handler")
    /\ started_' = (started_ /\ ~(registry = "alive" /\ broker_))
    /\ touched' = touched \cup (IF registry = "alive" THEN {} ELSE {"registry"})
                          \cup (IF pool # "destroyed" \/ ~running_ THEN {} ELSE {"pool"})
    /\ running_' = FALSE /\ poolSlots' = 0
    /\ UNCHANGED <<environment, config, main, registry, broker_, slots_, subscriptions_,
                   pool, requestVars>>

\* The last reference to the broker goes with the registry.
DestroyRegistry ==
    /\ Runs("registry")
    /\ registry' = "destroyed" /\ broker_' = FALSE
    /\ started_' = FALSE
    /\ UNCHANGED <<environment, config, main, slots_, subscriptions_, poolVars, touched,
                   requestVars>>

Topics == {"trade.execute", "pricing.update", "another"}

Next ==
    \/ LoadConfig \/ InitializeRegistry \/ SubscribeAll \/ RegisterExitHandler
    \/ InitializePool \/ BeginningAdvice
    \/ \E path \in Paths : Request(path)
    \/ \E topic \in Topics : Publish(topic)
    \/ Quit \/ DestroyPool \/ ExitHandler \/ DestroyRegistry

Spec == Init /\ [][Next]_vars

-----------------------------------------------------------------------------
(* Properties.                                                              *)

\* What a variable asks for: the number it begins with, or the smallest that works.
Wanted(v, default) == IF Missing(v) THEN default ELSE Larger(1, v.number)

Negative(v) == ~Missing(v) /\ v.number < 0

\* A number so far below zero that it wraps to one that is accepted.
WrapsInto(v, limit) == ~Missing(v) /\ v.number + (SizeMax + 1) <= limit

\* Every number a serving process works with is the one its variable begins with: none is cut
\* to the width of its type, none comes from another variable, and a process does not serve
\* with a variable that begins with no number or with one that does not fit.  What follows
\* the number is not looked at: 1e3 is served as 1 (stoull, stoul).  Numbers below zero are
\* wrapped, and of those for the connections and the prefetch only the last before -SizeMax
\* wrap to a number that is accepted; of the channels the other variable is then the limit.
ServedAsConfigured ==
    main = "serving" =>
        LET channels == environment.channels_per_connection
            publishers == environment.publisher_pool_size
            least == IF Wanted(channels, 2) < Wanted(publishers, 2)
                     THEN Wanted(channels, 2) ELSE Wanted(publishers, 2)
        IN
        /\ \/ slots_ = Wanted(environment.connection_pool_size, 1)
           \/ WrapsInto(environment.connection_pool_size, MaxReserve)
        /\ Negative(channels) \/ Negative(publishers) \/ PublisherChannels(config) = least
        /\ \A i \in DOMAIN subscriptions_ :
              \/ subscriptions_[i].prefetch = Wanted(environment.prefetch, 10)
              \/ WrapsInto(environment.prefetch, Uint16Max)

\* A request's path is rewritten only by taking the prefix off it, and what is left is a
\* path; and the public URL of every handler reaches that handler.
StripsOnlyThePrefix ==
    /\ routed # None /\ routed[2] # routed[1] =>
          /\ routed[2][1] = "/"
          /\ routed[1] \in {RoutePrefix, RoutePrefix \o routed[2]}
    /\ routed # None => \A r \in Routes :
          routed[1] = RoutePrefix \o r /\ IsPrefix(<<"/">>, RoutePrefix) => routed[2] = r

\* The queues RabbitMQ routes a message to.
RoutedTo(type, key) ==
    {q \in ToSet(config.subscriptions) :
        type \in {"fanout", "headers"} \/ q.bindingKey = key
            \/ (type = "topic" /\ q.bindingKey = Word("#"))}

\* What is published to a configured topic reaches the queue of that topic, whatever the
\* binding keys, the names and the exchange's type are set to.
ReachesItsQueue ==
    sent # None =>
        \A q \in ToSet(subscriptions_) :
            /\ q.topic = sent.topic
            /\ ExchangeType(config) \in {"topic", "direct", "fanout", "headers"}
            => q \in RoutedTo(ExchangeType(config), sent.routingKey)

\* A serving process has everything its handlers call: the registry with its started
\* broker and all subscriptions, and the pool.
ServesWithEverything ==
    main = "serving" =>
        /\ registry = "alive" /\ broker_ /\ started_
        /\ pool = "alive" /\ running_
        /\ {subscriptions_[i].topic : i \in DOMAIN subscriptions_}
               = {"trade.execute", "pricing.update"}

\* The exit handler calls shutdown on a pool that static destruction has already taken:
\* harmless only as long as the destructor has left nothing in it.  And when the process
\* is over the broker has been stopped, by whoever came first.
ExitTouchesNothing ==
    /\ touched = {}
    /\ main = "exit" /\ exits = <<>> => ~started_ /\ ~running_ /\ poolSlots = 0
=============================================================================
