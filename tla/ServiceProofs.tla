--------------------------- MODULE ServiceProofs ---------------------------
(***************************************************************************)
(* Theorems about Service, for every set of environments, paths and routes *)
(* and every width of the integers.                                        *)
(*                                                                         *)
(* LifeInv follows main and the exit: what exists at each step, and what   *)
(* the exit has still to run.  ConfigInv ties what the process works with  *)
(* to the environment it was started in.  The rest is about data: numbers  *)
(* of the environment, paths, and topics.                                  *)
(***************************************************************************)
EXTENDS Service, SequenceTheorems, TLAPS

Full == <<"pool", "handler", "registry">>
NoPool == <<"handler", "registry">>
OnlyRegistry == <<"registry">>

Stopped == ~started_ /\ ~running_ /\ poolSlots = 0

\* While main is on its way each singleton exists from its step on, and the exit has its
\* destructor to run; in the exit nothing is called that was destroyed before, but for the
\* pool, which is then empty.
LifeInv ==
    /\ broker_ \in BOOLEAN /\ started_ \in BOOLEAN /\ running_ \in BOOLEAN
    /\ touched = {}
    /\ main \in {"subscribe", "atexit", "pool", "run", "serving"} => registry = "alive" /\ broker_
    /\ main \in {"run", "serving"} => pool = "alive" /\ running_
    /\ main = "serving" => started_
    /\ main \in {"config", "registry"} => exits = <<>>
    /\ main \in {"subscribe", "atexit"} => exits = OnlyRegistry
    /\ main = "pool" => exits = NoPool
    /\ main \in {"run", "serving"} => exits = Full
    /\ main = "exit" =>
          \/ exits = Full /\ registry = "alive" /\ broker_
          \/ /\ exits = NoPool /\ registry = "alive" /\ broker_
             /\ pool = "destroyed" /\ ~running_ /\ poolSlots = 0
          \/ exits \in {OnlyRegistry, <<>>} /\ Stopped

-----------------------------------------------------------------------------
(* The list of the exit.                                                    *)

LEMMA PutBefore ==
    ASSUME NEW a, NEW b, NEW c
    PROVE  <<a>> \o <<b>> = <<a, b>> /\ <<a>> \o <<b, c>> = <<a, b, c>>
<1> DEFINE S == {a, b, c}
           Two == <<a>> \o <<b>>
           Three == <<a>> \o <<b, c>>
<1>1. <<a>> \in Seq(S) /\ <<b>> \in Seq(S) /\ <<b, c>> \in Seq(S)
    OBVIOUS
<1>2. <<a, b>> \in Seq(S) /\ <<a, b, c>> \in Seq(S)
    OBVIOUS
<1>3. Two \in Seq(S) /\ Len(Two) = 2 /\ Two[1] = a /\ Two[2] = b
    BY <1>1, ConcatProperties
<1>4. Three \in Seq(S) /\ Len(Three) = 3 /\ Three[1] = a /\ Three[2] = b /\ Three[3] = c
    BY <1>1, ConcatProperties
<1> HIDE DEF S, Two, Three
<1>5. Two = <<a, b>>
    BY <1>2, <1>3, SeqEqual
<1>6. Three = <<a, b, c>>
    BY <1>2, <1>4, SeqEqual
<1> QED
    BY <1>5, <1>6 DEF Two, Three

LEMMA ListGrows ==
    /\ <<"registry">> \o <<>> = OnlyRegistry
    /\ <<"handler">> \o OnlyRegistry = NoPool
    /\ <<"pool">> \o NoPool = Full
<1>1. <<"registry">> \o <<>> = OnlyRegistry
    BY DEF OnlyRegistry
<1> QED
    BY <1>1, PutBefore DEF OnlyRegistry, NoPool, Full

LEMMA ListShrinks ==
    /\ Head(Full) = "pool" /\ Tail(Full) = NoPool
    /\ Head(NoPool) = "handler" /\ Tail(NoPool) = OnlyRegistry
    /\ Head(OnlyRegistry) = "registry" /\ Tail(OnlyRegistry) = <<>>
    /\ Full # <<>> /\ NoPool # <<>> /\ OnlyRegistry # <<>>
BY DEF OnlyRegistry, NoPool, Full

LEMMA LifeInit == Init => LifeInv
BY DEF Init, LifeInv

LEMMA LifeStep == LifeInv /\ [Next]_vars => LifeInv'
<1> SUFFICES ASSUME LifeInv, [Next]_vars PROVE LifeInv'
    OBVIOUS
<1>1. CASE LoadConfig
    BY <1>1 DEF LifeInv, LoadConfig, brokerVars, poolVars, Stopped
<1>2. CASE InitializeRegistry
    BY <1>2, ListGrows DEF LifeInv, InitializeRegistry, Goes, brokerVars, poolVars, Stopped
<1>3. CASE SubscribeAll
    BY <1>3 DEF LifeInv, SubscribeAll, Goes, poolVars, Stopped
<1>4. CASE RegisterExitHandler
    BY <1>4, ListGrows DEF LifeInv, RegisterExitHandler, Goes, brokerVars, poolVars, Stopped
<1>5. CASE InitializePool
    BY <1>5, ListGrows DEF LifeInv, InitializePool, Goes, brokerVars, Stopped
<1>6. CASE BeginningAdvice
    BY <1>6 DEF LifeInv, BeginningAdvice, brokerVars, poolVars, Stopped
<1>7. CASE \E path \in Paths : Request(path)
    BY <1>7 DEF LifeInv, Request, brokerVars, poolVars, Stopped
<1>8. CASE \E topic \in Topics : Publish(topic)
    BY <1>8 DEF LifeInv, Publish, brokerVars, poolVars, Stopped
<1>9. CASE Quit
    BY <1>9 DEF LifeInv, Quit, Goes, brokerVars, poolVars, Stopped
<1>10. CASE DestroyPool
    BY <1>10, ListShrinks DEF LifeInv, DestroyPool, Runs, brokerVars, Stopped
<1>11. CASE ExitHandler
    BY <1>11, ListShrinks DEF LifeInv, ExitHandler, Runs, Stopped
<1>12. CASE DestroyRegistry
    BY <1>12, ListShrinks DEF LifeInv, DestroyRegistry, Runs, poolVars, Stopped
<1>13. CASE UNCHANGED vars
    BY <1>13 DEF LifeInv, vars, brokerVars, poolVars, Stopped
<1> QED
    BY <1>1, <1>2, <1>3, <1>4, <1>5, <1>6, <1>7, <1>8, <1>9, <1>10, <1>11, <1>12, <1>13,
       Zenon DEF Next

LEMMA LifeInvariant == Spec => []LifeInv
BY LifeInit, LifeStep, PTL DEF Spec

\* The exit calls nothing that is gone and still has something in it, and when it is over the
\* broker is stopped and the pool empty, whatever the environment.
THEOREM ExitsClean == Spec => []ExitTouchesNothing
<1>1. LifeInv => ExitTouchesNothing
    BY ListShrinks DEF LifeInv, ExitTouchesNothing, Stopped
<1> QED
    BY <1>1, LifeInvariant, PTL

-----------------------------------------------------------------------------
(* What the process works with comes from its environment.                  *)

\* From the step on at which something is taken from the environment it is what the
\* environment gives, and a request or a publish that is remembered was just handled.
ConfigInv ==
    /\ environment \in Environments
    /\ main \notin {"config", "dead"} =>
          config = FromEnvironment(environment) /\ ~FromEnvironmentThrows(environment)
    /\ main \in {"atexit", "pool", "run", "serving", "exit"} =>
          subscriptions_ = config.subscriptions
    /\ main = "serving" => slots_ = config.connectionPoolSize /\ ~(slots_ > MaxReserve)
    /\ routed # None =>
          \E path \in Paths : routed = <<path, StripPathPrefix(RoutePrefix, path)>>
    /\ sent # None => main = "serving" /\ \E topic \in Topics : sent = PublishTopic(topic)

LEMMA ConfigInit == Init => ConfigInv
BY Zenon DEF Init, ConfigInv

LEMMA ConfigStep == ConfigInv /\ [Next]_vars => ConfigInv'
<1> SUFFICES ASSUME ConfigInv, [Next]_vars PROVE ConfigInv'
    OBVIOUS
<1>1. CASE LoadConfig
    BY <1>1 DEF ConfigInv, LoadConfig, brokerVars, requestVars, RoutePrefix, PublishTopic
<1>2. CASE InitializeRegistry
    BY <1>2 DEF ConfigInv, InitializeRegistry, Goes, brokerVars, requestVars, RoutePrefix,
                PublishTopic
<1>3. CASE SubscribeAll
    BY <1>3 DEF ConfigInv, SubscribeAll, Goes, requestVars, RoutePrefix, PublishTopic
<1>4. CASE RegisterExitHandler
    BY <1>4 DEF ConfigInv, RegisterExitHandler, Goes, brokerVars, requestVars, RoutePrefix,
                PublishTopic
<1>5. CASE InitializePool
    BY <1>5 DEF ConfigInv, InitializePool, Goes, brokerVars, requestVars, RoutePrefix,
                PublishTopic
<1>6. CASE BeginningAdvice
    BY <1>6 DEF ConfigInv, BeginningAdvice, brokerVars, requestVars, RoutePrefix, PublishTopic
<1>7. CASE \E path \in Paths : Request(path)
    BY <1>7 DEF ConfigInv, Request, brokerVars, RoutePrefix, PublishTopic
<1>8. CASE \E topic \in Topics : Publish(topic)
    BY <1>8 DEF ConfigInv, Publish, brokerVars, RoutePrefix, PublishTopic
<1>9. CASE Quit
    BY <1>9 DEF ConfigInv, Quit, Goes, brokerVars, RoutePrefix
<1>10. CASE DestroyPool
    BY <1>10 DEF ConfigInv, DestroyPool, Runs, brokerVars, requestVars, RoutePrefix,
                 PublishTopic
<1>11. CASE ExitHandler
    BY <1>11 DEF ConfigInv, ExitHandler, Runs, requestVars, RoutePrefix, PublishTopic
<1>12. CASE DestroyRegistry
    BY <1>12 DEF ConfigInv, DestroyRegistry, Runs, requestVars, RoutePrefix, PublishTopic
<1>13. CASE UNCHANGED vars
    BY <1>13 DEF ConfigInv, vars, brokerVars, requestVars, RoutePrefix, PublishTopic
<1> QED
    BY <1>1, <1>2, <1>3, <1>4, <1>5, <1>6, <1>7, <1>8, <1>9, <1>10, <1>11, <1>12, <1>13,
       Zenon DEF Next

LEMMA ConfigInvariant == Spec => []ConfigInv
BY ConfigInit, ConfigStep, PTL DEF Spec

\* The two subscriptions of a process and their topics.
LEMMA TwoSubscriptions ==
    ASSUME NEW env
    PROVE  LET subscriptions == FromEnvironment(env).subscriptions IN
           /\ DOMAIN subscriptions = {1, 2} /\ Len(subscriptions) = 2
           /\ subscriptions[1].topic = "trade.execute"
           /\ subscriptions[2].topic = "pricing.update"
           /\ \A i \in {1, 2} :
                 subscriptions[i].prefetch = Larger(1, EnvUint16(env.prefetch, 10))
BY DEF FromEnvironment, BuildTopicConfig

\* A process that serves has its registry, its started broker with the subscriptions of both
\* topics and its pool, in every environment it could start in.
THEOREM ServesWhole == Spec => []ServesWithEverything
<1>1. LifeInv /\ ConfigInv => ServesWithEverything
    <2> SUFFICES ASSUME LifeInv, ConfigInv, main = "serving" PROVE ServesWithEverything
        BY DEF ServesWithEverything
    <2>1. subscriptions_ = FromEnvironment(environment).subscriptions
        BY DEF ConfigInv
    <2>2. {subscriptions_[i].topic : i \in DOMAIN subscriptions_}
              = {"trade.execute", "pricing.update"}
        BY <2>1, TwoSubscriptions
    <2> QED
        BY <2>2 DEF LifeInv, ServesWithEverything
<1> QED
    BY <1>1, LifeInvariant, ConfigInvariant, PTL

-----------------------------------------------------------------------------
(* Numbers of the environment.                                              *)

LEMMA CastFits == \A n, m \in Nat : n <= m => n % (m + 1) = n
OBVIOUS

LEMMA NumberOf ==
    ASSUME NEW v, IsVariable(v), ~Missing(v), ~ParseThrows(v)
    PROVE  v.number \in Int /\ Parsed(v) \in Nat
<1>1. v # Unset /\ v.kind # "word"
    BY Zenon DEF Missing, ParseThrows
<1>2. v.number \in Int
    BY <1>1, Zenon DEF IsVariable
<1>3. -SizeMax <= v.number
    BY <1>2, WidthAssumption DEF ParseThrows
<1> QED
    BY <1>2, <1>3, WidthAssumption DEF Parsed

\* What envSize makes of a variable.
LEMMA SizeGiven ==
    ASSUME NEW v, IsVariable(v), ~EnvSizeThrows(v), NEW default \in Nat, 1 <= default
    PROVE  LET n == Larger(1, EnvSize(v, default)) IN
           /\ n \in Nat /\ 1 <= n /\ Wanted(v, default) \in Nat
           /\ ~Negative(v) => n = Wanted(v, default)
           /\ Negative(v) => \A limit \in Nat : n <= limit => WrapsInto(v, limit)
<1>1. CASE Missing(v)
    BY <1>1 DEF EnvSize, Larger, Wanted, Negative
<1>2. CASE ~Missing(v)
    <2>1. v.number \in Int /\ Parsed(v) \in Nat
        BY <1>2, NumberOf DEF EnvSizeThrows
    <2> QED
        BY <1>2, <2>1, WidthAssumption DEF EnvSize, Larger, Wanted, Negative, WrapsInto, Parsed
<1> QED
    BY <1>1, <1>2

\* What envUint16 makes of a variable.
LEMMA Uint16Given ==
    ASSUME NEW v, IsVariable(v), ~EnvUint16Throws(v), NEW default \in Nat, 1 <= default
    PROVE  \/ Larger(1, EnvUint16(v, default)) = Wanted(v, default)
           \/ WrapsInto(v, Uint16Max)
<1>1. CASE Missing(v)
    BY <1>1 DEF EnvUint16, Larger, Wanted
<1>2. CASE ~Missing(v)
    <2>1. v.number \in Int /\ Parsed(v) \in Nat /\ Parsed(v) <= Uint16Max
        BY <1>2, NumberOf, WidthAssumption DEF EnvUint16Throws
    <2>2. EnvUint16(v, default) = Parsed(v)
        BY <1>2, <2>1, CastFits, WidthAssumption DEF EnvUint16
    <2> QED
        BY <1>2, <2>1, <2>2, WidthAssumption DEF Larger, Wanted, WrapsInto, Parsed
<1> QED
    BY <1>1, <1>2

\* Each of the variables is one, and the numbers of an environment that does not throw parse.
LEMMA VariablesOf ==
    ASSUME NEW env \in Environments, ~FromEnvironmentThrows(env)
    PROVE  /\ IsVariable(env.connection_pool_size) /\ ~EnvSizeThrows(env.connection_pool_size)
           /\ IsVariable(env.channels_per_connection)
           /\ ~EnvSizeThrows(env.channels_per_connection)
           /\ IsVariable(env.publisher_pool_size) /\ ~EnvSizeThrows(env.publisher_pool_size)
           /\ IsVariable(env.prefetch) /\ ~EnvUint16Throws(env.prefetch)
<1>1. \A v \in Variables : IsVariable(env[v])
    BY EnvironmentsAssumption
<1> QED
    BY <1>1 DEF FromEnvironmentThrows, Variables

\* Whatever the environment holds, and whatever the widths of the integers: a process that
\* serves works with the numbers it was asked for.
THEOREM ConfiguredTruly == Spec => []ServedAsConfigured
<1>1. ConfigInv => ServedAsConfigured
    <2> SUFFICES ASSUME ConfigInv, main = "serving" PROVE ServedAsConfigured
        BY DEF ServedAsConfigured
    <2> DEFINE env == environment
    <2>1. /\ env \in Environments /\ ~FromEnvironmentThrows(env)
          /\ config = FromEnvironment(env)
          /\ subscriptions_ = config.subscriptions
          /\ slots_ = config.connectionPoolSize /\ ~(slots_ > MaxReserve)
        BY DEF ConfigInv
    <2>2. \/ slots_ = Wanted(env.connection_pool_size, 1)
          \/ WrapsInto(env.connection_pool_size, MaxReserve)
        <3>1. slots_ = Larger(1, EnvSize(env.connection_pool_size, 1))
            BY <2>1 DEF FromEnvironment
        <3> QED
            BY <2>1, <3>1, VariablesOf, SizeGiven, ReserveAssumption
    <2>3. LET channels == env.channels_per_connection
              publishers == env.publisher_pool_size
              least == IF Wanted(channels, 2) < Wanted(publishers, 2)
                       THEN Wanted(channels, 2) ELSE Wanted(publishers, 2)
          IN  Negative(channels) \/ Negative(publishers) \/ PublisherChannels(config) = least
        <3>1. /\ config.channelsPerConnection = Larger(1, EnvSize(env.channels_per_connection, 2))
              /\ config.publisherPoolSize = Larger(1, EnvSize(env.publisher_pool_size, 2))
            BY <2>1 DEF FromEnvironment
        <3> QED
            BY <2>1, <3>1, VariablesOf, SizeGiven DEF PublisherChannels, Larger
    <2>4. \A i \in DOMAIN subscriptions_ :
              \/ subscriptions_[i].prefetch = Wanted(env.prefetch, 10)
              \/ WrapsInto(env.prefetch, Uint16Max)
        <3>1. \A i \in DOMAIN subscriptions_ :
                  subscriptions_[i].prefetch = Larger(1, EnvUint16(env.prefetch, 10))
            BY <2>1, TwoSubscriptions
        <3> QED
            BY <2>1, <3>1, VariablesOf, Uint16Given
    <2> QED
        BY <2>2, <2>3, <2>4 DEF ServedAsConfigured
<1> QED
    BY <1>1, ConfigInvariant, PTL

-----------------------------------------------------------------------------
(* Topics.                                                                  *)

\* findTopic gives the subscription of a topic, where there is one.
LEMMA FindsTopic ==
    ASSUME NEW env, NEW i \in {1, 2}
    PROVE  LET c == FromEnvironment(env) IN
           FindTopic(c, c.subscriptions[i].topic) = {c.subscriptions[i]}
BY TwoSubscriptions DEF FindTopic

\* Whatever the queues, binding keys and types of the exchange are, what is published to a
\* topic with a queue is routed to that queue.
THEOREM ReachesTheQueue == Spec => []ReachesItsQueue
<1>1. ConfigInv => ReachesItsQueue
    <2> SUFFICES ASSUME ConfigInv, sent # None,
                        NEW q \in ToSet(subscriptions_), q.topic = sent.topic,
                        ExchangeType(config) \in {"topic", "direct", "fanout", "headers"}
                 PROVE  q \in RoutedTo(ExchangeType(config), sent.routingKey)
        BY DEF ReachesItsQueue
    <2>1. PICK topic \in Topics : sent = PublishTopic(topic)
        BY DEF ConfigInv
    <2>2. config = FromEnvironment(environment) /\ subscriptions_ = config.subscriptions
        BY DEF ConfigInv
    <2>3. PICK i \in {1, 2} : q = config.subscriptions[i]
        BY <2>2, TwoSubscriptions DEF ToSet
    <2>4. FindTopic(config, topic) = {q}
        BY <2>1, <2>2, <2>3, FindsTopic DEF PublishTopic
    <2>5. sent.routingKey = q.bindingKey
        BY <2>1, <2>4 DEF PublishTopic
    <2> QED
        BY <2>2, <2>5 DEF RoutedTo
<1> QED
    BY <1>1, ConfigInvariant, PTL

-----------------------------------------------------------------------------
(* Paths.                                                                   *)

\* Being a prefix, element by element.
LEMMA PrefixElements ==
    ASSUME NEW S, NEW s \in Seq(S), NEW t \in Seq(S)
    PROVE  IsPrefix(s, t) <=> Len(s) <= Len(t) /\ \A i \in 1 .. Len(s) : s[i] = t[i]
<1> DEFINE a == SubSeq(s, 1, Len(s))
           b == SubSeq(t, 1, Len(s))
<1>1. CASE ~(Len(s) <= Len(t))
    BY <1>1 DEF IsPrefix
<1>2. CASE Len(s) <= Len(t)
    <2>1. /\ \A i \in 1 .. Len(s) : s[i] \in S /\ t[i] \in S
          /\ Len(s) \in Nat /\ 1 \in Int /\ Len(s) \in Int
        BY <1>2
    <2>2. /\ a \in Seq(S) /\ Len(a) = Len(s) /\ \A i \in 1 .. Len(s) : a[i] = s[i]
          /\ b \in Seq(S) /\ Len(b) = Len(s) /\ \A i \in 1 .. Len(s) : b[i] = t[i]
        BY <2>1, SubSeqProperties
    <2> HIDE DEF a, b
    <2>3. a = b <=> \A i \in 1 .. Len(s) : s[i] = t[i]
        BY <2>2, SeqEqual
    <2> QED
        BY <1>2, <2>3 DEF IsPrefix, a, b
<1> QED
    BY <1>1, <1>2

\* What is left behind a prefix.
LEMMA RestElements ==
    ASSUME NEW S, NEW t \in Seq(S), NEW n \in Nat, n < Len(t)
    PROVE  LET rest == SubSeq(t, n + 1, Len(t)) IN
           /\ rest \in Seq(S) /\ Len(rest) = Len(t) - n
           /\ \A i \in 1 .. Len(t) - n : rest[i] = t[n + i]
<1>1. /\ n + 1 \in Int /\ Len(t) \in Int /\ Len(t) \in Nat
      /\ \A i \in n + 1 .. Len(t) : t[i] \in S
    OBVIOUS
<1> QED
    BY <1>1, SubSeqProperties

\* A path that is changed has lost the prefix, and what is left is a path.
LEMMA TakesThePrefix ==
    ASSUME NEW S, NEW prefix \in Seq(S), NEW path \in Seq(S),
           NEW rest, rest = StripPathPrefix(prefix, path), rest # path
    PROVE  rest[1] = "/" /\ path \in {prefix, prefix \o rest}
<1>1. /\ IsPrefix(prefix, path)
      /\ Len(path) > Len(prefix) => path[Len(prefix) + 1] = "/"
      /\ rest = IF Len(path) = Len(prefix) THEN <<"/">>
                ELSE SubSeq(path, Len(prefix) + 1, Len(path))
    BY Zenon DEF StripPathPrefix
<1>2. Len(prefix) <= Len(path) /\ \A i \in 1 .. Len(prefix) : prefix[i] = path[i]
    BY <1>1, PrefixElements
<1>3. CASE Len(path) = Len(prefix)
    <2>1. path = prefix
        BY <1>2, <1>3, SeqEqual
    <2> QED
        BY <1>1, <1>3, <2>1
<1>4. CASE Len(path) # Len(prefix)
    <2>1. Len(prefix) \in Nat /\ Len(path) \in Nat /\ Len(prefix) < Len(path)
        BY <1>2, <1>4
    <2>2. /\ rest \in Seq(S) /\ Len(rest) = Len(path) - Len(prefix)
          /\ \A i \in 1 .. Len(path) - Len(prefix) : rest[i] = path[Len(prefix) + i]
        BY <1>1, <1>4, <2>1, RestElements
    <2>3. rest[1] = "/"
        BY <1>1, <2>1, <2>2
    <2>4. /\ prefix \o rest \in Seq(S) /\ Len(prefix \o rest) = Len(path)
          /\ \A i \in 1 .. Len(path) :
                (prefix \o rest)[i] = IF i <= Len(prefix) THEN prefix[i] ELSE rest[i - Len(prefix)]
        BY <2>1, <2>2, ConcatProperties
    <2>5. ASSUME NEW i \in 1 .. Len(path)
          PROVE  (prefix \o rest)[i] = path[i]
        <3>1. CASE i <= Len(prefix)
            BY <1>2, <2>1, <2>4, <3>1
        <3>2. CASE ~(i <= Len(prefix))
            <4>1. /\ i - Len(prefix) \in 1 .. Len(path) - Len(prefix)
                  /\ Len(prefix) + (i - Len(prefix)) = i
                BY <2>1, <3>2
            <4> QED
                BY <2>2, <2>4, <3>2, <4>1
        <3> QED
            BY <3>1, <3>2
    <2>6. prefix \o rest = path
        BY <2>4, <2>5, SeqEqual
    <2> QED
        BY <2>3, <2>6
<1> QED
    BY <1>3, <1>4

\* A sequence with a prefix of one element begins with it.
LEMMA FirstOfPrefix ==
    ASSUME NEW S, NEW a \in S, NEW t \in Seq(S), IsPrefix(<<a>>, t)
    PROVE  t # <<>> /\ t[1] = a
<1> DEFINE one == <<a>>
<1>1. one \in Seq(S) /\ Len(one) = 1 /\ one[1] = a /\ IsPrefix(one, t)
    OBVIOUS
<1> HIDE DEF one
<1>2. Len(one) <= Len(t) /\ \A i \in 1 .. Len(one) : one[i] = t[i]
    BY <1>1, PrefixElements
<1> QED
    BY <1>1, <1>2

\* What is put behind a prefix is found again.
LEMMA FindsTheRest ==
    ASSUME NEW S, "/" \in S, NEW prefix \in Seq(S), IsPrefix(<<"/">>, prefix),
           NEW r \in Seq(S), r # <<>>, r[1] = "/"
    PROVE  StripPathPrefix(prefix, prefix \o r) = r
<1> DEFINE path == prefix \o r
           rest == SubSeq(path, Len(prefix) + 1, Len(path))
           n == Len(prefix)
           m == Len(r)
<1>1. prefix # <<>> /\ prefix[1] = "/"
    BY FirstOfPrefix
<1>2. /\ path \in Seq(S) /\ Len(path) = n + m
      /\ \A i \in 1 .. n + m : path[i] = IF i <= n THEN prefix[i] ELSE r[i - n]
    BY ConcatProperties
<1>3. n \in Nat /\ m \in Nat /\ 0 < m
    OBVIOUS
<1> HIDE DEF path
<1>4. IsPrefix(prefix, path)
    BY <1>2, <1>3, PrefixElements
<1>5. ASSUME NEW i \in 1 .. m
      PROVE  path[n + i] = r[i]
    <2>1. n + i \in 1 .. n + m /\ ~(n + i <= n) /\ (n + i) - n = i
        BY <1>3
    <2> QED
        BY <1>2, <2>1
<1>6. path[n + 1] = "/"
    BY <1>3, <1>5
<1>7. rest = r
    <2>1. n < Len(path) /\ Len(path) - n = m
        BY <1>2, <1>3
    <2>2. rest \in Seq(S) /\ Len(rest) = m /\ \A i \in 1 .. m : rest[i] = path[n + i]
        BY <1>2, <1>3, <2>1, RestElements
    <2> QED
        BY <1>5, <2>2, SeqEqual
<1>8. StripPathPrefix(prefix, path) = rest
    BY <1>1, <1>2, <1>3, <1>4, <1>6 DEF StripPathPrefix
<1> QED
    BY <1>7, <1>8 DEF path

\* Of every path, every prefix and every handler: a request is rewritten by taking the whole
\* prefix off or not at all, and the handler's public URL is rewritten to its own path.
THEOREM StripsTruly == Spec => []StripsOnlyThePrefix
<1>1. ConfigInv => StripsOnlyThePrefix
    <2> SUFFICES ASSUME ConfigInv, routed # None PROVE StripsOnlyThePrefix
        BY DEF StripsOnlyThePrefix
    <2>1. PICK path \in Paths : routed = <<path, StripPathPrefix(RoutePrefix, path)>>
        BY DEF ConfigInv
    <2>2. RoutePrefix \in Seq(STRING)
        BY EnvironmentsAssumption DEF ConfigInv, RoutePrefix
    <2>3. path \in Seq(STRING)
        BY PathsAssumption
    <2>4. routed[1] = path /\ routed[2] = StripPathPrefix(RoutePrefix, path)
        BY <2>1
    <2>5. routed[2] # routed[1] =>
              routed[2][1] = "/" /\ routed[1] \in {RoutePrefix, RoutePrefix \o routed[2]}
        BY <2>2, <2>3, <2>4, TakesThePrefix
    <2>6. ASSUME NEW r \in Routes, routed[1] = RoutePrefix \o r, IsPrefix(<<"/">>, RoutePrefix)
          PROVE  routed[2] = r
        <3>1. r \in Seq(STRING) /\ r # <<>> /\ r[1] = "/" /\ "/" \in STRING
            BY PathsAssumption
        <3> QED
            BY <2>2, <2>4, <2>6, <3>1, FindsTheRest
    <2> QED
        BY <2>5, <2>6 DEF StripsOnlyThePrefix
<1> QED
    BY <1>1, ConfigInvariant, PTL
=============================================================================
