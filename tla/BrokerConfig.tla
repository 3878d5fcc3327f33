---------------------------- MODULE BrokerConfig ----------------------------
(***************************************************************************)
(* BrokerConfig::fromEnvironment and findTopic, and what RabbitMqBroker    *)
(* makes of the exchange's settings.                                       *)
(*                                                                         *)
(* A variable of the environment is unset or holds a text: a word, which   *)
(* no digit leads, or a number and the rest of the text behind its digits. *)
(* The greatest size_t and unsigned long is SizeMax, the greatest uint16_t *)
(* Uint16Max; a number below zero wraps as it does in strtoull.  What      *)
(* throws is a predicate beside the value.                                 *)
(***************************************************************************)
EXTENDS Integers, Sequences, SequencesExt

CONSTANTS SizeMax, Uint16Max

ASSUME WidthAssumption ==
    SizeMax \in Nat /\ Uint16Max \in Nat /\ 0 < Uint16Max /\ Uint16Max <= SizeMax

Unset == [kind |-> "unset"]
Word(w) == [kind |-> "word", word |-> w]
Text(n, rest) == [kind |-> "number", number |-> n, rest |-> rest]
Number(n) == Text(n, "")

\* What a variable holds.
IsVariable(v) ==
    \/ v = Unset
    \/ v.kind = "word" /\ v.word \in STRING /\ v = Word(v.word)
    \/ /\ v.kind = "number" /\ v.number \in Int /\ v.rest \in STRING
       /\ v = Text(v.number, v.rest)

Missing(v) == v \in {Unset, Word("")}
Larger(a, b) == IF a < b THEN b ELSE a

RequireEnvThrows(v) == Missing(v)
EnvOrDefault(v, default) == IF Missing(v) THEN default ELSE v
EnvFlag(v, default) ==
    IF Missing(v) THEN default ELSE v \in {Number(1), Word("true"), Word("yes"), Word("on")}

\* std::stoull and std::stoul: invalid_argument when no digit leads, out_of_range, and the
\* value, which is the number the text begins with: "10x" is 10, "1e3" is 1.
ParseThrows(v) == v.kind = "word" \/ v.number < -SizeMax \/ SizeMax < v.number
Parsed(v) == IF v.number < 0 THEN v.number + (SizeMax + 1) ELSE v.number

EnvSizeThrows(v) == ~Missing(v) /\ ParseThrows(v)
EnvSize(v, default) == IF Missing(v) THEN default ELSE Parsed(v)

\* Mutant: no check of the range before the cast.
EnvUint16ThrowsUnparsed(v) == ~Missing(v) /\ ParseThrows(v)

EnvUint16Throws(v) == ~Missing(v) /\ (ParseThrows(v) \/ Parsed(v) > Uint16Max)
EnvUint16(v, default) == IF Missing(v) THEN default ELSE Parsed(v) % (Uint16Max + 1)

BuildTopicConfig(topic, queue, binding, prefetch) ==
    [topic      |-> topic,
     queueName  |-> queue,
     bindingKey |-> EnvOrDefault(binding, Word(topic)),
     prefetch   |-> prefetch]

\* The sizes and flags a BrokerConfig starts with are the defaults.
FromEnvironment(env) ==
    LET prefetch == Larger(1, EnvUint16(env.prefetch, 10)) IN
    [exchange              |-> [name       |-> env.exchange,
                                type       |-> EnvOrDefault(env.exchange_type, Word("topic")),
                                durable    |-> EnvFlag(env.exchange_durable, TRUE),
                                autoDelete |-> EnvFlag(env.exchange_auto_delete, FALSE)],
     connectionPoolSize    |-> Larger(1, EnvSize(env.connection_pool_size, 1)),
     channelsPerConnection |-> Larger(1, EnvSize(env.channels_per_connection, 2)),
     publisherPoolSize     |-> Larger(1, EnvSize(env.publisher_pool_size, 2)),
     prefetch              |-> prefetch,
     subscriptions         |->
        <<BuildTopicConfig("trade.execute", env.queue_trade, env.binding_trade, prefetch),
          BuildTopicConfig("pricing.update", env.queue_pricing, env.binding_pricing, prefetch)>>]

FromEnvironmentThrows(env) ==
    \/ \E v \in {env.url, env.exchange, env.queue_trade, env.queue_pricing} :
          RequireEnvThrows(v)
    \/ \E v \in {env.connection_pool_size, env.channels_per_connection,
                 env.publisher_pool_size} : EnvSizeThrows(v)
    \/ EnvUint16Throws(env.prefetch)

\* The first subscription of a topic, as a set of at most one.
FindTopic(config, topic) ==
    LET of(i) == config.subscriptions[i].topic = topic IN
    {config.subscriptions[i] :
        i \in {i \in DOMAIN config.subscriptions : of(i) /\ \A j \in 1 .. i - 1 : ~of(j)}}

ExchangeTypes == {"direct", "fanout", "headers", "consistent_hash", "message_deduplication"}

ExchangeType(config) ==
    IF \E t \in ExchangeTypes : config.exchange.type = Word(t)
    THEN config.exchange.type.word ELSE "topic"

\* rebuildChannels opens this many publisher channels on a connection.
PublisherChannels(config) ==
    Larger(1, IF config.channelsPerConnection < config.publisherPoolSize
              THEN config.channelsPerConnection ELSE config.publisherPoolSize)
=============================================================================
