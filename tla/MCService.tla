------------------------------ MODULE MCService ------------------------------
(***************************************************************************)
(* Service on sets of environments: those that deviate in the broker's     *)
(* variables, those that deviate in the others.                            *)
(***************************************************************************)
EXTENDS Service

Usual ==
    [url |-> Word("amqp"), exchange |-> Word("tws"), exchange_type |-> Unset,
     exchange_durable |-> Unset, exchange_auto_delete |-> Unset,
     connection_pool_size |-> Unset, channels_per_connection |-> Unset,
     publisher_pool_size |-> Unset, prefetch |-> Unset,
     queue_trade |-> Word("q1"), binding_trade |-> Unset,
     queue_pricing |-> Word("q2"), binding_pricing |-> Unset,
     ibkr_slots |-> Unset, route_prefix |-> <<"/", "tws">>]

Sizes == {Unset, Word(""), Word("x"), Number(0), Number(3), Number(-1), Number(-250),
          Number(-256), Number(255), Number(256), Text(3, "e3"), Text(256, "x")}

BrokerNumbers ==
    {[Usual EXCEPT !.connection_pool_size = a, !.channels_per_connection = b,
                   !.publisher_pool_size = c, !.prefetch = d] :
        a \in Sizes, b \in {Unset, Number(-1), Number(0)}, c \in {Unset, Number(-1), Number(255)},
        d \in Sizes \cup {Number(31), Number(32), Number(33), Text(33, "x")}}

BrokerNames ==
    {[Usual EXCEPT !.url = a, !.queue_trade = b, !.binding_trade = c,
                   !.binding_pricing = d, !.exchange_type = e, !.exchange_durable = f] :
        a \in {Unset, Word("amqp")}, b \in {Word(""), Word("q1"), Word("q2")},
        c \in {Unset, Word(""), Word("key"), Word("#")}, d \in {Unset, Word("key")},
        e \in {Unset, Word("direct"), Word("fanout"), Word("x")},
        f \in {Unset, Word("no"), Number(1)}}

Others ==
    {[Usual EXCEPT !.ibkr_slots = a, !.route_prefix = b] :
        a \in {Unset, Word(""), Number(0), Number(2), Text(2, "x")},
        b \in {<<>>, <<"tws">>, <<"/", "tws">>, <<"/", "tws", "/">>, <<"/">>}}

MCEnvironments == BrokerNumbers \cup BrokerNames \cup Others

MCRoutes == {<<"/", "ping">>, <<"/", "pricing", "/", "status">>}

MCPaths ==
    LET under(p) == {p \o r : r \in MCRoutes} IN
    MCRoutes \cup under(<<"/", "tws">>) \cup under(<<"/", "tws", "/">>)
        \cup under(<<"/", "tws", "x">>) \cup under(<<"/">>) \cup under(<<"tws">>)
        \cup {<<"/">>, <<"/", "tws">>, <<"/", "tws", "/">>, <<"/", "tws", "x">>}
=============================================================================
