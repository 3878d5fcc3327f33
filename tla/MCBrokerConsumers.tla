-------------------------- MODULE MCBrokerConsumers --------------------------
(***************************************************************************)
(* BrokerConsumers on small instances.                                     *)
(***************************************************************************)
EXTENDS BrokerConsumers

\* Every topic hashes to slot 0.
AllToFirst == [t \in Topics |-> 0]
=============================================================================
