--------------------------- MODULE MCRabbitMqBroker ---------------------------
(***************************************************************************)
(* RabbitMqBroker on small instances.                                      *)
(***************************************************************************)
EXTENDS RabbitMqBroker, TLC

\* Every topic hashes to slot 0.
AllToFirst == [t \in Topics |-> 0]

\* Nothing orders or names publishes.
PublishSymmetry == Permutations(Publishes)

\* Bound: two publishes, or one publish and a subscription, with everything else.
FewCalls == subscriptions_ = {} \/ Cardinality(requested) <= 1
=============================================================================
