--------------------------- MODULE MCConnectionSlot ---------------------------
(***************************************************************************)
(* ConnectionSlot on small instances.                                      *)
(***************************************************************************)
EXTENDS ConnectionSlot, TLC

\* A first connection and one reconnect.
ConnectTwice == [s \in Slots |-> 2]

\* Requests are interchangeable: nothing orders or names them.
RequestSymmetry == Permutations(Requests)
=============================================================================
