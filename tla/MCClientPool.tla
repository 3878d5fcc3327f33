----------------------------- MODULE MCClientPool -----------------------------
(***************************************************************************)
(* ClientPool on small instances.                                          *)
(***************************************************************************)
EXTENDS ClientPool, TLC

\* Slot 0 is connected again once, the others stay down when they go down.
SlotZeroReconnects == [s \in Slots |-> IF s = 0 THEN 2 ELSE 1]

RequestSymmetry == Permutations(Requests)
=============================================================================
