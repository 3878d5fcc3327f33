------------------------- MODULE MCPricingController -------------------------
(***************************************************************************)
(* PricingController on small instances.                                   *)
(***************************************************************************)
EXTENDS PricingController

\* Slot 0 is connected again once.
SlotZeroReconnects == [s \in Slots |-> IF s = 0 THEN 2 ELSE 1]
=============================================================================
