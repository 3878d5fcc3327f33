--------------------------- MODULE SnapshotService ---------------------------
(***************************************************************************)
(* What the IBKR layer promises to the HTTP handlers that call             *)
(* requestStockSnapshot: a request is asked once, it is answered at most   *)
(* once (with a price snapshot or with an error), and the prices in an     *)
(* answer are prices TWS sent for that request and for no other one.       *)
(* ConnectionSlot implements this specification.                           *)
(***************************************************************************)
EXTENDS Naturals

CONSTANT Requests   \* one value per call of requestStockSnapshot

VARIABLES asked,      \* the requests made so far
          answered,   \* how often onSuccess or onError of a request was called
          snapshot,   \* the requests whose prices went into the answer
          cancelled   \* the requests dropped by cancelMktData

vars == <<asked, answered, snapshot, cancelled>>

\* The requests whose caller still waits for a callback.
Open == {r \in asked : answered[r] = 0 /\ r \notin cancelled}

Init ==
    /\ asked = {}
    /\ answered = [r \in Requests |-> 0]
    /\ snapshot = [r \in Requests |-> {}]
    /\ cancelled = {}

Ask(r) ==
    /\ r \notin asked
    /\ asked' = asked \cup {r}
    /\ UNCHANGED <<answered, snapshot, cancelled>>

\* Asked while the slot is not connected: onError before the call returns.
Refuse(r) ==
    /\ r \notin asked
    /\ asked' = asked \cup {r}
    /\ answered' = [answered EXCEPT ![r] = @ + 1]
    /\ UNCHANGED <<snapshot, cancelled>>

Succeed(r) ==
    /\ r \in Open
    /\ answered' = [answered EXCEPT ![r] = @ + 1]
    /\ snapshot' = [snapshot EXCEPT ![r] = {r}]
    /\ UNCHANGED <<asked, cancelled>>

\* Losing the connection fails every request that is open on it in one step.
Fail(S) ==
    /\ answered' = [r \in Requests |-> answered[r] + IF r \in S THEN 1 ELSE 0]
    /\ UNCHANGED <<asked, snapshot, cancelled>>

Cancel(r) ==
    /\ r \in Open
    /\ cancelled' = cancelled \cup {r}
    /\ UNCHANGED <<asked, answered, snapshot>>

Next ==
    \/ \E r \in Requests : Ask(r) \/ Refuse(r) \/ Succeed(r) \/ Cancel(r)
    \/ \E S \in (SUBSET Open) \ {{}} : Fail(S)

Spec == Init /\ [][Next]_vars
=============================================================================
