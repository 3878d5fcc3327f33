--------------------------- MODULE PublishService ---------------------------
(***************************************************************************)
(* What the callers of publish are promised, whatever happens to the       *)
(* connections: a publish is accepted while the service is open and only   *)
(* then; an accepted one is sent once; only a service that was stopped     *)
(* throws away what it accepted.                                           *)
(***************************************************************************)
CONSTANT Publishes

VARIABLES
    phase,   \* of the service: "closed", "open", "stopped"
    outcome  \* of each publish

vars == <<phase, outcome>>

Init ==
    /\ phase = "closed"
    /\ outcome = [p \in Publishes |-> "new"]

Open ==
    /\ phase = "closed"
    /\ phase' = "open"
    /\ UNCHANGED outcome

Stop ==
    /\ phase = "open"
    /\ phase' = "stopped"
    /\ UNCHANGED outcome

Publish(p) ==
    /\ outcome[p] = "new"
    /\ outcome' = [outcome EXCEPT ![p] = IF phase = "open" THEN "accepted" ELSE "rejected"]
    /\ UNCHANGED phase

Accepted == {p \in Publishes : outcome[p] = "accepted"}

Becomes(S, what) ==
    /\ outcome' = [p \in Publishes |-> IF p \in S THEN what ELSE outcome[p]]
    /\ UNCHANGED phase

\* A slot that comes back sends all that waited for it.
Send(S) == Becomes(S, "sent")

Drop(S) ==
    /\ phase = "stopped"
    /\ Becomes(S, "dropped")

Next ==
    \/ Open \/ Stop
    \/ \E p \in Publishes : Publish(p)
    \/ \E S \in SUBSET Accepted : Send(S) \/ Drop(S)

Spec == Init /\ [][Next]_vars
=============================================================================
