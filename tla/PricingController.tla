-------------------------- MODULE PricingController --------------------------
(***************************************************************************)
(* The HTTP handlers over ClientPool: bySecType and the status handlers of *)
(* pricing, orders and /ping.                                              *)
(*                                                                         *)
(* bySecType answers at once, or hands the pool two callbacks that answer  *)
(* through postToAppLoop: on the IO thread itself when the pool calls them *)
(* there (a refusal), otherwise as a task queued in the IO loop, which     *)
(* runs when no handler does, and never again once the loop has ended,     *)
(* which is before the exit handler shuts the pool down.                   *)
(***************************************************************************)
EXTENDS ClientPool

VARIABLES
    inStatus,   \* the IO thread is in ClientPool::status
    queued,     \* answers that wait in the IO loop
    responded   \* how often the HTTP callback of a request was called

pricingVars == <<inStatus, queued, responded>>
pricingAll == <<vars, pricingVars>>

Refusals == {"FUT", "OPT", "unsupported", "no symbol"}

PricingInit ==
    /\ PoolInit
    /\ inStatus = FALSE
    /\ queued = [r \in Requests |-> 0]
    /\ responded = [r \in Requests |-> 0]

LoopRuns == main \in {"start", "serving"}

\* The one IO thread runs no handler.
IoFree == http = "idle" /\ ~inStatus

Fresh(r) == r \notin asked /\ responded[r] = 0

\* The answers the pool and its slots give in this step.
Given(r) == answered'[r] - answered[r]

\* Mutant: the branches for FUT and OPT do not return.
BySecTypeFallsThrough(r) ==
    /\ LoopRuns
    /\ IoFree
    /\ Fresh(r)
    /\ HttpCall(r)
    /\ \E refused \in BOOLEAN :
          responded' = [responded EXCEPT ![r] = IF refused THEN @ + 1 ELSE @]
    /\ UNCHANGED <<inStatus, queued>>

\* sendJson with 400 or 501, or a call of the pool.
BySecType(r) ==
    /\ LoopRuns
    /\ IoFree
    /\ Fresh(r)
    /\ \/ /\ \E kind \in Refusals : responded' = [responded EXCEPT ![r] = @ + 1]
          /\ UNCHANGED vars
       \/ HttpCall(r) /\ UNCHANGED responded
    /\ UNCHANGED <<inStatus, queued>>

\* runInLoop on the IO thread calls the function at once, under the pool's mutex.
AnswersInline ==
    /\ Http
    /\ responded' = [r \in Requests |-> responded[r] + Given(r)]
    /\ UNCHANGED <<inStatus, queued>>

\* runInLoop on a reader, EReader, monitor or main thread queues it.
AnswersFromThreads ==
    /\ \/ Monitor \/ Main \/ ShutdownBegin
       \/ \E s \in Slots : SlotSteps(s) /\ UNCHANGED poolVars
    /\ queued' = [r \in Requests |-> queued[r] + Given(r)]
    /\ UNCHANGED <<inStatus, responded>>

\* Mutant: the answer is taken from the queue and not passed on.
DeliverNothing(r) ==
    /\ LoopRuns
    /\ IoFree
    /\ queued[r] > 0
    /\ queued' = [queued EXCEPT ![r] = @ - 1]
    /\ UNCHANGED <<vars, inStatus, responded>>

Deliver(r) ==
    /\ LoopRuns
    /\ IoFree
    /\ queued[r] > 0
    /\ queued' = [queued EXCEPT ![r] = @ - 1]
    /\ responded' = [responded EXCEPT ![r] = @ + 1]
    /\ UNCHANGED <<vars, inStatus>>

\* The status handlers call ClientPool::status, which waits for the pool's mutex and
\* then for each slot's.
StatusCall ==
    /\ LoopRuns
    /\ IoFree
    /\ inStatus' = TRUE
    /\ UNCHANGED <<vars, queued, responded>>

StatusReturns ==
    /\ inStatus
    /\ mutex_ = "free"
    /\ \A s \in slots_ : ~wedged[s]
    /\ inStatus' = FALSE
    /\ UNCHANGED <<vars, queued, responded>>

PricingNext ==
    /\ fault = "none"
    /\ \/ \E r \in Requests : BySecType(r) \/ Deliver(r)
       \/ AnswersInline \/ AnswersFromThreads
       \/ StatusCall \/ StatusReturns

\* The IO loop runs what is queued, between handlers that all return.
PricingFairness ==
    /\ SF_pricingAll(fault = "none" /\ StatusReturns)
    /\ \A r \in Requests : SF_pricingAll(fault = "none" /\ Deliver(r))

PricingSpec ==
    PricingInit /\ [][PricingNext]_pricingAll /\ PoolFairness /\ PricingFairness

-----------------------------------------------------------------------------
(* Properties.                                                              *)

\* The HTTP callback of a request is called at most once: drogon does not forgive a
\* second response, whichever of the branches, the pool, and four kinds of threads answers.
RespondedAtMostOnce == \A r \in Requests : responded[r] + queued[r] <= 1

\* A handler that calls the pool gets through, whoever holds the mutexes when it does,
\* unless a slot is locked up for good or the process is gone.
HandlersReturn == http = "lock" \/ inStatus ~> IoFree \/ Halted

\* Every pricing request gets its response, refused or answered, through every loss of
\* the connection it waits for, unless the service ends, a slot is locked up for good,
\* its ids have wrapped or the process is gone.
EveryRequestResponded ==
    \A r \in Requests :
        (r \in asked \/ hreq = r) ~> responded[r] > 0 \/ ~LoopRuns \/ Halted \/ ~NoWrap
=============================================================================
