---------------------- MODULE PricingControllerProofs ----------------------
(***************************************************************************)
(* Theorems about PricingController, for any number of slots, requests and *)
(* ids: the pool under the HTTP handlers is the pool of ClientPoolProofs,  *)
(* and each request's HTTP callback is called at most once.                *)
(***************************************************************************)
EXTENDS PricingController, ClientPoolProofs

\* A handler's call has not reached a slot yet.
Calling(r) == http \in {"lock", "scan", "ask"} /\ hreq = r

\* bySecType answered the request itself, and no one else ever will.
RefusedHere(r) ==
    /\ r \notin asked /\ ~Calling(r)
    /\ responded[r] = 1 /\ queued[r] = 0

\* Every answer of the pool is passed on once: called back already, or queued.
PassedOn(r) == responded[r] + queued[r] = answered[r]

PricingInv ==
    /\ responded \in [Requests -> Int]
    /\ queued \in [Requests -> Int]
    /\ \A r \in Requests : RefusedHere(r) \/ PassedOn(r)

AnsweredOnce ==
    \A r \in Requests : /\ answered[r] \in {0, 1}
                        /\ r \notin asked => answered[r] = 0

\* What the pool's invariant says of the answers.
LEMMA AnswerFacts == PoolIInv => AnsweredOnce
<1> SUFFICES ASSUME PoolIInv PROVE AnsweredOnce
    OBVIOUS
<1>1. answered \in [Requests -> Nat]
    BY DEF PoolIInv, IInv, TypeOK
<1>2. FreshRequests /\ AnsweredAtMostOnce
    BY DEF PoolIInv, IInv, TableInv
<1>3. ASSUME NEW r \in Requests PROVE answered[r] \in {0, 1}
  <2>1. answered[r] \in Nat /\ answered[r] <= 1
      BY <1>1, <1>2 DEF AnsweredAtMostOnce
  <2> QED
      BY <2>1
<1> QED
    BY <1>2, <1>3 DEF AnsweredOnce, FreshRequests

-----------------------------------------------------------------------------
(* The pool under the handlers.                                             *)

LEMMA PoolBelow ==
    ASSUME PricingNext
    PROVE  PoolNext \/ UNCHANGED vars
<1>1. ASSUME NEW r \in Requests, BySecType(r) PROVE HttpCall(r) \/ UNCHANGED vars
    BY <1>1, Zenon DEF BySecType
<1>2. ASSUME NEW r \in Requests, Deliver(r) PROVE UNCHANGED vars
    BY <1>2, Zenon DEF Deliver
<1>3. AnswersInline => Http
    BY Zenon DEF AnswersInline
<1>4. AnswersFromThreads =>
          Monitor \/ Main \/ ShutdownBegin \/ \E s \in Slots : SlotSteps(s) /\ UNCHANGED poolVars
    BY Zenon DEF AnswersFromThreads
<1>5. StatusCall \/ StatusReturns => UNCHANGED vars
    BY Zenon DEF StatusCall, StatusReturns
<1> QED
    BY <1>1, <1>2, <1>3, <1>4, <1>5, Zenon DEF PricingNext, PoolNext

\* Only a call of the pool by a handler asks for a request.
LEMMA ThreadsAskNothing ==
    ASSUME PoolIInv, PoolNext,
           \/ Monitor \/ Main \/ ShutdownBegin
           \/ \E s \in Slots : SlotSteps(s) /\ UNCHANGED poolVars
    PROVE  UNCHANGED <<asked, http, hreq>>
<1>1. CASE Monitor
  <2>1. UNCHANGED <<http, hreq>>
      BY <1>1 DEF Monitor, MonitorLoop, MonitorLock, MonitorCheck, MonitorConnected,
                  MonitorUnlock, monitorRest
  <2>2. UNCHANGED asked
      BY <1>1 DEF Monitor, MonitorLoop, MonitorLock, MonitorCheck, MonitorConnected,
                  MonitorUnlock, ConnectCall, Call, slotVars, callerVars
  <2> QED
      BY <2>1, <2>2
<1>2. CASE Main \/ ShutdownBegin
  <2>1. UNCHANGED <<http, hreq>>
      BY <1>2 DEF Main, Initialize, ShutdownBegin, ShutdownJoin, ShutdownLock,
                  ShutdownDisconnect, ShutdownDisconnected, ShutdownDestroy,
                  ShutdownDestroyed, ShutdownUnlock, mainRest
  <2>2. UNCHANGED asked
      BY <1>2 DEF Main, Initialize, ShutdownBegin, ShutdownJoin, ShutdownLock,
                  ShutdownDisconnect, ShutdownDisconnected, ShutdownDestroy, ShutdownDestroyed,
                  ShutdownUnlock, DisconnectCall, DestroyCall, Call, slotVars, callerVars
  <2> QED
      BY <2>1, <2>2
<1>3. ASSUME NEW s \in Slots, SlotSteps(s), UNCHANGED poolVars
      PROVE  UNCHANGED <<asked, http, hreq>>
  <2>1. UNCHANGED asked
      BY <1>3, SlotStepFacts DEF PoolIInv, PoolInv, PoolNext
  <2> QED
      BY <1>3, <2>1 DEF poolVars
<1> QED
    BY <1>1, <1>2, <1>3

\* The pool's part of a handler asks for the request it was called with, and no other.
LEMMA HandlersAsk ==
    ASSUME Http
    PROVE  /\ http \in {"lock", "scan", "ask"} /\ hreq' = hreq
           /\ asked \subseteq asked' /\ asked' \subseteq asked \cup {hreq}
<1>1. http \in {"lock", "scan", "ask"} /\ hreq' = hreq
    BY DEF Http, HttpEmpty, HttpLock, HttpScan, HttpAsk, HttpNoSlot, PoolRefuses
<1>2. UNCHANGED asked \/ asked' = asked \cup {hreq}
    BY DEF Http, HttpEmpty, HttpLock, HttpScan, HttpAsk, HttpNoSlot, PoolRefuses,
           RequestStockSnapshot, slotVars, callerVars
<1> QED
    BY <1>1, <1>2

-----------------------------------------------------------------------------
(* The invariant.                                                           *)

LEMMA PricingInitially ==
    ASSUME PricingInit
    PROVE  PoolIInv /\ PricingInv
<1>1. PoolIInv
    BY PoolInitially DEF PricingInit
<1>2. \A r \in Requests : answered[r] = 0
    BY DEF PricingInit, PoolInit, Init
<1>3. PricingInv
    BY <1>2 DEF PricingInit, PricingInv, PassedOn
<1> QED
    BY <1>1, <1>3

\* A handler starts only when no other runs, and answers itself or calls the pool.
LEMMA HandlerStarts ==
    ASSUME PoolIInv, PricingInv, NEW r \in Requests, BySecType(r)
    PROVE  PricingInv'
<1>0. \A t \in Requests : ~Calling(t) /\ answered[t] \in {0, 1}
    BY AnswerFacts DEF AnsweredOnce, BySecType, IoFree, Calling
<1>1. /\ r \notin asked /\ responded[r] = 0 /\ UNCHANGED queued /\ http = "idle"
      /\ UNCHANGED <<asked, answered>>
    BY DEF BySecType, Fresh, IoFree, HttpCall, vars, slotVars, callerVars
<1>2. responded[r] = 0 /\ queued[r] = 0 /\ answered[r] = 0
    BY <1>1, AnswerFacts DEF AnsweredOnce, PricingInv, RefusedHere, PassedOn
<1>3. CASE UNCHANGED vars /\ responded' = [responded EXCEPT ![r] = @ + 1]
  <2>1. UNCHANGED <<http, hreq>>
      BY <1>3 DEF vars, poolVars
  <2>2. RefusedHere(r)'
      BY <1>0, <1>1, <1>2, <1>3, <2>1 DEF PricingInv, RefusedHere, Calling
  <2>3. \A t \in Requests \ {r} : responded'[t] = responded[t]
      BY <1>3 DEF PricingInv
  <2>4. responded' \in [Requests -> Int]
      BY <1>2, <1>3 DEF PricingInv
  <2> QED
      BY <1>1, <2>1, <2>2, <2>3, <2>4 DEF PricingInv, RefusedHere, PassedOn, Calling
<1>4. CASE HttpCall(r) /\ UNCHANGED responded
  <2>1. http' = "lock" /\ hreq' = r
      BY <1>4 DEF HttpCall
  <2>2. PassedOn(r)'
      BY <1>1, <1>2, <1>4 DEF PassedOn
  <2> QED
      BY <1>1, <1>4, <2>1, <2>2 DEF PricingInv, RefusedHere, PassedOn, Calling
<1> QED
    BY <1>3, <1>4 DEF BySecType

\* An answer of the pool is passed on in the step that gives it.
LEMMA PoolAnswers ==
    ASSUME PoolIInv, PoolIInv', PoolNext, PricingInv, AnswersInline \/ AnswersFromThreads
    PROVE  PricingInv'
<1>a. AnsweredOnce /\ AnsweredOnce'
    BY AnswerFacts, PTL
<1>0. \A r \in Requests : answered[r] \in {0, 1} /\ answered'[r] \in {0, 1}
    BY <1>a DEF AnsweredOnce
<1>1. \/ /\ responded' = [r \in Requests |-> responded[r] + Given(r)]
         /\ UNCHANGED queued
      \/ /\ queued' = [r \in Requests |-> queued[r] + Given(r)]
         /\ UNCHANGED responded
    BY DEF AnswersInline, AnswersFromThreads
<1>2. \A r \in Requests : Given(r) = answered'[r] - answered[r] /\ Given(r) \in Int
    BY <1>0 DEF Given
<1>3. responded' \in [Requests -> Int] /\ queued' \in [Requests -> Int]
    BY <1>1, <1>2 DEF PricingInv
<1>4. ASSUME NEW r \in Requests, PassedOn(r) PROVE PassedOn(r)'
  <2>1. responded[r] \in Int /\ queued[r] \in Int
      BY DEF PricingInv
  <2> QED
      BY <1>0, <1>1, <1>2, <1>4, <2>1 DEF PassedOn
<1>5. ASSUME NEW r \in Requests, RefusedHere(r) PROVE RefusedHere(r)'
  <2>1. r \notin asked' /\ ~Calling(r)'
    <3>1. CASE AnswersInline
        BY <1>5, <3>1, HandlersAsk DEF AnswersInline, RefusedHere, Calling
    <3>2. CASE AnswersFromThreads
        BY <1>5, <3>2, ThreadsAskNothing DEF AnswersFromThreads, RefusedHere, Calling
    <3> QED
        BY <3>1, <3>2
  <2>2. answered[r] = 0 /\ answered'[r] = 0
      BY <1>a, <1>5, <2>1 DEF AnsweredOnce, RefusedHere
  <2> QED
      BY <1>1, <1>2, <1>5, <2>1, <2>2 DEF RefusedHere
<1> QED
    BY <1>3, <1>4, <1>5 DEF PricingInv

LEMMA PricingStep ==
    ASSUME PoolIInv, PricingInv, [PricingNext]_pricingAll
    PROVE  PoolIInv' /\ PricingInv'
<1>1. PoolIInv'
  <2>1. UNCHANGED pricingAll => UNCHANGED vars
      BY DEF pricingAll
  <2> QED
      BY <2>1, PoolBelow, PoolStep, PoolSame
<1>2. ASSUME UNCHANGED <<vars, queued, responded>> PROVE PricingInv'
  <2>1. UNCHANGED <<asked, answered, http, hreq, queued, responded>>
      BY <1>2 DEF vars, slotVars, callerVars, poolVars
  <2> QED
      BY <2>1 DEF PricingInv, RefusedHere, PassedOn, Calling
<1>3. ASSUME NEW r \in Requests, Deliver(r) PROVE PricingInv'
  <2>1. UNCHANGED <<asked, answered, http, hreq>>
      BY <1>3 DEF Deliver, vars, slotVars, callerVars, poolVars
  <2>2. /\ queued' = [queued EXCEPT ![r] = @ - 1] /\ queued[r] > 0
        /\ responded' = [responded EXCEPT ![r] = @ + 1]
      BY <1>3 DEF Deliver
  <2>3. \A t \in Requests : PassedOn(t) => PassedOn(t)'
      BY <2>1, <2>2 DEF PricingInv, PassedOn
  <2>4. \A t \in Requests : RefusedHere(t) => RefusedHere(t)'
      BY <2>1, <2>2 DEF PricingInv, RefusedHere, Calling
  <2>5. queued' \in [Requests -> Int] /\ responded' \in [Requests -> Int]
      BY <2>2 DEF PricingInv
  <2> QED
      BY <2>3, <2>4, <2>5 DEF PricingInv
<1>4. CASE fault = "none" /\ (AnswersInline \/ AnswersFromThreads)
  <2>1. \/ Http \/ Monitor \/ Main \/ ShutdownBegin
        \/ \E s \in Slots : SlotSteps(s) /\ UNCHANGED poolVars
      BY <1>4, Zenon DEF AnswersInline, AnswersFromThreads
  <2>2. PoolNext
      BY <1>4, <2>1, Zenon DEF PoolNext
  <2> QED
      BY <1>1, <1>4, <2>2, PoolAnswers
<1>5. StatusCall \/ StatusReturns \/ UNCHANGED pricingAll => UNCHANGED <<vars, queued, responded>>
    BY DEF StatusCall, StatusReturns, pricingAll, pricingVars
<1>6. PricingInv'
    BY <1>2, <1>3, <1>4, <1>5, HandlerStarts DEF PricingNext
<1> QED
    BY <1>1, <1>6

LEMMA PricingInvariant == PricingSpec => [](PoolIInv /\ PricingInv)
<1>1. PricingInit => PoolIInv /\ PricingInv
    BY PricingInitially
<1>2. (PoolIInv /\ PricingInv) /\ [PricingNext]_pricingAll => (PoolIInv /\ PricingInv)'
    BY PricingStep
<1> QED
    BY <1>1, <1>2, PTL DEF PricingSpec

-----------------------------------------------------------------------------
(* The theorems.                                                            *)

\* Whoever answers, bySecType, the pool or a thread of a slot, the HTTP callback of a
\* request is called once at the most, what waits in the IO loop included.
THEOREM RespondsOnce == PricingSpec => []RespondedAtMostOnce
<1>1. ASSUME PoolIInv, PricingInv PROVE RespondedAtMostOnce
  <2> SUFFICES ASSUME NEW r \in Requests PROVE responded[r] + queued[r] <= 1
      BY DEF RespondedAtMostOnce
  <2>1. answered[r] \in {0, 1}
      BY <1>1, AnswerFacts DEF AnsweredOnce
  <2> QED
      BY <1>1, <2>1 DEF PricingInv, RefusedHere, PassedOn
<1> QED
    BY <1>1, PricingInvariant, PTL

\* The handlers use the pool as its specification says: every behaviour of the service is
\* one of the pool, whose theorems hold under the handlers as well.
THEOREM PoolUnderHandlers == PricingSpec => PoolSpec
<1>1. PricingInit => PoolInit
    BY DEF PricingInit
<1>2. [PricingNext]_pricingAll => [PoolNext]_vars
  <2>1. UNCHANGED pricingAll => UNCHANGED vars
      BY DEF pricingAll
  <2> QED
      BY <2>1, PoolBelow
<1> QED
    BY <1>1, <1>2, PTL DEF PricingSpec, PoolSpec

\* What the pool promises it promises the handlers.
THEOREM ServesHandlers == PricingSpec => ImplementsService
BY PoolUnderHandlers, PoolImplements, PTL
=============================================================================
