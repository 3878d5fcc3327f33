-------------------------- MODULE ClientPoolProofs --------------------------
(***************************************************************************)
(* Theorems about ClientPool, for any number of slots, requests and ids.   *)
(*                                                                         *)
(* The slots keep their invariant IInv under the pool: every step of the   *)
(* pool leaves the slots alone, is a step of one slot, or refuses a        *)
(* request.  The pool adds who holds mutex_ and what follows from it.      *)
(***************************************************************************)
EXTENDS ClientPool, ConnectionSlotProofs, FiniteSetTheorems

\* The holder of the mutex is in the part of its code that holds it, and whoever drives a
\* slot drives one of the pool's.
MutexInv ==
    /\ monitor = "connecting" => mi \in Slots
    /\ main \in {"disconnecting", "clearing"} => di \in Slots
    /\ mutex_ = "monitor" <=> monitor \in {"check", "connecting"}
    /\ mutex_ = "http" <=> http \in {"scan", "ask", "stuck"}
    /\ mutex_ = "main" <=> main \in {"disconnect", "disconnecting", "clear", "clearing"}

\* The slot that requestStockSnapshot looks at after k others.
Scanned(k) == (next_slot_index_ + NumSlots - 1 + k) % NumSlots

\* A call that has not reached a slot is of a fresh request, and the slots that the scan
\* has left behind are still not connected.
ScanInv ==
    /\ http \in {"lock", "scan", "ask"} => hreq \in Requests \ asked
    /\ http \in {"scan", "ask"} => NumSlots > 0
    /\ http = "scan" => \A k \in 0 .. hidx - 1 : ~connected_[Scanned(k)]

\* The vector is not emptied under a scan.
FilledInv == http \in {"scan", "ask"} => slots_ = Slots

\* A slot that is destroyed left nothing behind, unless that ended the process; and a
\* shutdown has destroyed the slots it has passed.
DrainInv ==
    /\ \A s \in Slots : opc[s] = "gone" => ~connected_[s]
    /\ \A s \in Slots : opc[s] = "gone" /\ fault = "none" => reader_thread_[s] = "none"
    /\ main \in {"clear", "clearing"} => \A s \in Slots : s < di => opc[s] = "gone"
    /\ main = "done" => fault = "none" /\ \A s \in Slots : opc[s] = "gone"
    /\ cancelled = {}

PoolInv == PoolTypes /\ MutexInv /\ OneOwner /\ ScanInv /\ FilledInv /\ DrainInv

PoolIInv == IInv /\ PoolInv

LEMMA Numbers == NumSlots \in Nat /\ Slots = 0 .. NumSlots - 1
BY PoolAssumption, FS_CardinalityType DEF NumSlots

\* What the remainder by the number of slots is, for the sums that occur.
LEMMA Remainders ==
    ASSUME NEW N \in Nat \ {0}
    PROVE  /\ \A n \in Nat : n % N \in 0 .. N - 1
           /\ \A n \in 0 .. N - 1 : n % N = n /\ (n + N) % N = n /\ (n + 2 * N) % N = n
<1>1. \A n \in Nat : n % N \in 0 .. N - 1
    OBVIOUS
<1>2. ASSUME NEW n \in 0 .. N - 1 PROVE n % N = n
    OBVIOUS
<1>3. ASSUME NEW n \in 0 .. N - 1 PROVE (n + N) % N = n
    OBVIOUS
<1>4. ASSUME NEW n \in 0 .. N - 1 PROVE (n + 2 * N) % N = n
    OBVIOUS
<1> QED
    BY <1>1, <1>2, <1>3, <1>4

\* A scan of NumSlots slots has looked at all of them, wherever it began.
LEMMA ScanCovers ==
    ASSUME next_slot_index_ \in Slots, NEW s \in Slots
    PROVE  \E k \in 0 .. NumSlots - 1 : Scanned(k) = s
<1>1. /\ NumSlots \in Nat \ {0} /\ s \in 0 .. NumSlots - 1
      /\ next_slot_index_ \in 0 .. NumSlots - 1
    BY Numbers
<1>2. CASE s = NumSlots - 1 /\ next_slot_index_ = 0
  <2>1. Scanned(0) = s % NumSlots
      BY <1>1, <1>2 DEF Scanned
  <2>2. s % NumSlots = s
      BY <1>1, Remainders
  <2>3. 0 \in 0 .. NumSlots - 1
      BY <1>1
  <2> QED
      BY <2>1, <2>2, <2>3
<1>3. CASE s >= next_slot_index_ - 1 /\ ~(s = NumSlots - 1 /\ next_slot_index_ = 0)
  <2>1. s - next_slot_index_ + 1 \in 0 .. NumSlots - 1
      BY <1>1, <1>3
  <2>2. Scanned(s - next_slot_index_ + 1) = (s + NumSlots) % NumSlots
    <3>1. next_slot_index_ + NumSlots - 1 + (s - next_slot_index_ + 1) = s + NumSlots
        BY <1>1
    <3> QED
        BY <3>1 DEF Scanned
  <2> QED
      BY <2>1, <2>2, <1>1, Remainders
<1>4. CASE s < next_slot_index_ - 1
  <2>1. s - next_slot_index_ + 1 + NumSlots \in 0 .. NumSlots - 1
      BY <1>1, <1>4
  <2>2. Scanned(s - next_slot_index_ + 1 + NumSlots) = (s + 2 * NumSlots) % NumSlots
    <3>1. next_slot_index_ + NumSlots - 1 + (s - next_slot_index_ + 1 + NumSlots)
              = s + 2 * NumSlots
        BY <1>1
    <3> QED
        BY <3>1 DEF Scanned
  <2> QED
      BY <2>1, <2>2, <1>1, Remainders
<1> QED
    BY <1>1, <1>2, <1>3, <1>4

LEMMA SlotIInv == IInv /\ [Next]_slotVars => IInv'
BY NextTypeOK, NextIInv DEF IInv

-----------------------------------------------------------------------------
(* The slots.                                                               *)

\* What the pool needs to know of a step a slot takes by itself.
LEMMA SlotStepFacts ==
    ASSUME IInv, DrainInv, fault = "none", NEW s \in Slots, SlotSteps(s)
    PROVE  /\ \A t \in Slots : opc[t] \in {"idle", "gone"} => opc'[t] = opc[t]
           /\ \A t \in Slots : connected_'[t] => connected_[t] \/ opc[t] = "c_publish"
           /\ \A t \in Slots : opc'[t] = "gone" => ~connected_'[t]
           /\ \A t \in Slots : opc'[t] = "gone" /\ fault' = "none" => reader_thread_'[t] = "none"
           /\ (\A t \in Slots : opc[t] = "gone") => fault' = fault
           /\ UNCHANGED <<asked, cancelled>>
<1> USE DEF IInv
<1>1. CASE OwnerSteps(s)
  <2>1. UNCHANGED <<asked, cancelled>> /\ opc[s] \notin {"idle", "gone"}
      BY <1>1 DEF OwnerSteps, DisconnectCheck, DisconnectStop, DisconnectJoin, DisconnectSocket,
                  DisconnectClear, ConnectBegin, ConnectFail, ConnectSocket, ConnectPublish,
                  ConnectRunning, ConnectThread, FailAllPending, callerVars
  <2>2. \A t \in Slots \ {s} : /\ opc'[t] = opc[t] /\ connected_'[t] = connected_[t]
                               /\ reader_thread_'[t] = reader_thread_[t]
      BY <1>1 DEF OwnerSteps, DisconnectCheck, DisconnectStop, DisconnectJoin, DisconnectSocket,
                  DisconnectClear, ConnectBegin, ConnectFail, ConnectSocket, ConnectPublish,
                  ConnectRunning, ConnectThread, DisconnectReturns, connVars, threadVars, TypeOK
  <2>3. connected_'[s] => connected_[s] \/ opc[s] = "c_publish"
      BY <1>1 DEF OwnerSteps, DisconnectCheck, DisconnectStop, DisconnectJoin, DisconnectSocket,
                  DisconnectClear, ConnectBegin, ConnectFail, ConnectSocket, ConnectPublish,
                  ConnectRunning, ConnectThread, connVars, TypeOK
  <2>4. /\ opc'[s] = "gone" => ~connected_'[s]
        /\ opc'[s] = "gone" /\ fault' = "none" => reader_thread_'[s] = "none"
    <3>1. CASE DisconnectCheck(s)
        BY <3>1 DEF DisconnectCheck, DisconnectReturns, connVars, threadVars, TypeOK
    <3>2. CASE DisconnectClear(s)
        BY <3>2 DEF DisconnectClear, DisconnectReturns, threadVars, TypeOK, ThreadInv, OwnerInv,
                    DisconnectSteps
    <3>3. CASE ~DisconnectCheck(s) /\ ~DisconnectClear(s)
      <4>1. opc'[s] # "gone"
          BY <1>1, <2>1, <3>3 DEF OwnerSteps, DisconnectStop, DisconnectJoin, DisconnectSocket,
                  ConnectBegin, ConnectFail, ConnectSocket, ConnectPublish, ConnectRunning,
                  ConnectThread, TypeOK
      <4> QED
          BY <4>1
    <3> QED
        BY <3>1, <3>2, <3>3
  <2>5. \A t \in Slots \ {s} : opc'[t] = "gone" =>
            ~connected_'[t] /\ (fault' = "none" => reader_thread_'[t] = "none")
      BY <2>2 DEF DrainInv
  <2> QED
      BY <2>1, <2>2, <2>3, <2>4, <2>5
<1>2. CASE ReaderSteps(s)
  <2>1. UNCHANGED <<opc, connected_, fault, asked, cancelled>>
      BY <1>2 DEF ReaderSteps, ReaderCheck, ReaderFetch, ReaderDrained, TickPrice,
                  TickSnapshotEnd, Error, DeliverHand, Dispatch, connVars, ownerVars, callerVars
  <2>2. \A t \in Slots : reader_thread_[t] = "none" => reader_thread_'[t] = "none"
      BY <1>2 DEF ReaderSteps, ReaderCheck, ReaderFetch, ReaderDrained, TickPrice,
                  TickSnapshotEnd, Error, DeliverHand, Dispatch, TypeOK
  <2> QED
      BY <2>1, <2>2 DEF DrainInv
<1>3. CASE SocketLost(s) \/ ConnectionClosed(s) \/ \E w \in wire[s] : TwsTick(s, w) \/ TwsFinishes(s, w)
  <2>1. UNCHANGED <<opc, reader_thread_, fault, asked, cancelled>>
      BY <1>3 DEF SocketLost, ConnectionClosed, FailAllPending, TwsTick, TwsFinishes, TwsSends,
                  threadVars, ownerVars, callerVars
  <2>2. \A t \in Slots : connected_'[t] => connected_[t]
      BY <1>3 DEF SocketLost, ConnectionClosed, TwsTick, TwsFinishes, TwsSends, connVars, TypeOK
  <2> QED
      BY <2>1, <2>2 DEF DrainInv
<1> QED
    BY <1>1, <1>2, <1>3 DEF SlotSteps

\* A refusal by the pool is a refusal by a slot that is not connected.
LEMMA RefusesIInv ==
    ASSUME IInv, hreq \in Requests \ asked, PoolRefuses
    PROVE  IInv'
<1>1. /\ asked' = asked \cup {hreq}
      /\ answered' = [answered EXCEPT ![hreq] = @ + 1]
      /\ UNCHANGED <<connVars, threadVars, reqVars, wedged, ownerVars, sdkVars, snapshot,
                     cancelled, fault>>
    BY DEF PoolRefuses
<1>2. TypeOK'
    BY <1>1 DEF IInv, TypeOK, connVars, threadVars, reqVars, ownerVars, sdkVars
<1>3. TableInv'
    BY <1>1, TableRefuse DEF IInv, threadVars, sdkVars
<1>4. ThreadInv'
    BY <1>1 DEF IInv, ThreadInv, OwnerInv, ReaderInv, NotStranded, PendingReqs,
                connVars, threadVars, reqVars, ownerVars, sdkVars
<1> QED
    BY <1>2, <1>3, <1>4 DEF IInv

-----------------------------------------------------------------------------
(* The pool.                                                                *)

\* Every place of the pool's threads is one of those the type lists.
LEMMA PoolTypeStep ==
    ASSUME PoolTypes, MutexInv, PoolNext
    PROVE  PoolTypes'
<1>0. NumSlots \in Nat /\ Slots = 0 .. NumSlots - 1
    BY Numbers
<1>1. CASE Monitor
  <2>1. UNCHANGED <<running_, slots_, next_slot_index_, http, hreq, hidx, main, di>>
      BY <1>1 DEF Monitor, MonitorLoop, MonitorLock, MonitorCheck, MonitorConnected,
                  MonitorUnlock, monitorRest
  <2>2. /\ mutex_' \in {"free", "monitor", "http", "main"}
        /\ monitor' \in {"none", "loop", "lock", "check", "connecting", "done"}
      BY <1>1 DEF Monitor, MonitorLoop, MonitorLock, MonitorCheck, MonitorConnected,
                  MonitorUnlock, PoolTypes
  <2>3. mi' \in 0 .. NumSlots
      BY <1>1, <1>0 DEF Monitor, MonitorLoop, MonitorLock, MonitorCheck, MonitorConnected,
                  MonitorUnlock, PoolTypes, MutexInv
  <2> QED
      BY <2>1, <2>2, <2>3 DEF PoolTypes, NumSlots
<1>2. CASE Http \/ \E r \in Requests : HttpCall(r)
  <2>1. UNCHANGED <<running_, slots_, monitor, mi, main, di>>
      BY <1>2 DEF Http, HttpEmpty, HttpLock, HttpScan, HttpAsk, HttpNoSlot, HttpCall, httpRest
  <2>2. /\ mutex_' \in {"free", "monitor", "http", "main"}
        /\ http' \in {"idle", "lock", "scan", "ask", "stuck"}
        /\ hreq' \in Requests \cup {NoReq}
      BY <1>2 DEF Http, HttpEmpty, HttpLock, HttpScan, HttpAsk, HttpNoSlot, HttpCall,
                  PoolRefuses, PoolTypes
  <2>3. hidx' \in 0 .. NumSlots
      BY <1>2, <1>0 DEF Http, HttpEmpty, HttpLock, HttpScan, HttpAsk, HttpNoSlot, HttpCall,
                  PoolRefuses, PoolTypes
  <2>4. next_slot_index_' \in Slots \cup {0}
    <3>1. CASE HttpLock
      <4>1. NumSlots \in Nat \ {0} /\ next_slot_index_ + 1 \in Nat
          BY <1>0, <3>1 DEF HttpLock, PoolTypes
      <4>2. (next_slot_index_ + 1) % NumSlots \in 0 .. NumSlots - 1
          BY <4>1, Remainders
      <4> QED
          BY <4>2, <3>1, <1>0 DEF HttpLock
    <3>2. CASE UNCHANGED next_slot_index_
        BY <3>2 DEF PoolTypes
    <3> QED
        BY <1>2, <3>1, <3>2 DEF Http, HttpEmpty, HttpScan, HttpAsk, HttpNoSlot, HttpCall
  <2> QED
      BY <2>1, <2>2, <2>3, <2>4 DEF PoolTypes, NumSlots
<1>3. CASE Main \/ ShutdownBegin
  <2>1. UNCHANGED <<next_slot_index_, mi, http, hreq, hidx>>
      BY <1>3 DEF Main, Initialize, ShutdownBegin, ShutdownJoin, ShutdownLock,
                  ShutdownDisconnect, ShutdownDisconnected, ShutdownDestroy,
                  ShutdownDestroyed, ShutdownUnlock, mainRest
  <2>2. running_' = running_ \/ running_' = TRUE \/ running_' = FALSE
      BY <1>3 DEF Main, Initialize, ShutdownBegin, ShutdownJoin, ShutdownLock,
                  ShutdownDisconnect, ShutdownDisconnected, ShutdownDestroy,
                  ShutdownDestroyed, ShutdownUnlock
  <2>3. running_' \in BOOLEAN
      BY <2>2, Zenon DEF PoolTypes
  <2>4. /\ mutex_' \in {"free", "monitor", "http", "main"}
        /\ slots_' \in {{}, Slots}
        /\ monitor' \in {"none", "loop", "lock", "check", "connecting", "done"}
        /\ main' \in {"start", "serving", "join", "lock", "disconnect", "disconnecting",
                       "clear", "clearing", "done"}
      BY <1>3 DEF Main, Initialize, ShutdownBegin, ShutdownJoin, ShutdownLock,
                  ShutdownDisconnect, ShutdownDisconnected, ShutdownDestroy,
                  ShutdownDestroyed, ShutdownUnlock, PoolTypes
  <2>5. di' \in 0 .. NumSlots
      BY <1>3, <1>0 DEF Main, Initialize, ShutdownBegin, ShutdownJoin, ShutdownLock,
                  ShutdownDisconnect, ShutdownDisconnected, ShutdownDestroy,
                  ShutdownDestroyed, ShutdownUnlock, PoolTypes, MutexInv
  <2> QED
      BY <2>1, <2>3, <2>4, <2>5 DEF PoolTypes, NumSlots
<1>4. CASE UNCHANGED poolVars
    BY <1>4 DEF poolVars, PoolTypes, NumSlots
<1> QED
    BY <1>1, <1>2, <1>3, <1>4 DEF PoolNext

\* The mutex goes from hand to hand.
LEMMA MutexStep ==
    ASSUME PoolTypes, MutexInv, PoolNext
    PROVE  MutexInv'
<1>0. NumSlots \in Nat /\ Slots = 0 .. NumSlots - 1
    BY Numbers
<1>1. CASE Monitor
    BY <1>1, <1>0 DEF Monitor, MonitorLoop, MonitorLock, MonitorCheck, MonitorConnected,
                MonitorUnlock, monitorRest, PoolTypes, MutexInv
<1>2. CASE Http \/ \E r \in Requests : HttpCall(r)
    BY <1>2 DEF Http, HttpEmpty, HttpLock, HttpScan, HttpAsk, HttpNoSlot, HttpCall,
                PoolRefuses, httpRest, MutexInv
<1>3. CASE Main \/ ShutdownBegin
  <2>1. CASE Initialize \/ ShutdownBegin \/ ShutdownJoin \/ ShutdownLock
      BY <2>1 DEF Initialize, ShutdownBegin, ShutdownJoin, ShutdownLock, mainRest, PoolTypes,
                  MutexInv
  <2>2. CASE ShutdownDisconnect \/ ShutdownDestroy
      BY <2>2, <1>0 DEF ShutdownDisconnect, ShutdownDestroy, mainRest, PoolTypes, MutexInv
  <2>3. CASE ShutdownDisconnected \/ ShutdownDestroyed \/ ShutdownUnlock
      BY <2>3 DEF ShutdownDisconnected, ShutdownDestroyed, ShutdownUnlock, mainRest,
                  PoolTypes, MutexInv
  <2> QED
      BY <1>3, <2>1, <2>2, <2>3 DEF Main
<1>4. CASE UNCHANGED poolVars
    BY <1>4 DEF poolVars, MutexInv
<1> QED
    BY <1>1, <1>2, <1>3, <1>4 DEF PoolNext

\* The pool's own steps, by what they do to the slots.
Handover ==
    \/ MonitorLoop \/ MonitorLock \/ MonitorConnected \/ MonitorUnlock
    \/ (MonitorCheck /\ UNCHANGED slotVars)
    \/ HttpLock \/ HttpScan \/ \E r \in Requests : HttpCall(r)
    \/ Initialize \/ ShutdownBegin \/ ShutdownJoin \/ ShutdownLock
    \/ ShutdownDisconnected \/ ShutdownDestroyed \/ ShutdownUnlock
MonitorConnects == MonitorCheck /\ ConnectCall(mi) /\ monitor' = "connecting" /\ UNCHANGED mi
SlotStep        == \E s \in Slots : SlotSteps(s) /\ UNCHANGED poolVars

LEMMA StepKinds ==
    ASSUME PoolNext
    PROVE  \/ Handover
           \/ MonitorConnects \/ ShutdownDisconnect \/ ShutdownDestroy
           \/ HttpEmpty \/ HttpNoSlot
           \/ HttpAsk
           \/ SlotStep
<1>1. MonitorCheck => (MonitorCheck /\ UNCHANGED slotVars) \/ MonitorConnects
    BY DEF MonitorCheck, MonitorConnects
<1> QED
    BY <1>1 DEF PoolNext, Monitor, Http, Main, Handover, SlotStep

LEMMA HandoverSlots == Handover => UNCHANGED slotVars
BY DEF Handover, MonitorLoop, MonitorLock, MonitorConnected, MonitorUnlock, HttpLock, HttpScan,
       HttpCall, Initialize, ShutdownBegin, ShutdownJoin, ShutdownLock, ShutdownDisconnected,
       ShutdownDestroyed, ShutdownUnlock

\* The slot that a request is sent to, or that is tried next.
LEMMA CandidateFacts ==
    ASSUME PoolTypes, ScanInv, http \in {"scan", "ask"}
    PROVE  Candidate \in Slots /\ \A k \in Nat : Scanned(k) \in Slots
<1>1. NumSlots \in Nat \ {0} /\ Slots = 0 .. NumSlots - 1
    BY Numbers DEF ScanInv
<1>2. next_slot_index_ \in Nat /\ hidx \in Nat
    BY <1>1 DEF PoolTypes
<1>3. ASSUME NEW k \in Nat PROVE Scanned(k) \in Slots
  <2>1. next_slot_index_ + NumSlots - 1 + k \in Nat
      BY <1>1, <1>2
  <2> QED
      BY <2>1, <1>1, Remainders DEF Scanned
<1> QED
    BY <1>2, <1>3 DEF Candidate, Scanned

\* To the slots a step of the pool is a step of theirs or the refusal of a fresh request.
LEMMA SlotsMove ==
    ASSUME PoolIInv, PoolNext
    PROVE  [Next]_slotVars \/ (hreq \in Requests \ asked /\ PoolRefuses)
<1> USE DEF PoolIInv, PoolInv
<1>0. fault = "none"
    BY DEF PoolNext
<1>1. CASE Handover
    BY <1>1, HandoverSlots
<1>2. CASE MonitorConnects
  <2>1. mi \in Slots /\ ConnectCall(mi)
      BY <1>2 DEF MonitorConnects, MonitorCheck, PoolTypes
  <2> QED
      BY <2>1, <1>0, Zenon DEF Next
<1>3. CASE ShutdownDisconnect \/ ShutdownDestroy
  <2>1. di \in Slots /\ (DisconnectCall(di) \/ DestroyCall(di))
      BY <1>3, Numbers DEF ShutdownDisconnect, ShutdownDestroy, PoolTypes
  <2> QED
      BY <2>1, <1>0, Zenon DEF Next
<1>4. CASE HttpEmpty \/ HttpNoSlot
    BY <1>4, Zenon DEF HttpEmpty, HttpNoSlot, ScanInv
<1>5. CASE HttpAsk
  <2>1. /\ Candidate \in Slots /\ hreq \in Requests
        /\ RequestStockSnapshot(Candidate, hreq)
      BY <1>5, CandidateFacts DEF HttpAsk, ScanInv
  <2> QED
      BY <2>1, <1>0, Zenon DEF Next
<1>6. CASE SlotStep
    BY <1>6, <1>0, Zenon DEF SlotStep, Next
<1> QED
    BY StepKinds, <1>1, <1>2, <1>3, <1>4, <1>5, <1>6

\* The slots keep their invariant.
LEMMA SlotsStep ==
    ASSUME PoolIInv, PoolNext
    PROVE  IInv'
BY SlotsMove, SlotIInv, RefusesIInv DEF PoolIInv

\* Whoever drives a slot holds the mutex.
LEMMA OwnerStep ==
    ASSUME PoolIInv, PoolNext
    PROVE  OneOwner'
<1> USE DEF PoolIInv, PoolInv
<1>0. opc \in [Slots -> OwnerPcs]
    BY DEF IInv, TypeOK
<1>1. CASE Handover
  <2>1. opc' = opc
      BY <1>1, HandoverSlots DEF slotVars, ownerVars
  <2>2. CASE \/ MonitorLoop \/ MonitorLock \/ MonitorConnected \/ MonitorUnlock
             \/ (MonitorCheck /\ UNCHANGED slotVars)
    <3>1. MonitorCheck /\ UNCHANGED slotVars =>
              UNCHANGED <<mutex_, main, di>> /\ monitor = "check"
        BY DEF MonitorCheck, monitorRest
    <3>2. MonitorCheck /\ UNCHANGED slotVars => mutex_ = "monitor"
        BY <3>1 DEF MutexInv
    <3> QED
        BY <2>1, <2>2, <3>1, <3>2 DEF MonitorLoop, MonitorLock, MonitorConnected, MonitorUnlock,
                monitorRest, OneOwner, MutexInv
  <2>3. CASE HttpLock \/ HttpScan \/ \E r \in Requests : HttpCall(r)
      BY <2>1, <2>3 DEF HttpLock, HttpScan, HttpCall, httpRest, OneOwner
  <2>4. CASE Initialize \/ ShutdownBegin \/ ShutdownJoin \/ ShutdownLock
             \/ ShutdownDisconnected \/ ShutdownDestroyed \/ ShutdownUnlock
      BY <2>1, <2>4 DEF Initialize, ShutdownBegin, ShutdownJoin, ShutdownLock,
              ShutdownDisconnected, ShutdownDestroyed, ShutdownUnlock, mainRest, OneOwner, MutexInv
  <2> QED
      BY <1>1, <2>2, <2>3, <2>4 DEF Handover
<1>2. CASE MonitorConnects
    BY <1>2, <1>0 DEF MonitorConnects, MonitorCheck, ConnectCall, Call, monitorRest, OneOwner,
                      MutexInv
<1>3. CASE ShutdownDisconnect \/ ShutdownDestroy
    BY <1>3, <1>0 DEF ShutdownDisconnect, ShutdownDestroy, DisconnectCall, DestroyCall, Call,
                      mainRest, OneOwner, MutexInv
<1>4. CASE HttpEmpty \/ HttpNoSlot
    BY <1>4 DEF HttpEmpty, HttpNoSlot, PoolRefuses, ownerVars, httpRest, OneOwner, MutexInv
<1>5. CASE HttpAsk
    BY <1>5 DEF HttpAsk, RequestStockSnapshot, ownerVars, httpRest, OneOwner, MutexInv
<1>6. CASE SlotStep
  <2>1. UNCHANGED <<mutex_, monitor, mi, main, di>>
      BY <1>6 DEF SlotStep, poolVars
  <2>2. \A t \in Slots : opc[t] \in {"idle", "gone"} => opc'[t] = opc[t]
      BY <1>6, SlotStepFacts DEF SlotStep, PoolNext
  <2> QED
      BY <2>1, <2>2 DEF OneOwner
<1> QED
    BY StepKinds, <1>1, <1>2, <1>3, <1>4, <1>5, <1>6

\* No slot comes up behind a scan.
LEMMA ScanStep ==
    ASSUME PoolIInv, PoolNext
    PROVE  ScanInv'
<1> USE DEF PoolIInv, PoolInv
<1>0. connected_ \in [Slots -> BOOLEAN]
    BY DEF IInv, TypeOK
<1>1. CASE Handover
  <2>1. UNCHANGED <<asked, connected_>>
      BY <1>1, HandoverSlots DEF slotVars, connVars, callerVars
  <2>2. CASE HttpScan
    <3>1. /\ UNCHANGED <<next_slot_index_, hreq>> /\ http = "scan" /\ http' \in {"scan", "ask"}
          /\ http' = "scan" => hidx' = hidx + 1 /\ ~connected_[Candidate]
        BY <2>2 DEF HttpScan
    <3>2. ASSUME http' = "scan", NEW k \in 0 .. hidx' - 1 PROVE ~connected_'[Scanned(k)']
      <4>1. CASE k = hidx
          BY <4>1, <3>1, <3>2, <2>1 DEF Scanned, Candidate
      <4>2. CASE k # hidx
        <5>1. k \in 0 .. hidx - 1
            BY <4>2, <3>1, <3>2 DEF PoolTypes
        <5>2. ~connected_[Scanned(k)]
            BY <5>1, <3>1 DEF ScanInv
        <5> QED
            BY <5>2, <3>1, <2>1 DEF Scanned
      <4> QED
          BY <4>1, <4>2
    <3>3. hreq' \in Requests \ asked' /\ NumSlots' > 0
        BY <3>1, <2>1 DEF ScanInv, NumSlots
    <3> QED
        BY <3>2, <3>3 DEF ScanInv
  <2>3. CASE HttpLock
    <3>1. http = "lock" /\ http' = "scan" /\ hidx' = 0 /\ hreq' = hreq /\ NumSlots > 0
      <4>1. slots_ # {} /\ slots_ = Slots
          BY <2>3 DEF HttpLock, PoolTypes
      <4>2. NumSlots > 0
          BY <4>1, Numbers
      <4> QED
          BY <4>2, <2>3 DEF HttpLock
    <3> QED
        BY <3>1, <2>1 DEF ScanInv, NumSlots
  <2>4. CASE \E r \in Requests : HttpCall(r)
      BY <2>1, <2>4 DEF HttpCall, ScanInv
  <2>5. CASE ~HttpScan /\ ~HttpLock /\ ~\E r \in Requests : HttpCall(r)
    <3>1. UNCHANGED <<next_slot_index_, http, hreq, hidx>>
        BY <1>1, <2>5 DEF Handover, MonitorLoop, MonitorLock, MonitorConnected, MonitorUnlock,
              MonitorCheck, monitorRest, Initialize, ShutdownBegin, ShutdownJoin, ShutdownLock,
              ShutdownDisconnected, ShutdownDestroyed, ShutdownUnlock, mainRest
    <3> QED
        BY <3>1, <2>1 DEF ScanInv, Scanned, NumSlots
  <2> QED
      BY <2>2, <2>3, <2>4, <2>5
<1>2. CASE MonitorConnects \/ ShutdownDisconnect \/ ShutdownDestroy
  <2>1. UNCHANGED <<next_slot_index_, http, hreq, hidx, asked, connected_>>
      BY <1>2 DEF MonitorConnects, MonitorCheck, ConnectCall, ShutdownDisconnect, ShutdownDestroy,
                  DisconnectCall, DestroyCall, Call, connVars, callerVars, monitorRest, mainRest
  <2> QED
      BY <2>1 DEF ScanInv, Scanned, NumSlots
<1>3. CASE HttpEmpty \/ HttpNoSlot \/ HttpAsk
  <2>1. http' \in {"idle", "stuck"}
      BY <1>3 DEF HttpEmpty, HttpNoSlot, HttpAsk, PoolRefuses
  <2> QED
      BY <2>1 DEF ScanInv
<1>4. CASE SlotStep
  <2>1. UNCHANGED <<next_slot_index_, http, hreq, hidx, mutex_, asked>>
      BY <1>4, SlotStepFacts DEF SlotStep, PoolNext, poolVars
  <2>2. \A t \in Slots : connected_'[t] => connected_[t] \/ opc[t] = "c_publish"
      BY <1>4, SlotStepFacts DEF SlotStep, PoolNext
  <2>3. ASSUME http = "scan", NEW k \in 0 .. hidx - 1 PROVE ~connected_'[Scanned(k)]
    <3>1. mutex_ = "http"
        BY <2>3 DEF MutexInv
    <3>2. \A t \in Slots : opc[t] # "c_publish"
        BY <3>1 DEF OneOwner
    <3>3. Scanned(k) \in Slots /\ ~connected_[Scanned(k)]
        BY <2>3, CandidateFacts DEF ScanInv
    <3> QED
        BY <3>2, <3>3, <2>2
  <2> QED
      BY <2>1, <2>3 DEF ScanInv, Scanned, NumSlots
<1> QED
    BY StepKinds, <1>1, <1>2, <1>3, <1>4

\* The vector is filled when a request comes, and a shutdown empties it under the mutex.
LEMMA FilledStep ==
    ASSUME PoolTypes, MutexInv, FilledInv, PoolNext
    PROVE  FilledInv'
<1>1. CASE Initialize \/ ShutdownUnlock
    BY <1>1 DEF Initialize, ShutdownUnlock, mainRest, MutexInv, FilledInv
<1>2. CASE HttpLock
    BY <1>2 DEF HttpLock, httpRest, PoolTypes, FilledInv
<1>3. CASE Monitor \/ HttpEmpty \/ HttpScan \/ HttpAsk \/ HttpNoSlot
           \/ \E r \in Requests : HttpCall(r)
    BY <1>3 DEF Monitor, MonitorLoop, MonitorLock, MonitorCheck, MonitorConnected, MonitorUnlock,
           monitorRest, HttpEmpty, HttpScan, HttpAsk, HttpNoSlot, HttpCall, PoolRefuses, httpRest,
           FilledInv
<1>4. CASE \/ ShutdownBegin \/ ShutdownJoin \/ ShutdownLock \/ ShutdownDisconnect
           \/ ShutdownDisconnected \/ ShutdownDestroy \/ ShutdownDestroyed \/ UNCHANGED poolVars
    BY <1>4 DEF ShutdownBegin, ShutdownJoin, ShutdownLock, ShutdownDisconnect,
           ShutdownDisconnected, ShutdownDestroy, ShutdownDestroyed, mainRest, poolVars, FilledInv
<1> QED
    BY <1>1, <1>2, <1>3, <1>4, Zenon DEF PoolNext, Http, Main

\* A shutdown leaves nothing behind.
LEMMA DrainStep ==
    ASSUME PoolIInv, PoolNext
    PROVE  DrainInv'
<1> USE DEF PoolIInv, PoolInv
<1>0. /\ fault = "none" /\ opc \in [Slots -> OwnerPcs]
      /\ NumSlots \in Nat /\ Slots = 0 .. NumSlots - 1
    BY Numbers DEF IInv, TypeOK, PoolNext
<1>1. CASE Handover
  <2>1. UNCHANGED <<opc, connected_, reader_thread_, fault, cancelled>>
      BY <1>1, HandoverSlots DEF slotVars, connVars, threadVars, ownerVars, callerVars
  <2>2. CASE Initialize \/ ShutdownBegin \/ ShutdownJoin \/ ShutdownLock
             \/ ShutdownDisconnected
    <3>1. /\ main' # "done"
          /\ main' \in {"clear", "clearing"} => di' = 0 \/ Slots = {}
        BY <2>2 DEF Initialize, ShutdownBegin, ShutdownJoin, ShutdownLock, ShutdownDisconnected
    <3>2. main' \in {"clear", "clearing"} => \A s \in Slots : ~(s < di')
        BY <3>1, <1>0
    <3> QED
        BY <2>1, <3>1, <3>2 DEF DrainInv
  <2>3. CASE ShutdownDestroyed
    <3>1. /\ main = "clearing" /\ main' = "clear" /\ di' = di + 1 /\ opc[di] = "gone"
          /\ di \in Nat
        BY <2>3, <1>0 DEF ShutdownDestroyed, PoolTypes
    <3>2. \A s \in Slots : s < di' => s < di \/ s = di
        BY <3>1, <1>0
    <3> QED
        BY <2>1, <3>1, <3>2 DEF DrainInv
  <2>4. CASE ShutdownUnlock
    <3>1. main = "clear" /\ main' = "done" /\ di = NumSlots
        BY <2>4 DEF ShutdownUnlock
    <3>2. \A s \in Slots : s < di
        BY <3>1, <1>0
    <3> QED
        BY <2>1, <3>1, <3>2, <1>0 DEF DrainInv
  <2>5. CASE ~(Initialize \/ ShutdownBegin \/ ShutdownJoin \/ ShutdownLock
               \/ ShutdownDisconnected \/ ShutdownDestroyed \/ ShutdownUnlock)
    <3>1. UNCHANGED <<main, di>>
        BY <1>1, <2>5 DEF Handover, MonitorLoop, MonitorLock, MonitorConnected, MonitorUnlock,
              MonitorCheck, monitorRest, HttpLock, HttpScan, HttpCall, httpRest
    <3> QED
        BY <2>1, <3>1 DEF DrainInv
  <2> QED
      BY <2>2, <2>3, <2>4, <2>5
<1>2. CASE MonitorConnects \/ ShutdownDisconnect \/ ShutdownDestroy
  <2>1. UNCHANGED <<connected_, reader_thread_, fault, cancelled, di>>
      BY <1>2 DEF MonitorConnects, MonitorCheck, ConnectCall, ShutdownDisconnect, ShutdownDestroy,
                  DisconnectCall, DestroyCall, Call, connVars, threadVars, callerVars,
                  monitorRest, mainRest
  <2>2. \A t \in Slots : (opc'[t] = "gone") <=> (opc[t] = "gone")
      BY <1>2, <1>0 DEF MonitorConnects, ConnectCall, ShutdownDisconnect, ShutdownDestroy,
                  DisconnectCall, DestroyCall, Call
  <2>3. /\ main' # "done" \/ main' = main
        /\ main' \in {"clear", "clearing"} => main \in {"clear", "clearing"}
      BY <1>2 DEF MonitorConnects, MonitorCheck, ShutdownDisconnect, ShutdownDestroy, monitorRest
  <2> QED
      BY <2>1, <2>2, <2>3 DEF DrainInv
<1>3. CASE HttpEmpty \/ HttpNoSlot \/ HttpAsk
  <2>1. UNCHANGED <<opc, connected_, reader_thread_, fault, cancelled, main, di>>
      BY <1>3 DEF HttpEmpty, HttpNoSlot, HttpAsk, PoolRefuses, RequestStockSnapshot, connVars,
                  threadVars, ownerVars, httpRest
  <2> QED
      BY <2>1 DEF DrainInv
<1>4. CASE SlotStep
  <2>1. UNCHANGED <<cancelled, main, di>>
      BY <1>4, <1>0, SlotStepFacts DEF SlotStep, poolVars
  <2>2. /\ \A t \in Slots : opc[t] = "gone" => opc'[t] = "gone"
        /\ \A t \in Slots : opc'[t] = "gone" => ~connected_'[t]
        /\ \A t \in Slots : opc'[t] = "gone" /\ fault' = "none" => reader_thread_'[t] = "none"
        /\ (\A t \in Slots : opc[t] = "gone") => fault' = fault
      BY <1>4, <1>0, SlotStepFacts DEF SlotStep
  <2> QED
      BY <2>1, <2>2 DEF DrainInv
<1> QED
    BY StepKinds, <1>1, <1>2, <1>3, <1>4

\* No slot is looked at before the pool is initialized.
LEMMA PoolInitially == PoolInit => PoolIInv
<1> SUFFICES ASSUME PoolInit PROVE PoolIInv
    OBVIOUS
<1>0. NumSlots \in Nat
    BY Numbers
<1>1. IInv
    BY InitTypeOK, InitIInv DEF PoolInit, IInv
<1>2. running_ \in BOOLEAN
    BY Zenon DEF PoolInit
<1>3. PoolTypes
    BY <1>0, <1>2 DEF PoolInit, PoolTypes
<1>4. MutexInv /\ ScanInv
    BY DEF PoolInit, MutexInv, ScanInv
<1>5. OneOwner /\ FilledInv /\ DrainInv
    BY DEF PoolInit, Init, OneOwner, FilledInv, DrainInv
<1> QED
    BY <1>1, <1>3, <1>4, <1>5 DEF PoolIInv, PoolInv

LEMMA PoolStep ==
    ASSUME PoolIInv, PoolNext
    PROVE  PoolIInv'
BY SlotsStep, PoolTypeStep, MutexStep, OwnerStep, ScanStep, FilledStep, DrainStep
   DEF PoolIInv, PoolInv

LEMMA PoolSame ==
    ASSUME PoolIInv, UNCHANGED vars
    PROVE  PoolIInv'
<1>1. IInv'
    BY SlotIInv DEF vars, PoolIInv
<1>2. PoolInv'
    BY DEF PoolIInv, PoolInv, vars, slotVars, connVars, threadVars, ownerVars, callerVars,
           poolVars, PoolTypes, MutexInv, OneOwner, ScanInv, FilledInv, DrainInv, Scanned,
           NumSlots
<1> QED
    BY <1>1, <1>2 DEF PoolIInv

LEMMA PoolInvariant == PoolSpec => []PoolIInv
<1>1. PoolIInv /\ [PoolNext]_vars => PoolIInv'
    BY PoolStep, PoolSame
<1> QED
    BY <1>1, PoolInitially, PTL DEF PoolSpec

-----------------------------------------------------------------------------
(* What the pool promises.                                                  *)

\* The variables of the pool keep their types, and the index used on slots_ stays in range,
\* for any number of slots.
THEOREM PoolTypeCorrect == PoolSpec => []PoolTypeOK
<1>1. ASSUME PoolIInv PROVE PoolTypeOK
  <2>1. PoolTypes /\ ScanInv /\ FilledInv
      BY <1>1 DEF PoolIInv, PoolInv
  <2>2. http \in {"scan", "ask"} => Candidate \in Slots
      BY <2>1, CandidateFacts
  <2> QED
      BY <2>1, <2>2 DEF PoolTypeOK, FilledInv
<1> QED
    BY <1>1, PoolInvariant, PTL

\* The monitor and a shutdown never drive the same slot, and neither does so without
\* the pool's mutex.
THEOREM DrivenByOne == PoolSpec => []OneOwner
<1>1. PoolIInv => OneOwner
    BY DEF PoolIInv, PoolInv
<1> QED
    BY <1>1, PoolInvariant, PTL

\* A caller who is told that no slot is connected is told the truth: the scan has
\* looked at every slot, wherever next_slot_index_ stood.
THEOREM RefusesTruly == PoolSpec => []NoFalseRefusal
<1>1. ASSUME PoolIInv PROVE NoFalseRefusal
  <2>1. SUFFICES ASSUME http = "scan", hidx = NumSlots, NEW s \in Slots PROVE ~connected_[s]
      BY DEF NoFalseRefusal
  <2>2. next_slot_index_ \in Slots
      BY <1>1, Numbers DEF PoolIInv, PoolInv, PoolTypes
  <2>3. PICK k \in 0 .. NumSlots - 1 : Scanned(k) = s
      BY <2>2, ScanCovers
  <2> QED
      BY <1>1, <2>1, <2>3 DEF PoolIInv, PoolInv, ScanInv
<1> QED
    BY <1>1, PoolInvariant, PTL

\* What callers see of the whole pool is what SnapshotService allows, as if it were one slot:
\* its monitor, its scan and its shutdown answer nobody twice and nobody with prices of another.
THEOREM PoolImplements == PoolSpec => ImplementsService
<1>1. PoolInit => ServiceInit
    BY DEF PoolInit, Init, ServiceInit, Service!Init
<1>2. ASSUME PoolIInv, PoolNext, NoWrap' PROVE Service!Next \/ UNCHANGED callerVars
  <2>1. CASE [Next]_slotVars
      BY <1>2, <2>1, ServesCallers DEF PoolIInv
  <2>2. CASE hreq \in Requests \ asked /\ PoolRefuses
    <3>1. Service!Refuse(hreq)
        BY <2>2 DEF PoolRefuses, Service!Refuse
    <3> QED
        BY <2>2, <3>1 DEF Service!Next
  <2> QED
      BY <1>2, <2>1, <2>2, SlotsMove
<1>3. UNCHANGED vars => UNCHANGED callerVars
    BY DEF vars, slotVars
<1>4. PoolIInv /\ [PoolNext]_vars => [NoWrap' => Service!Next]_(Service!vars)
    BY <1>2, <1>3 DEF callerVars, Service!vars
<1> QED
    BY <1>1, <1>4, PoolInvariant, PTL DEF PoolSpec, ImplementsService

\* When shutdown has returned, no caller waits and no thread is left.
THEOREM ShutsDownClean == PoolSpec => []ShutdownDrains
<1>1. ASSUME PoolIInv PROVE ShutdownDrains
  <2> USE <1>1 DEF PoolIInv, PoolInv, IInv
  <2>1. SUFFICES ASSUME main = "done"
                 PROVE  /\ \A s \in Slots : reader_thread_[s] = "none" /\ ~socket[s]
                        /\ NoWrap => \A r \in asked : answered[r] = 1
      BY DEF ShutdownDrains
  <2>2. \A s \in Slots : opc[s] = "gone" /\ ~connected_[s] /\ reader_thread_[s] = "none"
      BY <2>1 DEF DrainInv
  <2>3. \A s \in Slots : ~socket[s] /\ PendingReqs(s) = {}
      BY <2>2 DEF ThreadInv, OwnerInv, NotStranded, DisconnectSteps
  <2>4. \A s \in Slots : hand[s].req = NoReq
      BY <2>2 DEF ThreadInv, ReaderInv
  <2>5. ASSUME NoWrap, NEW r \in asked PROVE answered[r] = 1
    <3>1. r \in Requests /\ answered[r] \in Nat
        BY DEF TypeOK
    <3>2. ~Held(r)
        BY <3>1, <2>3, <2>4, NoReqAssumption DEF Held
    <3>3. answered[r] # 0
        BY <3>2, <2>5 DEF TableInv, NoRequestLost, NothingDropped, DrainInv
    <3>4. answered[r] <= 1
        BY <3>1 DEF TableInv, AnsweredAtMostOnce
    <3> QED
        BY <3>1, <3>3, <3>4
  <2> QED
      BY <2>2, <2>3, <2>5
<1> QED
    BY <1>1, PoolInvariant, PTL
=============================================================================
