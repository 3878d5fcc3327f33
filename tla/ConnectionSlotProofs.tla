------------------------ MODULE ConnectionSlotProofs ------------------------
(***************************************************************************)
(* Proofs about ConnectionSlot, for every set of slots and requests, every *)
(* range size and every bound.                                             *)
(***************************************************************************)
EXTENDS ConnectionSlot, TLAPS

\* The ids of a slot: its range is not empty, and the step of the id counter,
\* with its wrap, stays inside it.
LEMMA IdFacts ==
    ASSUME NEW s \in Slots
    PROVE  /\ ReqIds(s) \subseteq AllIds
           /\ ReqIds(s) \subseteq Int
           /\ ReqIdStart(s) \in ReqIds(s)
           /\ \A id \in ReqIds(s) : id + 1 <= ReqIdEnd(s) => id + 1 \in ReqIds(s)
           /\ \A id \in ReqIds(s) : ReqIdStart(s) <= id
<1>1. ReqIds(s) \subseteq AllIds
  BY DEF AllIds
<1>2. ReqIdStart(s) \in Int /\ RangeSize \in Nat \ {0}
  BY SlotsAssumption, RangeAssumption DEF ReqIdStart
<1> QED
  BY <1>1, <1>2 DEF ReqIds, ReqIdEnd

-----------------------------------------------------------------------------
\* The constructor's state has the right types.
LEMMA InitTypeOK == Init => TypeOK
<1> SUFFICES ASSUME Init PROVE TypeOK
  OBVIOUS
<1> USE DEF Init, TypeOK
<1>1. NoEntry \in Entries
  BY DEF NoEntry, Entries
<1>2. \A s \in Slots : ReqIdStart(s) \in ReqIds(s) /\ ReqIdStart(s) \in AllIds
  BY IdFacts
<1>3. next_req_id_ \in [Slots -> AllIds] /\ \A s \in Slots : next_req_id_[s] \in ReqIds(s)
  BY <1>2
<1>4. /\ hand \in [Slots -> Entries]
      /\ pending_stk_ \in [Slots -> [AllIds -> Entries]]
  BY <1>1
<1>5. /\ opc \in [Slots -> OwnerPcs]
      /\ rpc \in [Slots -> ReaderPcs]
  BY DEF OwnerPcs, ReaderPcs
<1>6. inbox \in [Slots -> Seq(Messages)]
  OBVIOUS
<1> QED
  BY <1>3, <1>4, <1>5, <1>6

USE DEF connVars, threadVars, reqVars, ownerVars, sdkVars, callerVars

\* The steps of the owner keep the types.
LEMMA OwnerTypeOK ==
    ASSUME TypeOK, NEW s \in Slots, OwnerSteps(s)
    PROVE  TypeOK'
<1> USE DEF TypeOK
<1>0. /\ NoEntry \in Entries
      /\ ReqIdStart(s) \in ReqIds(s) /\ ReqIdStart(s) \in AllIds
  BY IdFacts DEF NoEntry, Entries
<1>p. ASSUME FailAllPending(s)
      PROVE  /\ pending_stk_' \in [Slots -> [AllIds -> Entries]]
             /\ answered' \in [Requests -> Nat]
  BY <1>0, <1>p DEF FailAllPending
<1>r. ASSUME DisconnectReturns(s, reader_thread_[s])
      PROVE  /\ opc' \in [Slots -> OwnerPcs]
             /\ fault' \in {"none", "terminate", "freed_reader"}
  BY <1>r DEF DisconnectReturns, OwnerPcs
<1>1. CASE DisconnectCheck(s)
  BY <1>1, <1>r DEF DisconnectCheck, OwnerPcs, DisconnectSteps
<1>2. CASE DisconnectStop(s)
  BY <1>2 DEF DisconnectStop, OwnerPcs, DisconnectSteps
<1>3. CASE DisconnectJoin(s)
  BY <1>3 DEF DisconnectJoin, OwnerPcs, DisconnectSteps
<1>4. CASE DisconnectSocket(s)
  BY <1>4 DEF DisconnectSocket, OwnerPcs, DisconnectSteps
<1>5. CASE DisconnectClear(s)
  <2>1. CASE closing[s]
    BY <1>5, <2>1 DEF DisconnectClear, OwnerPcs
  <2>2. CASE ~closing[s]
    <3>1. FailAllPending(s) /\ DisconnectReturns(s, reader_thread_[s])
      BY <1>5, <2>2 DEF DisconnectClear
    <3>2. inbox' \in [Slots -> Seq(Messages)] /\ reader_' \in [Slots -> BOOLEAN]
      <4>1. /\ inbox' = [inbox EXCEPT ![s] = <<>>]
            /\ reader_' = [reader_ EXCEPT ![s] = FALSE]
        BY <1>5, <2>2 DEF DisconnectClear
      <4>2. <<>> \in Seq(Messages)
        OBVIOUS
      <4> QED
        BY <4>1, <4>2
    <3>3. UNCHANGED <<connected_, connecting_, reader_running_, wedged, threadVars,
                      purpose, connects, socket, closing, wire, next_req_id_, wrapped,
                      asked, snapshot, cancelled>>
      BY <1>5, <2>2 DEF DisconnectClear, FailAllPending
    <3> QED
      BY <3>1, <3>2, <3>3, <1>p, <1>r
  <2> QED
    BY <2>1, <2>2
<1>6. CASE ConnectBegin(s)
  BY <1>6 DEF ConnectBegin, OwnerPcs
<1>7. CASE ConnectFail(s)
  BY <1>7 DEF ConnectFail, OwnerPcs
<1>8. CASE ConnectSocket(s)
  BY <1>8 DEF ConnectSocket, OwnerPcs
<1>9. CASE ConnectPublish(s)
  BY <1>0, <1>9 DEF ConnectPublish, OwnerPcs
<1>10. CASE ConnectRunning(s)
  BY <1>10 DEF ConnectRunning, OwnerPcs
<1>11. CASE ConnectThread(s)
  BY <1>11 DEF ConnectThread, OwnerPcs, ReaderPcs
<1> QED
  BY <1>1, <1>2, <1>3, <1>4, <1>5, <1>6, <1>7, <1>8, <1>9, <1>10, <1>11 DEF OwnerSteps

\* What a queue of messages gives and keeps.
LEMMA InboxFacts ==
    ASSUME NEW q \in Seq(Messages)
    PROVE  /\ q # <<>> => Head(q) \in Messages /\ Tail(q) \in Seq(Messages)
           /\ \A m \in Messages : Append(q, m) \in Seq(Messages)
OBVIOUS

\* The steps of readerLoop and of its callbacks keep the types.
LEMMA ReaderTypeOK ==
    ASSUME TypeOK, NEW s \in Slots, ReaderSteps(s)
    PROVE  TypeOK'
<1> USE DEF TypeOK
<1> DEFINE m == Head(inbox[s])
<1>1. CASE ReaderCheck(s)
  BY <1>1 DEF ReaderCheck, ReaderPcs
<1>2. CASE ReaderFetch(s)
  BY <1>2 DEF ReaderFetch, ReaderPcs
<1>3. CASE ReaderDrained(s)
  BY <1>3 DEF ReaderDrained, ReaderPcs
<1>d. ASSUME NEW kinds, Dispatch(s, kinds)
      PROVE  /\ m.id \in AllIds /\ m.req \in Requests /\ inbox' \in [Slots -> Seq(Messages)]
             /\ UNCHANGED <<connVars, reader_thread_, next_req_id_, wrapped, ownerVars,
                            socket, closing, callerVars, fault>>
  <2>1. inbox[s] \in Seq(Messages) /\ inbox[s] # <<>>
    BY <1>d DEF Dispatch
  <2>2. m \in Messages /\ Tail(inbox[s]) \in Seq(Messages)
    BY <2>1, InboxFacts
  <2>3. m.id \in AllIds /\ m.req \in Requests
    BY <2>2 DEF Messages
  <2> QED
    BY <1>d, <2>2, <2>3 DEF Dispatch
<1>e. /\ NoEntry \in Entries
      /\ \A id \in AllIds : pending_stk_[s][id] \in Entries
      /\ \A id \in AllIds : [req |-> pending_stk_[s][id].req, ticks |-> {}] \in Entries
  BY DEF NoEntry, Entries
<1>w. ASSUME NEW id \in AllIds, CancelOnWire(s, id)
      PROVE  /\ wire' \in [Slots -> SUBSET Subscriptions]
             /\ wedged' \in [Slots -> BOOLEAN]
  BY <1>w DEF CancelOnWire
<1>4. CASE TickPrice(s)
  <2>1. Dispatch(s, {"price", "other"}) /\ UNCHANGED <<rpc, hand, wedged, wire>>
    BY <1>4 DEF TickPrice
  <2>2. m.id \in AllIds /\ m.req \in Requests
    BY <2>1, <1>d
  <2>3. pending_stk_' \in [Slots -> [AllIds -> Entries]]
    <3> DEFINE e == pending_stk_[s][m.id]
    <3>1. e \in Entries
      BY <2>2
    <3>2. [req |-> e.req, ticks |-> e.ticks \cup {m.req}] \in Entries
      BY <3>1, <2>2 DEF Entries
    <3> QED
      BY <1>4, <2>2, <3>2 DEF TickPrice
  <2> QED
    BY <2>1, <2>3, <1>d
<1>5. CASE TickSnapshotEnd(s)
  <2>1. Dispatch(s, {"end"})
    BY <1>5 DEF TickSnapshotEnd
  <2>2. m.id \in AllIds
    BY <2>1, <1>d
  <2>3. CASE ~IsPending(s, m.id)
    BY <1>5, <2>1, <2>3, <1>d DEF TickSnapshotEnd
  <2>4. CASE IsPending(s, m.id)
    <3>1. /\ CancelOnWire(s, m.id)
          /\ pending_stk_' = [pending_stk_ EXCEPT ![s][m.id] = NoEntry]
          /\ hand' = [hand EXCEPT ![s] = pending_stk_[s][m.id]]
          /\ rpc' = [rpc EXCEPT ![s] = IF wedged'[s] THEN "stuck" ELSE "deliver"]
      BY <1>5, <2>4 DEF TickSnapshotEnd
    <3>2. /\ pending_stk_' \in [Slots -> [AllIds -> Entries]]
          /\ hand' \in [Slots -> Entries]
          /\ rpc' \in [Slots -> ReaderPcs]
      BY <3>1, <2>2, <1>e DEF ReaderPcs
    <3> QED
      BY <3>1, <3>2, <2>1, <2>2, <1>d, <1>w
  <2> QED
    BY <2>3, <2>4
<1>6. CASE Error(s)
  <2>1. Dispatch(s, {"error"})
    BY <1>6 DEF Error
  <2>2. m.id \in AllIds
    BY <2>1, <1>d
  <2>3. CASE ~IsPending(s, m.id)
    BY <1>6, <2>1, <2>3, <1>d DEF Error
  <2>4. CASE IsPending(s, m.id)
    <3>1. CancelOnWire(s, m.id)
      BY <1>6, <2>4 DEF Error
    <3>2. \/ /\ rpc' = [rpc EXCEPT ![s] = "stuck"]
             /\ pending_stk_' = pending_stk_ /\ hand' = hand
          \/ /\ rpc' = [rpc EXCEPT ![s] = "deliver"]
             /\ hand' = [hand EXCEPT ![s] = [req |-> pending_stk_[s][m.id].req, ticks |-> {}]]
             /\ pending_stk_' = [pending_stk_ EXCEPT ![s][m.id] = NoEntry]
      BY <1>6, <2>4 DEF Error
    <3>3. /\ pending_stk_' \in [Slots -> [AllIds -> Entries]]
          /\ hand' \in [Slots -> Entries]
          /\ rpc' \in [Slots -> ReaderPcs]
      <4>1. [pending_stk_ EXCEPT ![s][m.id] = NoEntry] \in [Slots -> [AllIds -> Entries]]
        BY <2>2, <1>e
      <4>2. [hand EXCEPT ![s] = [req |-> pending_stk_[s][m.id].req, ticks |-> {}]]
                \in [Slots -> Entries]
        BY <2>2, <1>e
      <4> QED
        BY <3>2, <4>1, <4>2 DEF ReaderPcs
    <3> QED
      BY <3>1, <3>3, <2>1, <2>2, <1>d, <1>w
  <2> QED
    BY <2>3, <2>4
<1>7. CASE DeliverHand(s)
  <2>1. hand[s].ticks \in SUBSET Requests
    BY DEF Entries
  <2> QED
    <3>1. answered' \in [Requests -> Nat] /\ snapshot' \in [Requests -> SUBSET Requests]
      <4>1. CASE hand[s].req \in Requests
        BY <1>7, <2>1, <4>1 DEF DeliverHand
      <4>2. CASE hand[s].req \notin Requests
        BY <1>7, <4>2 DEF DeliverHand
      <4> QED
        BY <4>1, <4>2
    <3>2. hand' \in [Slots -> Entries] /\ rpc' \in [Slots -> ReaderPcs]
      BY <1>7, <1>e DEF DeliverHand, ReaderPcs
    <3> QED
      BY <1>7, <3>1, <3>2 DEF DeliverHand
<1> QED
  BY <1>1, <1>2, <1>3, <1>4, <1>5, <1>6, <1>7 DEF ReaderSteps

\* Calls, the EReader thread and TWS keep the types.
LEMMA CallTypeOK ==
    ASSUME TypeOK, NEW s \in Slots,
           \/ ConnectCall(s) \/ DisconnectCall(s) \/ DestroyCall(s)
           \/ \E r \in Requests : RequestStockSnapshot(s, r)
           \/ \E id \in ReqIds(s) : CancelMktData(s, id)
           \/ SocketLost(s) \/ ConnectionClosed(s)
           \/ \E w \in wire[s] : TwsTick(s, w) \/ TwsFinishes(s, w)
    PROVE  TypeOK'
<1> USE DEF TypeOK
<1>1. CASE ConnectCall(s)
  BY <1>1 DEF ConnectCall, Call, OwnerPcs
<1>2. CASE DisconnectCall(s) \/ DestroyCall(s)
  BY <1>2 DEF DisconnectCall, DestroyCall, Call, OwnerPcs
<1>3. ASSUME NEW r \in Requests, RequestStockSnapshot(s, r) PROVE TypeOK'
  <2>1. CASE RefuseSnapshot(s, r)
    BY <1>3, <2>1 DEF RequestStockSnapshot, RefuseSnapshot
  <2>2. CASE AcceptSnapshot(s, r)
    <3> DEFINE id == next_req_id_[s]
    <3>1. id \in ReqIds(s) /\ id \in AllIds
      OBVIOUS
    <3>2. next_req_id_'[s] \in ReqIds(s)
      <4>1. id \in Int /\ ReqIdEnd(s) \in Int
        BY <3>1, IdFacts, SlotsAssumption, RangeAssumption DEF ReqIdEnd, ReqIdStart
      <4>2. next_req_id_'[s] = IF id + 1 > ReqIdEnd(s) THEN ReqIdStart(s) ELSE id + 1
        BY <2>2 DEF AcceptSnapshot
      <4> QED
        BY <3>1, <4>1, <4>2, IdFacts
    <3>3. next_req_id_' \in [Slots -> AllIds]
      BY <2>2, <3>2, IdFacts DEF AcceptSnapshot
    <3>4. \A t \in Slots : next_req_id_'[t] \in ReqIds(t)
      BY <2>2, <3>2 DEF AcceptSnapshot
    <3>5. pending_stk_' \in [Slots -> [AllIds -> Entries]]
      BY <2>2, <3>1 DEF AcceptSnapshot, Entries
    <3>6. wire' \in [Slots -> SUBSET Subscriptions]
      <4>1. [id |-> id, req |-> r] \in Subscriptions
        BY <3>1 DEF Subscriptions
      <4> QED
        BY <2>2, <4>1 DEF AcceptSnapshot
    <3>7. wrapped' \in [Slots -> BOOLEAN] /\ wedged' \in [Slots -> BOOLEAN]
      BY <2>2 DEF AcceptSnapshot
    <3>8. asked' \in SUBSET Requests /\ UNCHANGED answered
      BY <1>3, <2>2 DEF RequestStockSnapshot, AcceptSnapshot
    <3>9. UNCHANGED <<connVars, threadVars, ownerVars, socket, closing, inbox,
                      snapshot, cancelled, fault>>
      BY <1>3 DEF RequestStockSnapshot
    <3> QED
      BY <3>3, <3>4, <3>5, <3>6, <3>7, <3>8, <3>9
  <2> QED
    BY <1>3, <2>1, <2>2 DEF RequestStockSnapshot
<1>4. ASSUME NEW id \in ReqIds(s), CancelMktData(s, id) PROVE TypeOK'
  <2>1. id \in AllIds
    BY IdFacts
  <2>2. /\ wire' \in [Slots -> SUBSET Subscriptions]
        /\ wedged' \in [Slots -> BOOLEAN]
    BY <1>4 DEF CancelMktData, CancelOnWire
  <2>3. pending_stk_[s][id].req \in Requests \cup {NoReq} /\ NoEntry \in Entries
    BY <2>1 DEF Entries, NoEntry
  <2>4. \/ pending_stk_' = pending_stk_ /\ cancelled' = cancelled
        \/ /\ pending_stk_' = [pending_stk_ EXCEPT ![s][id] = NoEntry]
           /\ cancelled' = cancelled \cup ({pending_stk_[s][id].req} \ {NoReq})
    BY <1>4 DEF CancelMktData
  <2>6. pending_stk_' \in [Slots -> [AllIds -> Entries]] /\ cancelled' \in SUBSET Requests
    <3>1. [pending_stk_ EXCEPT ![s][id] = NoEntry] \in [Slots -> [AllIds -> Entries]]
      BY <2>1, <2>3
    <3>2. cancelled \cup ({pending_stk_[s][id].req} \ {NoReq}) \in SUBSET Requests
      BY <2>3
    <3> QED
      BY <2>4, <3>1, <3>2
  <2>5. UNCHANGED <<connVars, threadVars, next_req_id_, wrapped, ownerVars, socket,
                    closing, inbox, asked, answered, snapshot, fault>>
    BY <1>4 DEF CancelMktData
  <2> QED
    BY <2>2, <2>4, <2>5, <2>6
<1>5. CASE SocketLost(s)
  BY <1>5 DEF SocketLost
<1>6. CASE ConnectionClosed(s)
  BY <1>6 DEF ConnectionClosed, FailAllPending, NoEntry, Entries
<1>7. ASSUME NEW w \in wire[s], TwsTick(s, w) \/ TwsFinishes(s, w) PROVE TypeOK'
  <2>1. PICK kind \in {"price", "other", "end", "error"} : TwsSends(s, w, kind)
    BY <1>7 DEF TwsTick, TwsFinishes
  <2>2. [kind |-> kind, id |-> w.id, req |-> w.req] \in Messages
    BY DEF Messages, Subscriptions
  <2>3. inbox' \in [Slots -> Seq(Messages)]
    BY <2>1, <2>2, InboxFacts DEF TwsSends
  <2>4. wire' \in [Slots -> SUBSET Subscriptions]
    <3>1. wire' = wire \/ wire' = [wire EXCEPT ![s] = @ \ {w}]
      BY <1>7 DEF TwsTick, TwsFinishes
    <3>2. wire[s] \ {w} \in SUBSET Subscriptions
      OBVIOUS
    <3> QED
      BY <3>1, <3>2
  <2> QED
    BY <2>1, <2>3, <2>4 DEF TwsSends
<1> QED
  BY <1>1, <1>2, <1>3, <1>4, <1>5, <1>6, <1>7

\* Every step is one of the owner, of the reader, or a call or event from outside.
LEMMA NextTypeOK == TypeOK /\ [Next]_slotVars => TypeOK'
<1> SUFFICES ASSUME TypeOK, [Next]_slotVars PROVE TypeOK'
  OBVIOUS
<1>1. CASE Next
  BY <1>1, OwnerTypeOK, ReaderTypeOK, CallTypeOK DEF Next, SlotSteps
<1>2. CASE UNCHANGED slotVars
  BY <1>2 DEF slotVars, TypeOK
<1> QED
  BY <1>1, <1>2

\* Type correctness of the slot, for any number of slots, requests and ids.
THEOREM TypeCorrect == Spec => []TypeOK
<1> QED
  BY InitTypeOK, NextTypeOK, PTL DEF Spec

\* What TWS works on, and what the EReader holds, has an id and a request.
LEMMA MessageTypes ==
    ASSUME TypeOK, NEW s \in Slots
    PROVE  /\ \A w \in wire[s] : w.id \in AllIds /\ w.req \in Requests
           /\ \A i \in 1..Len(inbox[s]) : inbox[s][i] \in Messages
           /\ \A m \in Messages : m.id \in AllIds /\ m.req \in Requests
           /\ \A i \in 1..Len(inbox[s]) :
                 inbox[s][i].id \in AllIds /\ inbox[s][i].req \in Requests
<1>1. wire[s] \subseteq Subscriptions /\ inbox[s] \in Seq(Messages)
  BY DEF TypeOK
<1>2. \A w \in wire[s] : w.id \in AllIds /\ w.req \in Requests
  BY <1>1 DEF Subscriptions
<1>3. \A m \in Messages : m.id \in AllIds /\ m.req \in Requests
  BY DEF Messages
<1>4. \A i \in 1..Len(inbox[s]) : inbox[s][i] \in Messages
  BY <1>1
<1> QED
  BY <1>2, <1>3, <1>4

-----------------------------------------------------------------------------
(* The inductive invariant.                                                 *)

\* A request that a table entry or a moved-out callback holds is still open, and
\* nothing else holds it.
OneHolder ==
    /\ \A s \in Slots, id \in AllIds :
          LET r == pending_stk_[s][id].req IN
          r # NoReq => /\ r \in asked /\ answered[r] = 0 /\ r \notin cancelled
                       /\ \A t \in Slots : hand[t].req # r
                       /\ \A t \in Slots, jd \in AllIds :
                              pending_stk_[t][jd].req = r => t = s /\ jd = id
    /\ \A s \in Slots :
          LET r == hand[s].req IN
          r # NoReq => /\ r \in asked /\ answered[r] = 0 /\ r \notin cancelled
                       /\ \A t \in Slots : hand[t].req = r => t = s

\* Nothing happens to a request before it is asked, and no price is shown before
\* it is answered.
FreshRequests ==
    \A r \in Requests :
        /\ r \notin asked => answered[r] = 0 /\ r \notin cancelled
        /\ answered[r] = 0 => snapshot[r] = {}

\* The socket, the flags and the owner's progress agree.
OwnerInv ==
    \A s \in Slots :
        /\ opc[s] \in DisconnectSteps \cup {"c_begin", "c_socket", "c_publish"}
              => ~connected_[s]
        /\ closing[s] => ~socket[s]
        /\ wire[s] # {} => socket[s]
        /\ opc[s] = "d_clear" => ~socket[s]
        /\ opc[s] = "c_publish" => wire[s] = {}
        /\ ~connected_[s] /\ opc[s] \notin DisconnectSteps \cup {"c_publish", "stuck"}
              => ~socket[s] /\ ~closing[s]

\* Only a running reader thread is inside a callback, and only the last part of
\* tickSnapshotEnd and error holds a moved-out callback.
ReaderInv ==
    \A s \in Slots :
        /\ hand[s].req # NoReq => rpc[s] \in {"deliver", "stuck"}
        /\ reader_thread_[s] # "live" => rpc[s] = "loop"

\* Until the ids wrap, the ids from the counter on are unused.
IdsFree ==
    \A s \in Slots : ~wrapped[s] =>
        \A id \in AllIds : id >= next_req_id_[s] => pending_stk_[s][id].req = NoReq

\* Until the ids wrap, what TWS says about an id is about the request pending
\* under it, if any, and prices are kept with the request they are for.
OwnMessages ==
    \A s \in Slots : ~wrapped[s] =>
        /\ \A w \in wire[s] :
              w.id < next_req_id_[s] /\ pending_stk_[s][w.id].req \in {NoReq, w.req}
        /\ \A i \in 1..Len(inbox[s]) :
              /\ inbox[s][i].id < next_req_id_[s]
              /\ pending_stk_[s][inbox[s][i].id].req \in {NoReq, inbox[s][i].req}
        /\ \A id \in AllIds : pending_stk_[s][id].ticks \subseteq {pending_stk_[s][id].req}
        /\ hand[s].ticks \subseteq {hand[s].req}

\* The part about the request table, and the part about the threads.
TableInv ==
    /\ OneHolder
    /\ FreshRequests
    /\ AnsweredAtMostOnce
    /\ IdsFree
    /\ NoRequestLost
    /\ OwnMessages
    /\ OwnSnapshot

ThreadInv == OwnerInv /\ ReaderInv /\ NotStranded

\* The inductive invariant.
IInv == TypeOK /\ TableInv /\ ThreadInv

\* A slot that was just constructed has an empty table and no threads.
LEMMA InitIInv == Init => TableInv /\ ThreadInv
<1> SUFFICES ASSUME Init PROVE TableInv /\ ThreadInv
  OBVIOUS
<1>1. /\ \A s \in Slots, id \in AllIds : pending_stk_[s][id] = NoEntry
      /\ \A s \in Slots : hand[s] = NoEntry /\ inbox[s] = <<>> /\ wire[s] = {}
      /\ NoEntry.req = NoReq /\ NoEntry.ticks = {}
  BY DEF Init, NoEntry
<1>2. OneHolder /\ FreshRequests /\ AnsweredAtMostOnce /\ IdsFree
  BY <1>1 DEF Init, OneHolder, FreshRequests, AnsweredAtMostOnce, IdsFree
<1>3. NoRequestLost /\ OwnMessages /\ OwnSnapshot
  BY <1>1 DEF Init, NoRequestLost, NothingDropped, OwnMessages, OwnSnapshot
<1>4. OwnerInv /\ ReaderInv
  BY <1>1 DEF Init, OwnerInv, ReaderInv, DisconnectSteps
<1>5. NotStranded
  BY <1>1 DEF Init, NotStranded, PendingReqs
<1> QED
  BY <1>2, <1>3, <1>4, <1>5 DEF TableInv, ThreadInv

-----------------------------------------------------------------------------
(* The table.                                                               *)

\* The EReader's queues hold nothing they did not hold before.
NoNewMessages ==
    \A t \in Slots : \A i \in 1..Len(inbox'[t]) :
        \E j \in 1..Len(inbox[t]) : inbox'[t][i] = inbox[t][j]

\* That is so of a queue that stays, is emptied, or loses its first message.
LEMMA QueuesShrink ==
    ASSUME TypeOK, NEW s \in Slots,
           \/ inbox' = inbox
           \/ inbox' = [inbox EXCEPT ![s] = <<>>]
           \/ inbox[s] # <<>> /\ inbox' = [inbox EXCEPT ![s] = Tail(@)]
    PROVE  NoNewMessages
<1>1. SUFFICES ASSUME NEW t \in Slots, NEW i \in 1..Len(inbox'[t])
               PROVE  \E j \in 1..Len(inbox[t]) : inbox'[t][i] = inbox[t][j]
  BY DEF NoNewMessages
<1>2. inbox[t] \in Seq(Messages)
  BY DEF TypeOK
<1>3. \/ inbox'[t] \in {inbox[t], <<>>}
      \/ (inbox[t] # <<>> /\ inbox'[t] = Tail(inbox[t]))
  BY DEF TypeOK
<1>4. CASE inbox'[t] = inbox[t]
  BY <1>4
<1>5. CASE inbox'[t] = <<>>
  BY <1>5
<1>6. CASE inbox[t] # <<>> /\ inbox'[t] = Tail(inbox[t])
  <2>1. i + 1 \in 1..Len(inbox[t]) /\ inbox'[t][i] = inbox[t][i + 1]
    BY <1>2, <1>6
  <2> QED
    BY <2>1
<1> QED
  BY <1>3, <1>4, <1>5, <1>6

\* A step that leaves the table and the callers alone, and forgets messages at
\* most, keeps the table's invariant.
LEMMA TableUntouched ==
    ASSUME TypeOK, TableInv,
           UNCHANGED <<hand, reqVars, callerVars>>,
           \A t \in Slots : wire'[t] \subseteq wire[t],
           NoNewMessages
    PROVE  TableInv'
<1> USE DEF TableInv
<1>1. OneHolder' /\ FreshRequests' /\ AnsweredAtMostOnce'
  BY DEF OneHolder, FreshRequests, AnsweredAtMostOnce
<1>2. IdsFree' /\ OwnSnapshot'
  BY DEF IdsFree, OwnSnapshot, NoWrap
<1>3. NoRequestLost'
  BY DEF NoRequestLost, NoWrap, NothingDropped, Held, PendingReqs
<1>4. OwnMessages'
  BY DEF OwnMessages, NoNewMessages
<1> QED
  BY <1>1, <1>2, <1>3, <1>4

\* Failing every pending request of a slot answers each of them once and leaves
\* nobody behind.
LEMMA TableFailAll ==
    ASSUME TypeOK, TableInv, NEW s \in Slots, FailAllPending(s), UNCHANGED hand,
           \A t \in Slots : wire'[t] \subseteq wire[t],
           NoNewMessages
    PROVE  TableInv'
<1> USE DEF TableInv
<1>1. \A t \in Slots, id \in AllIds :
         pending_stk_'[t][id] = IF t = s THEN NoEntry ELSE pending_stk_[t][id]
  BY DEF FailAllPending, TypeOK
<1>2. \A r \in Requests : answered'[r] = IF r \in PendingReqs(s) THEN answered[r] + 1
                                                                ELSE answered[r]
  BY DEF FailAllPending, TypeOK
<1>3. UNCHANGED <<next_req_id_, wrapped, asked, snapshot, cancelled, hand>>
  BY DEF FailAllPending
<1>4. NoEntry.req = NoReq /\ NoEntry.ticks = {}
  BY DEF NoEntry
<1>5. \A r \in Requests : r \in PendingReqs(s) <=> \E id \in AllIds : pending_stk_[s][id].req = r
  BY NoReqAssumption DEF PendingReqs
<1>6. \A r \in PendingReqs(s) : r \in asked /\ answered[r] = 0 /\ r \notin cancelled
  BY DEF PendingReqs, OneHolder
<1>7. /\ \A t \in Slots, id \in AllIds : pending_stk_[t][id].req \in Requests \cup {NoReq}
      /\ \A t \in Slots : hand[t].req \in Requests \cup {NoReq}
  BY DEF TypeOK, Entries
<1>8. OneHolder'
  <2>1. \A t \in Slots, id \in AllIds :
           t # s /\ pending_stk_[t][id].req # NoReq => pending_stk_[t][id].req \notin PendingReqs(s)
    BY DEF PendingReqs, OneHolder
  <2>2. \A t \in Slots : hand[t].req # NoReq => hand[t].req \notin PendingReqs(s)
    BY DEF PendingReqs, OneHolder
  <2> QED
    BY <1>1, <1>2, <1>3, <1>4, <1>7, <2>1, <2>2 DEF OneHolder
<1>9. FreshRequests' /\ AnsweredAtMostOnce'
  <2>1. \A r \in Requests : answered[r] \in Nat /\ answered[r] <= 1
    BY DEF TypeOK, AnsweredAtMostOnce
  <2>2. FreshRequests'
    BY <1>2, <1>3, <1>6 DEF FreshRequests
  <2>3. AnsweredAtMostOnce'
    BY <1>2, <1>3, <1>6, <2>1 DEF AnsweredAtMostOnce
  <2> QED
    BY <2>2, <2>3
<1>10. IdsFree' /\ OwnSnapshot'
  BY <1>1, <1>3, <1>4 DEF IdsFree, OwnSnapshot, NoWrap
<1>11. NoRequestLost'
  <2> SUFFICES ASSUME NoWrap, NEW r \in asked, answered'[r] = 0, r \notin cancelled
               PROVE  Held(r)'
    BY <1>3 DEF NoRequestLost, NothingDropped, NoWrap
  <2>1. r \in Requests
    BY DEF TypeOK
  <2>2. answered[r] = 0 /\ r \notin PendingReqs(s)
    BY <1>2, <1>6, <2>1
  <2>3. PICK t \in Slots : r \in PendingReqs(t) \cup {hand[t].req}
    BY <2>2 DEF NoRequestLost, NothingDropped, Held
  <2>4. CASE r = hand[t].req
    BY <1>3, <2>4 DEF Held
  <2>5. CASE r \in PendingReqs(t)
    <3>1. t # s
      BY <2>2, <2>5
    <3>2. PendingReqs(t)' = PendingReqs(t)
      BY <3>1, <1>1 DEF PendingReqs
    <3> QED
      BY <3>2, <2>5 DEF Held
  <2> QED
    BY <2>3, <2>4, <2>5
<1>12. OwnMessages'
  <2> SUFFICES ASSUME NEW t \in Slots, ~wrapped[t]
               PROVE  /\ \A w \in wire'[t] :
                            /\ w.id < next_req_id_[t]
                            /\ pending_stk_'[t][w.id].req \in {NoReq, w.req}
                      /\ \A i \in 1..Len(inbox'[t]) :
                            /\ inbox'[t][i].id < next_req_id_[t]
                            /\ pending_stk_'[t][inbox'[t][i].id].req \in {NoReq, inbox'[t][i].req}
                      /\ \A id \in AllIds :
                            pending_stk_'[t][id].ticks \subseteq {pending_stk_'[t][id].req}
                      /\ hand[t].ticks \subseteq {hand[t].req}
    BY <1>3 DEF OwnMessages
  <2>1. /\ \A w \in wire[t] : w.id \in AllIds
        /\ \A i \in 1..Len(inbox[t]) : inbox[t][i].id \in AllIds
    BY MessageTypes
  <2> QED
    <3>1. \A w \in wire'[t] :
             w.id < next_req_id_[t] /\ pending_stk_'[t][w.id].req \in {NoReq, w.req}
      BY <1>1, <1>4, <2>1 DEF OwnMessages
    <3>2. ASSUME NEW i \in 1..Len(inbox'[t])
          PROVE  /\ inbox'[t][i].id < next_req_id_[t]
                 /\ pending_stk_'[t][inbox'[t][i].id].req \in {NoReq, inbox'[t][i].req}
      <4>1. PICK j \in 1..Len(inbox[t]) : inbox'[t][i] = inbox[t][j]
        BY DEF NoNewMessages
      <4>2. /\ inbox[t][j].id < next_req_id_[t]
            /\ pending_stk_[t][inbox[t][j].id].req \in {NoReq, inbox[t][j].req}
        BY DEF OwnMessages
      <4> QED
        BY <1>1, <1>4, <2>1, <4>1, <4>2
    <3>3. /\ \A id \in AllIds :
                pending_stk_'[t][id].ticks \subseteq {pending_stk_'[t][id].req}
          /\ hand[t].ticks \subseteq {hand[t].req}
      BY <1>1, <1>4 DEF OwnMessages
    <3> QED
      BY <3>1, <3>2, <3>3
<1> QED
  BY <1>8, <1>9, <1>10, <1>11, <1>12

\* A request is answered at once, by a slot that is not connected or without a slot.
LEMMA TableRefuse ==
    ASSUME TypeOK, TableInv, NEW r \in Requests, r \notin asked,
           answered' = [answered EXCEPT ![r] = @ + 1], asked' = asked \cup {r},
           UNCHANGED <<reqVars, wire, hand, inbox, snapshot, cancelled>>
    PROVE  TableInv'
<1> USE DEF TableInv
<1>1. answered[r] = 0 /\ r \notin cancelled
  BY DEF FreshRequests
<1>2. \A q \in Requests : answered'[q] = IF q = r THEN 1 ELSE answered[q]
  BY <1>1 DEF TypeOK
<1>3. UNCHANGED <<next_req_id_, pending_stk_, wrapped, wire, hand, inbox, snapshot, cancelled>>
  BY DEF reqVars
<1>4. /\ \A t \in Slots, id \in AllIds : pending_stk_[t][id].req \in (Requests \ {r}) \cup {NoReq}
      /\ \A t \in Slots : hand[t].req \in (Requests \ {r}) \cup {NoReq}
  BY DEF OneHolder, TypeOK, Entries
<1>5. OneHolder'
  BY <1>2, <1>3, <1>4 DEF OneHolder
<1>6. FreshRequests' /\ AnsweredAtMostOnce'
  BY <1>1, <1>2, <1>3 DEF FreshRequests, AnsweredAtMostOnce, TypeOK
<1>7. IdsFree' /\ OwnSnapshot' /\ OwnMessages'
  BY <1>3 DEF IdsFree, OwnSnapshot, OwnMessages, NoWrap
<1>8. NoRequestLost'
  BY <1>2, <1>3 DEF NoRequestLost, NoWrap, NothingDropped, Held, PendingReqs, TypeOK
<1> QED
  BY <1>5, <1>6, <1>7, <1>8

\* A request takes the next id; unless the ids wrap, that id is free and unused.
LEMMA TableAccept ==
    ASSUME TypeOK, TableInv, NEW s \in Slots, NEW r \in Requests, r \notin asked,
           AcceptSnapshot(s, r), asked' = asked \cup {r},
           UNCHANGED <<hand, inbox, snapshot, cancelled>>
    PROVE  TableInv'
<1> USE DEF TableInv
<1> DEFINE id == next_req_id_[s]
<1>1. answered[r] = 0 /\ r \notin cancelled /\ r # NoReq
  BY NoReqAssumption DEF FreshRequests
<1>2. id \in AllIds /\ id \in Int
  BY IdFacts DEF TypeOK
<1>3. \A t \in Slots, jd \in AllIds :
         pending_stk_'[t][jd] = IF t = s /\ jd = id THEN [req |-> r, ticks |-> {}]
                                                    ELSE pending_stk_[t][jd]
  BY <1>2 DEF AcceptSnapshot, TypeOK
<1>4. /\ \A t \in Slots, jd \in AllIds : pending_stk_[t][jd].req \in (Requests \ {r}) \cup {NoReq}
      /\ \A t \in Slots : hand[t].req \in (Requests \ {r}) \cup {NoReq}
  BY DEF OneHolder, TypeOK, Entries
<1>5. UNCHANGED <<answered, hand, inbox, snapshot, cancelled>>
  BY DEF AcceptSnapshot
<1>6. \A t \in Slots : t # s => UNCHANGED <<next_req_id_[t], wrapped[t], wire[t]>>
  BY DEF AcceptSnapshot, TypeOK
<1>7. ~wrapped'[s] => ~wrapped[s] /\ next_req_id_'[s] = id + 1
  BY DEF AcceptSnapshot, TypeOK
<1>8. wire'[s] \subseteq wire[s] \cup {[id |-> id, req |-> r]}
  BY DEF AcceptSnapshot, TypeOK
<1>9. OneHolder'
  BY <1>1, <1>3, <1>4, <1>5 DEF OneHolder
<1>10. FreshRequests' /\ AnsweredAtMostOnce'
  BY <1>5 DEF FreshRequests, AnsweredAtMostOnce
<1>11. IdsFree'
  BY <1>2, <1>3, <1>6, <1>7, IdFacts DEF IdsFree, AllIds
<1>12. OwnSnapshot'
  BY <1>5, <1>6, <1>7 DEF OwnSnapshot, NoWrap
<1>13. NoRequestLost'
  <2> SUFFICES ASSUME NoWrap', NEW q \in asked', answered'[q] = 0, q \notin cancelled'
               PROVE  Held(q)'
    BY DEF NoRequestLost, NothingDropped
  <2>0. NoWrap
    BY <1>6, <1>7 DEF NoWrap
  <2>1. CASE q = r
    <3>1. r \in PendingReqs(s)'
      BY <1>1, <1>2, <1>3 DEF PendingReqs
    <3> QED
      BY <2>1, <3>1 DEF Held
  <2>2. CASE q # r
    <3>1. PICK t \in Slots : q \in PendingReqs(t) \cup {hand[t].req}
      BY <1>5, <2>0, <2>2 DEF NoRequestLost, NothingDropped, Held
    <3>2. pending_stk_[s][id].req = NoReq
      BY <2>0, <1>2 DEF IdsFree, NoWrap
    <3>3. q \in PendingReqs(t) => q \in PendingReqs(t)'
      BY <1>3, <3>2 DEF PendingReqs
    <3> QED
      BY <1>5, <3>1, <3>3 DEF Held
  <2> QED
    BY <2>1, <2>2
<1>14. OwnMessages'
  <2> SUFFICES ASSUME NEW t \in Slots, ~wrapped'[t]
               PROVE  /\ \A w \in wire'[t] :
                            /\ w.id < next_req_id_'[t]
                            /\ pending_stk_'[t][w.id].req \in {NoReq, w.req}
                      /\ \A i \in 1..Len(inbox[t]) :
                            /\ inbox[t][i].id < next_req_id_'[t]
                            /\ pending_stk_'[t][inbox[t][i].id].req \in {NoReq, inbox[t][i].req}
                      /\ \A jd \in AllIds :
                            pending_stk_'[t][jd].ticks \subseteq {pending_stk_'[t][jd].req}
                      /\ hand[t].ticks \subseteq {hand[t].req}
    BY <1>5 DEF OwnMessages
  <2>1. ~wrapped[t]
    BY <1>6, <1>7
  <2>2. /\ \A w \in wire[t] : w.id \in AllIds /\ w.id \in Int
        /\ \A i \in 1..Len(inbox[t]) : inbox[t][i].id \in AllIds /\ inbox[t][i].id \in Int
    BY MessageTypes, IdFacts DEF AllIds
  <2>3. CASE t # s
    BY <1>3, <1>6, <2>1, <2>2, <2>3 DEF OwnMessages
  <2>4. CASE t = s
    <3>1. next_req_id_'[s] = id + 1
      BY <1>7, <2>4
    <3>2. /\ \A w \in wire[s] : w.id < id /\ pending_stk_[s][w.id].req \in {NoReq, w.req}
          /\ \A i \in 1..Len(inbox[s]) :
                /\ inbox[s][i].id < id
                /\ pending_stk_[s][inbox[s][i].id].req \in {NoReq, inbox[s][i].req}
          /\ \A jd \in AllIds : pending_stk_[s][jd].ticks \subseteq {pending_stk_[s][jd].req}
          /\ hand[s].ticks \subseteq {hand[s].req}
      BY <2>1, <2>4 DEF OwnMessages
    <3>3. /\ \A w \in wire[s] :
                w.id < id + 1 /\ pending_stk_'[s][w.id].req \in {NoReq, w.req}
          /\ \A i \in 1..Len(inbox[s]) :
                /\ inbox[s][i].id < id + 1
                /\ pending_stk_'[s][inbox[s][i].id].req \in {NoReq, inbox[s][i].req}
      BY <1>2, <1>3, <2>2, <2>4, <3>2
    <3>4. \A w \in {[id |-> id, req |-> r]} :
             w.id < id + 1 /\ pending_stk_'[s][w.id].req \in {NoReq, w.req}
      BY <1>2, <1>3
    <3>5. \A jd \in AllIds : pending_stk_'[s][jd].ticks \subseteq {pending_stk_'[s][jd].req}
      BY <1>3, <3>2
    <3> QED
      BY <1>8, <2>4, <3>1, <3>2, <3>3, <3>4, <3>5
  <2> QED
    BY <2>3, <2>4
<1> QED
  BY <1>9, <1>10, <1>11, <1>12, <1>13, <1>14

\* cancelMktData drops at most the entry it names, and remembers it as cancelled.
LEMMA TableCancel ==
    ASSUME TypeOK, TableInv, NEW s \in Slots, NEW id \in AllIds,
           pending_stk_' = [pending_stk_ EXCEPT ![s][id] = NoEntry],
           cancelled' = cancelled \cup ({pending_stk_[s][id].req} \ {NoReq}),
           \A t \in Slots : wire'[t] \subseteq wire[t],
           UNCHANGED <<hand, inbox, next_req_id_, wrapped, asked, answered, snapshot>>
    PROVE  TableInv'
<1> USE DEF TableInv
<1>1. \A t \in Slots, jd \in AllIds :
         pending_stk_'[t][jd] = IF t = s /\ jd = id THEN NoEntry ELSE pending_stk_[t][jd]
  BY DEF TypeOK
<1>2. NoEntry.req = NoReq /\ NoEntry.ticks = {}
  BY DEF NoEntry
<1>3. OneHolder'
  BY <1>1, <1>2 DEF OneHolder
<1>4. FreshRequests' /\ AnsweredAtMostOnce'
  BY DEF FreshRequests, AnsweredAtMostOnce, OneHolder
<1>5. IdsFree' /\ OwnSnapshot'
  BY <1>1, <1>2 DEF IdsFree, OwnSnapshot, NoWrap
<1>6. NoRequestLost'
  <2> SUFFICES ASSUME NoWrap, NEW r \in asked, answered[r] = 0, r \notin cancelled'
               PROVE  Held(r)'
    BY DEF NoRequestLost, NothingDropped, NoWrap
  <2>1. PICK t \in Slots : r \in PendingReqs(t) \cup {hand[t].req}
    BY DEF NoRequestLost, NothingDropped, Held
  <2>2. r \in PendingReqs(t) => r \in PendingReqs(t)'
    BY <1>1 DEF PendingReqs
  <2> QED
    BY <2>1, <2>2 DEF Held
<1>7. OwnMessages'
  <2> SUFFICES ASSUME NEW t \in Slots, ~wrapped[t]
               PROVE  /\ \A w \in wire'[t] :
                            /\ w.id < next_req_id_[t]
                            /\ pending_stk_'[t][w.id].req \in {NoReq, w.req}
                      /\ \A i \in 1..Len(inbox[t]) :
                            /\ inbox[t][i].id < next_req_id_[t]
                            /\ pending_stk_'[t][inbox[t][i].id].req \in {NoReq, inbox[t][i].req}
                      /\ \A jd \in AllIds :
                            pending_stk_'[t][jd].ticks \subseteq {pending_stk_'[t][jd].req}
                      /\ hand[t].ticks \subseteq {hand[t].req}
    BY DEF OwnMessages
  <2> QED
    BY <1>1, <1>2, MessageTypes DEF OwnMessages
<1> QED
  BY <1>3, <1>4, <1>5, <1>6, <1>7

\* The same when an entry moves from the table to the reader's hand, with its
\* prices or, for onError, without.
LEMMA TableTake ==
    ASSUME TypeOK, TableInv, NEW s \in Slots, NEW id \in AllIds, NEW p,
           IsPending(s, id), hand[s].req = NoReq,
           p \in {pending_stk_[s][id].ticks, {}},
           pending_stk_' = [pending_stk_ EXCEPT ![s][id] = NoEntry],
           hand' = [hand EXCEPT ![s] = [req |-> pending_stk_[s][id].req, ticks |-> p]],
           \A t \in Slots : wire'[t] \subseteq wire[t],
           NoNewMessages,
           UNCHANGED <<next_req_id_, wrapped, callerVars>>
    PROVE  TableInv'
<1> USE DEF TableInv
<1> DEFINE q == pending_stk_[s][id].req
<1>1. /\ \A t \in Slots, jd \in AllIds :
            pending_stk_'[t][jd] = IF t = s /\ jd = id THEN NoEntry ELSE pending_stk_[t][jd]
      /\ \A t \in Slots : hand'[t] = IF t = s THEN [req |-> q, ticks |-> p] ELSE hand[t]
  BY DEF TypeOK
<1>2. NoEntry.req = NoReq /\ NoEntry.ticks = {} /\ q # NoReq
  BY DEF NoEntry, IsPending
<1>3. OneHolder'
  <2>1. ASSUME NEW t \in Slots, NEW jd \in AllIds, pending_stk_'[t][jd].req # NoReq
        PROVE  LET r == pending_stk_'[t][jd].req IN
               /\ r \in asked /\ answered[r] = 0 /\ r \notin cancelled
               /\ \A u \in Slots : hand'[u].req # r
               /\ \A u \in Slots, kd \in AllIds :
                      pending_stk_'[u][kd].req = r => u = t /\ kd = jd
    BY <1>1, <1>2, <2>1 DEF OneHolder
  <2>2. ASSUME NEW t \in Slots, hand'[t].req # NoReq
        PROVE  LET r == hand'[t].req IN
               /\ r \in asked /\ answered[r] = 0 /\ r \notin cancelled
               /\ \A u \in Slots : hand'[u].req = r => u = t
    BY <1>1, <1>2, <2>2 DEF OneHolder
  <2> QED
    BY <2>1, <2>2 DEF OneHolder
<1>4. FreshRequests' /\ AnsweredAtMostOnce'
  BY DEF FreshRequests, AnsweredAtMostOnce
<1>5. IdsFree' /\ OwnSnapshot'
  BY <1>1, <1>2 DEF IdsFree, OwnSnapshot, NoWrap
<1>6. NoRequestLost'
  <2> SUFFICES ASSUME NoWrap, NEW r \in asked, answered[r] = 0, r \notin cancelled
               PROVE  Held(r)'
    BY DEF NoRequestLost, NothingDropped, NoWrap
  <2>1. PICK t \in Slots : r \in PendingReqs(t) \cup {hand[t].req}
    BY DEF NoRequestLost, NothingDropped, Held
  <2>2. r \in PendingReqs(t) => r = q \/ r \in PendingReqs(t)'
    BY <1>1 DEF PendingReqs
  <2>3. r # NoReq
    BY NoReqAssumption DEF TypeOK
  <2>4. r = hand[t].req => r = hand'[t].req
    BY <1>1, <2>3
  <2>5. r = q => r = hand'[s].req
    BY <1>1
  <2> QED
    BY <2>1, <2>2, <2>4, <2>5 DEF Held
<1>7. OwnMessages'
  <2> SUFFICES ASSUME NEW t \in Slots, ~wrapped[t]
               PROVE  /\ \A w \in wire'[t] :
                            /\ w.id < next_req_id_[t]
                            /\ pending_stk_'[t][w.id].req \in {NoReq, w.req}
                      /\ \A i \in 1..Len(inbox'[t]) :
                            /\ inbox'[t][i].id < next_req_id_[t]
                            /\ pending_stk_'[t][inbox'[t][i].id].req \in {NoReq, inbox'[t][i].req}
                      /\ \A jd \in AllIds :
                            pending_stk_'[t][jd].ticks \subseteq {pending_stk_'[t][jd].req}
                      /\ hand'[t].ticks \subseteq {hand'[t].req}
    BY DEF OwnMessages
  <2>1. \A w \in wire'[t] : /\ w.id < next_req_id_[t]
                            /\ pending_stk_'[t][w.id].req \in {NoReq, w.req}
    BY <1>1, <1>2, MessageTypes DEF OwnMessages
  <2>2. ASSUME NEW i \in 1..Len(inbox'[t])
        PROVE  /\ inbox'[t][i].id < next_req_id_[t]
               /\ pending_stk_'[t][inbox'[t][i].id].req \in {NoReq, inbox'[t][i].req}
    <3>1. PICK j \in 1..Len(inbox[t]) : inbox'[t][i] = inbox[t][j]
      BY DEF NoNewMessages
    <3>2. /\ inbox[t][j].id < next_req_id_[t]
          /\ pending_stk_[t][inbox[t][j].id].req \in {NoReq, inbox[t][j].req}
          /\ inbox[t][j].id \in AllIds
      BY MessageTypes DEF OwnMessages
    <3> QED
      BY <3>1, <3>2, <1>1, <1>2
  <2>3. \A jd \in AllIds : pending_stk_'[t][jd].ticks \subseteq {pending_stk_'[t][jd].req}
    BY <1>1, <1>2 DEF OwnMessages
  <2>4. hand'[t].ticks \subseteq {hand'[t].req}
    BY <1>1 DEF OwnMessages
  <2> QED
    BY <2>1, <2>2, <2>3, <2>4
<1> QED
  BY <1>3, <1>4, <1>5, <1>6, <1>7

\* A price for a pending request is, until the ids wrap, a price of that request.
LEMMA TableTick ==
    ASSUME TypeOK, TableInv, NEW s \in Slots, TickPrice(s)
    PROVE  TableInv'
<1> USE DEF TableInv
<1> DEFINE m == Head(inbox[s])
           e == pending_stk_[s][m.id]
<1>1. /\ inbox[s] # <<>> /\ inbox' = [inbox EXCEPT ![s] = Tail(@)]
      /\ UNCHANGED <<hand, next_req_id_, wrapped, wire, callerVars>>
  BY DEF TickPrice, Dispatch
<1>2. NoNewMessages
  BY <1>1, QueuesShrink
<1>3. m = inbox[s][1] /\ 1 \in 1..Len(inbox[s])
  BY <1>1 DEF TypeOK
<1>4. m.id \in AllIds /\ m.req \in Requests
  BY <1>3, MessageTypes
<1>5. CASE pending_stk_' = pending_stk_
  BY <1>1, <1>2, <1>5, TableUntouched
<1>6. CASE /\ IsPending(s, m.id)
           /\ pending_stk_' = [pending_stk_ EXCEPT
                  ![s][m.id] = [req |-> e.req, ticks |-> e.ticks \cup {m.req}]]
  <2>1. \A t \in Slots, jd \in AllIds :
           pending_stk_'[t][jd] = IF t = s /\ jd = m.id
                                  THEN [req |-> e.req, ticks |-> e.ticks \cup {m.req}]
                                  ELSE pending_stk_[t][jd]
    BY <1>4, <1>6 DEF TypeOK
  <2>2. \A t \in Slots, jd \in AllIds : pending_stk_'[t][jd].req = pending_stk_[t][jd].req
    BY <2>1
  <2>3. OneHolder' /\ FreshRequests' /\ AnsweredAtMostOnce'
    BY <1>1, <2>2 DEF OneHolder, FreshRequests, AnsweredAtMostOnce
  <2>4. IdsFree' /\ OwnSnapshot'
    BY <1>1, <2>2 DEF IdsFree, OwnSnapshot, NoWrap
  <2>5. NoRequestLost'
    <3>1. \A t \in Slots : PendingReqs(t)' = PendingReqs(t)
      BY <2>2 DEF PendingReqs
    <3> QED
      BY <1>1, <3>1 DEF NoRequestLost, NoWrap, NothingDropped, Held
  <2>6. OwnMessages'
    <3> SUFFICES ASSUME NEW t \in Slots, ~wrapped[t]
                 PROVE  /\ \A w \in wire[t] :
                              /\ w.id < next_req_id_[t]
                              /\ pending_stk_'[t][w.id].req \in {NoReq, w.req}
                        /\ \A i \in 1..Len(inbox'[t]) :
                              /\ inbox'[t][i].id < next_req_id_[t]
                              /\ pending_stk_'[t][inbox'[t][i].id].req \in {NoReq, inbox'[t][i].req}
                        /\ \A jd \in AllIds :
                              pending_stk_'[t][jd].ticks \subseteq {pending_stk_'[t][jd].req}
                        /\ hand[t].ticks \subseteq {hand[t].req}
      BY <1>1 DEF OwnMessages
    <3>1. \A w \in wire[t] : /\ w.id < next_req_id_[t]
                             /\ pending_stk_'[t][w.id].req \in {NoReq, w.req}
      BY <2>2, MessageTypes DEF OwnMessages
    <3>2. ASSUME NEW i \in 1..Len(inbox'[t])
          PROVE  /\ inbox'[t][i].id < next_req_id_[t]
                 /\ pending_stk_'[t][inbox'[t][i].id].req \in {NoReq, inbox'[t][i].req}
      <4>1. PICK j \in 1..Len(inbox[t]) : inbox'[t][i] = inbox[t][j]
        BY <1>2 DEF NoNewMessages
      <4> QED
        BY <2>2, <4>1, MessageTypes DEF OwnMessages
    <3>3. \A jd \in AllIds : pending_stk_'[t][jd].ticks \subseteq {pending_stk_'[t][jd].req}
      <4>1. t = s => e.req = m.req
        BY <1>3, <1>6 DEF OwnMessages, IsPending
      <4>2. \A jd \in AllIds : pending_stk_[t][jd].ticks \subseteq {pending_stk_[t][jd].req}
        BY DEF OwnMessages
      <4> QED
        BY <2>1, <4>1, <4>2, <1>4
    <3>4. hand[t].ticks \subseteq {hand[t].req}
      BY DEF OwnMessages
    <3> QED
      BY <3>1, <3>2, <3>3, <3>4
  <2> QED
    BY <2>3, <2>4, <2>5, <2>6
<1> QED
  BY <1>5, <1>6 DEF TickPrice

\* The callback that was moved out answers the request it was moved out for.
LEMMA TableDeliver ==
    ASSUME TypeOK, TableInv, NEW s \in Slots, DeliverHand(s)
    PROVE  TableInv'
<1> USE DEF TableInv
<1> DEFINE r == hand[s].req
<1>1. UNCHANGED <<reqVars, wire, inbox, asked, cancelled>>
  BY DEF DeliverHand
<1>2. /\ \A t \in Slots : hand'[t] = IF t = s THEN NoEntry ELSE hand[t]
      /\ \A q \in Requests : answered'[q] = IF q = r THEN answered[q] + 1 ELSE answered[q]
      /\ \A q \in Requests : snapshot'[q] = IF q = r THEN hand[s].ticks ELSE snapshot[q]
  BY DEF DeliverHand, TypeOK
<1>3. NoEntry.req = NoReq /\ NoEntry.ticks = {}
  BY DEF NoEntry
<1>4. r # NoReq => r \in asked /\ answered[r] = 0 /\ r \notin cancelled
  BY DEF OneHolder
<1>5. /\ \A t \in Slots, id \in AllIds : pending_stk_[t][id].req \in Requests \cup {NoReq}
      /\ \A t \in Slots : hand[t].req \in Requests \cup {NoReq}
  BY DEF TypeOK, Entries
<1>6. OneHolder'
  <2>1. ASSUME NEW t \in Slots, NEW id \in AllIds, pending_stk_[t][id].req # NoReq
        PROVE  LET q == pending_stk_[t][id].req IN
               /\ q \in asked /\ answered'[q] = 0 /\ q \notin cancelled
               /\ \A u \in Slots : hand'[u].req # q
               /\ \A u \in Slots, jd \in AllIds :
                      pending_stk_[u][jd].req = q => u = t /\ jd = id
    BY <1>2, <1>3, <1>5, <2>1 DEF OneHolder
  <2>2. ASSUME NEW t \in Slots, hand'[t].req # NoReq
        PROVE  LET q == hand'[t].req IN
               /\ q \in asked /\ answered'[q] = 0 /\ q \notin cancelled
               /\ \A u \in Slots : hand'[u].req = q => u = t
    BY <1>2, <1>3, <1>5, <2>2 DEF OneHolder
  <2> QED
    BY <1>1, <2>1, <2>2 DEF OneHolder
<1>7. FreshRequests' /\ AnsweredAtMostOnce'
  <2>1. \A q \in Requests : q # NoReq /\ answered[q] \in Nat
    BY NoReqAssumption DEF TypeOK
  <2>2. FreshRequests'
    BY <1>1, <1>2, <1>4, <2>1 DEF FreshRequests
  <2>3. AnsweredAtMostOnce'
    BY <1>1, <1>2, <1>4, <2>1 DEF AnsweredAtMostOnce
  <2> QED
    BY <2>2, <2>3
<1>8. IdsFree'
  BY <1>1 DEF IdsFree
<1>9. OwnSnapshot'
  BY <1>1, <1>2 DEF OwnSnapshot, NoWrap, OwnMessages
<1>10. NoRequestLost'
  <2> SUFFICES ASSUME NoWrap, NEW q \in asked, answered'[q] = 0, q \notin cancelled
               PROVE  Held(q)'
    BY <1>1 DEF NoRequestLost, NothingDropped, NoWrap
  <2>1. q \in Requests /\ q # NoReq
    BY NoReqAssumption DEF TypeOK
  <2>2. q # r /\ answered[q] = 0
    BY <1>2, <2>1 DEF TypeOK
  <2>3. PICK t \in Slots : q \in PendingReqs(t) \cup {hand[t].req}
    BY <2>2 DEF NoRequestLost, NothingDropped, Held
  <2>4. q \in PendingReqs(t) => q \in PendingReqs(t)'
    BY <1>1 DEF PendingReqs
  <2>5. q = hand[t].req => q = hand'[t].req
    BY <1>2, <2>2
  <2> QED
    BY <2>3, <2>4, <2>5 DEF Held
<1>11. OwnMessages'
  BY <1>1, <1>2, <1>3 DEF OwnMessages
<1> QED
  BY <1>6, <1>7, <1>8, <1>9, <1>10, <1>11

\* A new connection starts again at the first id with an empty table, nothing
\* asked of TWS and no message of the connection before it.
LEMMA TablePublish ==
    ASSUME TypeOK, TableInv, ThreadInv, NEW s \in Slots, ConnectPublish(s)
    PROVE  TableInv'
<1> USE DEF TableInv, ThreadInv
<1>1. UNCHANGED <<pending_stk_, wrapped, wire, hand, callerVars>>
  BY DEF ConnectPublish
<1>2. /\ \A t \in Slots : next_req_id_'[t] = IF t = s THEN ReqIdStart(s) ELSE next_req_id_[t]
      /\ \A t \in Slots : inbox'[t] = IF t = s THEN <<>> ELSE inbox[t]
  BY DEF ConnectPublish, TypeOK
<1>3. PendingReqs(s) = {} /\ wire[s] = {}
  BY DEF ConnectPublish, OwnerInv, NotStranded, DisconnectSteps
<1>4. \A id \in AllIds : pending_stk_[s][id].req = NoReq
  BY <1>3 DEF PendingReqs
<1>5. OneHolder' /\ FreshRequests' /\ AnsweredAtMostOnce'
  BY <1>1 DEF OneHolder, FreshRequests, AnsweredAtMostOnce
<1>6. IdsFree' /\ OwnSnapshot'
  BY <1>1, <1>2, <1>4 DEF IdsFree, OwnSnapshot, NoWrap
<1>7. NoRequestLost'
  BY <1>1 DEF NoRequestLost, NoWrap, NothingDropped, Held, PendingReqs
<1>8. OwnMessages'
  BY <1>1, <1>2, <1>3 DEF OwnMessages
<1> QED
  BY <1>5, <1>6, <1>7, <1>8

\* An element of an extended queue is an old one or the new one.
LEMMA AppendFacts ==
    ASSUME NEW q \in Seq(Messages), NEW m, NEW i \in 1..Len(Append(q, m))
    PROVE  (i \in 1..Len(q) /\ Append(q, m)[i] = q[i]) \/ Append(q, m)[i] = m
OBVIOUS

\* What TWS sends is about the request it was asked for.
LEMMA TableSend ==
    ASSUME TypeOK, TableInv, NEW s \in Slots, NEW w \in wire[s],
           TwsTick(s, w) \/ TwsFinishes(s, w)
    PROVE  TableInv'
<1> USE DEF TableInv
<1>1. PICK kind \in {"price", "other", "end", "error"} : TwsSends(s, w, kind)
  BY DEF TwsTick, TwsFinishes
<1> DEFINE m == [kind |-> kind, id |-> w.id, req |-> w.req]
<1>2. /\ UNCHANGED <<hand, reqVars, callerVars>>
      /\ inbox' = [inbox EXCEPT ![s] = Append(@, m)]
  BY <1>1 DEF TwsSends
<1>3. \A t \in Slots : wire'[t] \subseteq wire[t]
  <2>1. wire' = wire \/ wire' = [wire EXCEPT ![s] = @ \ {w}]
    BY DEF TwsTick, TwsFinishes
  <2>2. wire \in [Slots -> SUBSET Subscriptions]
    BY DEF TypeOK
  <2>3. \A t \in Slots : wire'[t] = wire[t] \/ wire'[t] = wire[t] \ {w}
    BY <2>1, <2>2
  <2> QED
    BY <2>3
<1>4. OneHolder' /\ FreshRequests' /\ AnsweredAtMostOnce'
  BY <1>2 DEF OneHolder, FreshRequests, AnsweredAtMostOnce
<1>5. IdsFree' /\ OwnSnapshot'
  BY <1>2 DEF IdsFree, OwnSnapshot, NoWrap
<1>6. NoRequestLost'
  BY <1>2 DEF NoRequestLost, NoWrap, NothingDropped, Held, PendingReqs
<1>7. OwnMessages'
  <2> SUFFICES ASSUME NEW t \in Slots, ~wrapped[t], NEW i \in 1..Len(inbox'[t])
               PROVE  /\ inbox'[t][i].id < next_req_id_[t]
                      /\ pending_stk_[t][inbox'[t][i].id].req \in {NoReq, inbox'[t][i].req}
    BY <1>2, <1>3 DEF OwnMessages
  <2>1. inbox[t] \in Seq(Messages)
    BY DEF TypeOK
  <2>2. inbox'[t] = IF t = s THEN Append(inbox[t], m) ELSE inbox[t]
    BY <1>2 DEF TypeOK
  <2>3. \/ i \in 1..Len(inbox[t]) /\ inbox'[t][i] = inbox[t][i]
        \/ t = s /\ inbox'[t][i] = m
    <3>1. CASE t # s
      <4>1. inbox'[t] = inbox[t]
        BY <2>2, <3>1
      <4> QED
        BY <4>1
    <3>2. CASE t = s
      <4>1. inbox'[t] = Append(inbox[t], m)
        BY <2>2, <3>2
      <4> QED
        BY <2>1, <3>2, <4>1, AppendFacts
    <3> QED
      BY <3>1, <3>2
  <2>4. CASE i \in 1..Len(inbox[t]) /\ inbox'[t][i] = inbox[t][i]
    BY <2>4 DEF OwnMessages
  <2>5. CASE t = s /\ inbox'[t][i] = m
    <3>1. m.id = w.id /\ m.req = w.req
      OBVIOUS
    <3> QED
      BY <2>5, <3>1 DEF OwnMessages
  <2> QED
    BY <2>3, <2>4, <2>5
<1> QED
  BY <1>4, <1>5, <1>6, <1>7

-----------------------------------------------------------------------------
(* The threads.                                                             *)

\* Emptying the table, and leaving it, keeps a disconnected slot's table empty.
LEMMA StrandedFacts ==
    ASSUME TypeOK, NEW t \in Slots
    PROVE  /\ (\A id \in AllIds : pending_stk_'[t][id] = NoEntry) => PendingReqs(t)' = {}
           /\ pending_stk_'[t] = pending_stk_[t] => PendingReqs(t)' = PendingReqs(t)
           /\ \A s \in Slots, id \in AllIds :
                 pending_stk_' = [pending_stk_ EXCEPT ![s][id] = NoEntry]
                     => PendingReqs(t)' \subseteq PendingReqs(t)
<1>1. pending_stk_ \in [Slots -> [AllIds -> Entries]] /\ NoEntry.req = NoReq
  BY DEF TypeOK, NoEntry
<1>2. (\A id \in AllIds : pending_stk_'[t][id] = NoEntry) => PendingReqs(t)' = {}
  BY <1>1 DEF PendingReqs
<1>3. pending_stk_'[t] = pending_stk_[t] => PendingReqs(t)' = PendingReqs(t)
  BY DEF PendingReqs
<1>4. ASSUME NEW s \in Slots, NEW id \in AllIds,
             pending_stk_' = [pending_stk_ EXCEPT ![s][id] = NoEntry]
      PROVE  PendingReqs(t)' \subseteq PendingReqs(t)
  <2>1. \A jd \in AllIds : pending_stk_'[t][jd] \in {NoEntry, pending_stk_[t][jd]}
    BY <1>1, <1>4
  <2> QED
    BY <1>1, <2>1 DEF PendingReqs
<1> QED
  BY <1>2, <1>3, <1>4

\* The owner's steps keep the invariant of the threads.
LEMMA OwnerThreadInv ==
    ASSUME TypeOK, ThreadInv, NEW s \in Slots, OwnerSteps(s)
    PROVE  ThreadInv'
<1> USE DEF ThreadInv
<1>1. CASE DisconnectCheck(s)
  <2>1. OwnerInv'
    <3>1. /\ opc[s] = "d_check" /\ UNCHANGED <<socket, closing, wire>>
          /\ \/ /\ ~connected_[s] /\ connected_' = connected_
                /\ DisconnectReturns(s, reader_thread_[s])
             \/ /\ connected_' = [connected_ EXCEPT ![s] = FALSE]
                /\ opc' = [opc EXCEPT ![s] = "d_stop"]
      BY <1>1 DEF DisconnectCheck
    <3>2. \/ /\ ~connected_[s] /\ connected_' = connected_
             /\ \E pc \in {"c_begin", "idle", "gone"} : opc' = [opc EXCEPT ![s] = pc]
          \/ /\ connected_' = [connected_ EXCEPT ![s] = FALSE]
             /\ opc' = [opc EXCEPT ![s] = "d_stop"]
      BY <3>1 DEF DisconnectReturns
    <3>3. CASE /\ ~connected_[s] /\ connected_' = connected_
               /\ \E pc \in {"c_begin", "idle", "gone"} : opc' = [opc EXCEPT ![s] = pc]
      BY <3>1, <3>3 DEF OwnerInv, DisconnectSteps, TypeOK
    <3>4. CASE /\ connected_' = [connected_ EXCEPT ![s] = FALSE]
               /\ opc' = [opc EXCEPT ![s] = "d_stop"]
      BY <3>1, <3>4 DEF OwnerInv, DisconnectSteps, TypeOK
    <3> QED
      BY <3>2, <3>3, <3>4
  <2>2. ReaderInv'
    BY <1>1 DEF DisconnectCheck, ReaderInv
  <2>3. NotStranded'
    BY <1>1, StrandedFacts
       DEF DisconnectCheck, DisconnectReturns, NotStranded, DisconnectSteps, TypeOK
  <2> QED
    BY <2>1, <2>2, <2>3
<1>2. CASE DisconnectStop(s)
  <2>1. OwnerInv' /\ ReaderInv'
    BY <1>2 DEF DisconnectStop, OwnerInv, ReaderInv, DisconnectSteps, TypeOK
  <2>2. NotStranded'
    BY <1>2, StrandedFacts DEF DisconnectStop, NotStranded, DisconnectSteps, TypeOK
  <2> QED
    BY <2>1, <2>2
<1>3. CASE DisconnectJoin(s)
  <2>1. OwnerInv'
    BY <1>3 DEF DisconnectJoin, OwnerInv, DisconnectSteps, TypeOK
  <2>2. ReaderInv'
    BY <1>3 DEF DisconnectJoin, ReaderInv, TypeOK
  <2>3. NotStranded'
    BY <1>3, StrandedFacts DEF DisconnectJoin, NotStranded, DisconnectSteps, TypeOK
  <2> QED
    BY <2>1, <2>2, <2>3
<1>4. CASE DisconnectSocket(s)
  <2>1. OwnerInv' /\ ReaderInv'
    BY <1>4 DEF DisconnectSocket, OwnerInv, ReaderInv, DisconnectSteps, TypeOK
  <2>2. NotStranded'
    BY <1>4, StrandedFacts DEF DisconnectSocket, NotStranded, DisconnectSteps, TypeOK
  <2> QED
    BY <2>1, <2>2
<1>5. CASE DisconnectClear(s)
  <2>1. CASE closing[s]
    <3>1. /\ opc' = [opc EXCEPT ![s] = "stuck"]
          /\ UNCHANGED <<connVars, reqVars, threadVars, socket, closing, wire>>
      BY <1>5, <2>1 DEF DisconnectClear
    <3>2. OwnerInv' /\ ReaderInv'
      BY <3>1 DEF OwnerInv, ReaderInv, DisconnectSteps, TypeOK
    <3>3. NotStranded'
      BY <3>1, StrandedFacts DEF NotStranded, DisconnectSteps, TypeOK
    <3> QED
      BY <3>2, <3>3
  <2>2. CASE ~closing[s]
    <3>1. /\ FailAllPending(s) /\ DisconnectReturns(s, reader_thread_[s])
          /\ UNCHANGED <<connected_, threadVars, socket, closing, wire>>
          /\ opc[s] = "d_clear"
      BY <1>5, <2>2 DEF DisconnectClear
    <3>2. OwnerInv'
      BY <2>2, <3>1 DEF DisconnectReturns, OwnerInv, DisconnectSteps, TypeOK
    <3>3. ReaderInv'
      BY <3>1 DEF ReaderInv
    <3>4. /\ \A id \in AllIds : pending_stk_'[s][id] = NoEntry
          /\ \A t \in Slots : t # s => pending_stk_'[t] = pending_stk_[t] /\ opc'[t] = opc[t]
      BY <3>1 DEF FailAllPending, DisconnectReturns, TypeOK
    <3>5. NotStranded'
      BY <3>1, <3>4, StrandedFacts DEF NotStranded
    <3> QED
      BY <3>2, <3>3, <3>5
  <2> QED
    BY <2>1, <2>2
<1>6. CASE ConnectBegin(s) \/ ConnectFail(s) \/ ConnectSocket(s) \/ ConnectRunning(s)
  <2>1. /\ UNCHANGED <<connected_, threadVars, reqVars, closing, wire>>
        /\ \/ opc[s] = "c_begin" /\ opc' = [opc EXCEPT ![s] = "c_socket"] /\ socket' = socket
           \/ opc[s] = "c_socket" /\ opc' = [opc EXCEPT ![s] = "idle"] /\ socket' = socket
           \/ /\ opc[s] = "c_socket" /\ opc' = [opc EXCEPT ![s] = "c_publish"]
              /\ socket' = [socket EXCEPT ![s] = TRUE]
           \/ opc[s] = "c_running" /\ opc' = [opc EXCEPT ![s] = "c_thread"] /\ socket' = socket
    BY <1>6 DEF ConnectBegin, ConnectFail, ConnectSocket, ConnectRunning
  <2>2. OwnerInv'
    <3>1. ASSUME socket' = socket, NEW a \in {"c_begin", "c_socket", "c_running"},
                 NEW b \in {"c_socket", "idle", "c_thread"},
                 opc[s] = a, opc' = [opc EXCEPT ![s] = b],
                 a = "c_running" <=> b = "c_thread"
          PROVE  OwnerInv'
      BY <2>1, <3>1 DEF OwnerInv, DisconnectSteps, TypeOK
    <3>2. CASE /\ opc[s] = "c_socket" /\ opc' = [opc EXCEPT ![s] = "c_publish"]
               /\ socket' = [socket EXCEPT ![s] = TRUE]
      BY <2>1, <3>2 DEF OwnerInv, DisconnectSteps, TypeOK
    <3> QED
      BY <2>1, <3>1, <3>2
  <2>3. ReaderInv'
    BY <2>1 DEF ReaderInv
  <2>4. NotStranded'
    BY <2>1, StrandedFacts DEF NotStranded, DisconnectSteps, TypeOK
  <2> QED
    BY <2>2, <2>3, <2>4
<1>7. CASE ConnectPublish(s)
  <2>1. OwnerInv' /\ ReaderInv'
    BY <1>7 DEF ConnectPublish, OwnerInv, ReaderInv, DisconnectSteps, TypeOK
  <2>2. NotStranded'
    BY <1>7, StrandedFacts DEF ConnectPublish, NotStranded, DisconnectSteps, TypeOK
  <2> QED
    BY <2>1, <2>2
<1>8. CASE ConnectThread(s)
  <2>1. OwnerInv'
    BY <1>8 DEF ConnectThread, OwnerInv, DisconnectSteps, TypeOK
  <2>2. ReaderInv'
    BY <1>8 DEF ConnectThread, ReaderInv, TypeOK
  <2>3. NotStranded'
    BY <1>8, StrandedFacts DEF ConnectThread, NotStranded, DisconnectSteps, TypeOK
  <2> QED
    BY <2>1, <2>2, <2>3
<1> QED
  BY <1>1, <1>2, <1>3, <1>4, <1>5, <1>6, <1>7, <1>8 DEF OwnerSteps

\* The steps of readerLoop and its callbacks keep the invariant of the threads.
LEMMA ReaderThreadInv ==
    ASSUME TypeOK, ThreadInv, NEW s \in Slots, ReaderSteps(s)
    PROVE  ThreadInv'
<1> USE DEF ThreadInv
<1> DEFINE m == Head(inbox[s])
<1>1. UNCHANGED <<connVars, ownerVars, socket, closing>>
  BY DEF ReaderSteps, ReaderCheck, ReaderFetch, ReaderDrained, TickPrice, TickSnapshotEnd,
         Error, DeliverHand, Dispatch
<1>2. \A t \in Slots : wire'[t] \subseteq wire[t]
  <2>1. wire' = wire \/ \E id : wire' = [wire EXCEPT ![s] = {w \in @ : ~(connected_[s] /\ w.id = id)}]
    BY DEF ReaderSteps, ReaderCheck, ReaderFetch, ReaderDrained, TickPrice, TickSnapshotEnd,
           Error, DeliverHand, CancelOnWire
  <2>2. wire \in [Slots -> SUBSET Subscriptions]
    BY DEF TypeOK
  <2>3. CASE wire' = wire
    BY <2>3
  <2>4. ASSUME NEW id, wire' = [wire EXCEPT ![s] = {w \in @ : ~(connected_[s] /\ w.id = id)}]
        PROVE  \A t \in Slots : wire'[t] \subseteq wire[t]
    BY <2>2, <2>4
  <2> QED
    BY <2>1, <2>3, <2>4
<1>3. OwnerInv'
  BY <1>1, <1>2 DEF OwnerInv
<1>4. ReaderInv'
  <2>1. CASE ReaderCheck(s) \/ ReaderFetch(s) \/ ReaderDrained(s)
    BY <2>1 DEF ReaderCheck, ReaderFetch, ReaderDrained, ReaderInv, TypeOK
  <2>2. CASE TickPrice(s)
    BY <2>2 DEF TickPrice, Dispatch, ReaderInv
  <2>3. CASE TickSnapshotEnd(s)
    BY <2>3 DEF TickSnapshotEnd, Dispatch, ReaderInv, TypeOK
  <2>4. CASE Error(s)
    BY <2>4 DEF Error, Dispatch, ReaderInv, TypeOK
  <2>5. CASE DeliverHand(s)
    BY <2>5 DEF DeliverHand, ReaderInv, NoEntry, TypeOK
  <2> QED
    BY <2>1, <2>2, <2>3, <2>4, <2>5 DEF ReaderSteps
<1>5. \A t \in Slots : PendingReqs(t)' \subseteq PendingReqs(t)
  <2>1. CASE ReaderCheck(s) \/ ReaderFetch(s) \/ ReaderDrained(s) \/ DeliverHand(s)
    BY <2>1, StrandedFacts DEF ReaderCheck, ReaderFetch, ReaderDrained, DeliverHand
  <2>2. CASE TickSnapshotEnd(s) \/ Error(s)
    <3>1. m.id \in AllIds
      BY <2>2, MessageTypes DEF TickSnapshotEnd, Error, Dispatch, TypeOK
    <3>2. pending_stk_' = pending_stk_ \/ pending_stk_' = [pending_stk_ EXCEPT ![s][m.id] = NoEntry]
      BY <2>2 DEF TickSnapshotEnd, Error
    <3> QED
      BY <3>1, <3>2, StrandedFacts
  <2>3. CASE TickPrice(s)
    <3>1. \A t \in Slots, jd \in AllIds : pending_stk_'[t][jd].req = pending_stk_[t][jd].req
      BY <2>3 DEF TickPrice, TypeOK
    <3> QED
      BY <3>1 DEF PendingReqs
  <2> QED
    BY <2>1, <2>2, <2>3 DEF ReaderSteps
<1>6. NotStranded'
  BY <1>1, <1>5 DEF NotStranded
<1> QED
  BY <1>3, <1>4, <1>6

\* So do the calls, the EReader thread and TWS.
LEMMA CallThreadInv ==
    ASSUME TypeOK, ThreadInv, NEW s \in Slots,
           \/ ConnectCall(s) \/ DisconnectCall(s) \/ DestroyCall(s)
           \/ \E r \in Requests : RequestStockSnapshot(s, r)
           \/ \E id \in ReqIds(s) : CancelMktData(s, id)
           \/ SocketLost(s) \/ ConnectionClosed(s)
           \/ \E w \in wire[s] : TwsTick(s, w) \/ TwsFinishes(s, w)
    PROVE  ThreadInv'
<1> USE DEF ThreadInv
<1>1. CASE ConnectCall(s) \/ DisconnectCall(s) \/ DestroyCall(s)
  <2>1. /\ UNCHANGED <<connVars, threadVars, reqVars, sdkVars>>
        /\ opc[s] = "idle" /\ opc' = [opc EXCEPT ![s] = "d_check"]
    BY <1>1 DEF ConnectCall, DisconnectCall, DestroyCall, Call
  <2>2. OwnerInv' /\ ReaderInv'
    BY <2>1 DEF OwnerInv, ReaderInv, DisconnectSteps, TypeOK
  <2>3. NotStranded'
    BY <2>1, StrandedFacts DEF NotStranded, DisconnectSteps, TypeOK
  <2> QED
    BY <2>2, <2>3
<1>2. ASSUME NEW r \in Requests, RequestStockSnapshot(s, r) PROVE ThreadInv'
  <2>1. UNCHANGED <<connVars, threadVars, ownerVars, socket, closing>>
    BY <1>2 DEF RequestStockSnapshot
  <2>2. CASE RefuseSnapshot(s, r)
    BY <2>1, <2>2, StrandedFacts DEF RefuseSnapshot, OwnerInv, ReaderInv, NotStranded
  <2>3. CASE AcceptSnapshot(s, r)
    <3>1. connected_[s] /\ \A t \in Slots : t # s => UNCHANGED <<wire[t], pending_stk_[t]>>
      BY <2>3 DEF AcceptSnapshot, TypeOK
    <3>2. wire'[s] # {} => socket[s]
      BY <2>3 DEF AcceptSnapshot, OwnerInv, TypeOK
    <3>3. OwnerInv' /\ ReaderInv'
      BY <2>1, <3>1, <3>2 DEF OwnerInv, ReaderInv
    <3>4. NotStranded'
      BY <2>1, <3>1, StrandedFacts DEF NotStranded
    <3> QED
      BY <3>3, <3>4
  <2> QED
    BY <1>2, <2>2, <2>3 DEF RequestStockSnapshot
<1>3. ASSUME NEW id \in ReqIds(s), CancelMktData(s, id) PROVE ThreadInv'
  <2>1. UNCHANGED <<connVars, threadVars, ownerVars, socket, closing>>
    BY <1>3 DEF CancelMktData
  <2>2. \A t \in Slots : wire'[t] \subseteq wire[t]
    BY <1>3 DEF CancelMktData, CancelOnWire, TypeOK
  <2>3. \A t \in Slots : PendingReqs(t)' \subseteq PendingReqs(t)
    <3>1. id \in AllIds
      BY IdFacts
    <3>2. pending_stk_' = pending_stk_ \/ pending_stk_' = [pending_stk_ EXCEPT ![s][id] = NoEntry]
      BY <1>3 DEF CancelMktData
    <3> QED
      BY <3>1, <3>2, StrandedFacts
  <2>4. OwnerInv' /\ ReaderInv' /\ NotStranded'
    BY <2>1, <2>2, <2>3 DEF OwnerInv, ReaderInv, NotStranded
  <2> QED
    BY <2>4
<1>4. CASE SocketLost(s)
  <2>1. OwnerInv' /\ ReaderInv'
    BY <1>4 DEF SocketLost, OwnerInv, ReaderInv, DisconnectSteps, TypeOK
  <2>2. NotStranded'
    BY <1>4, StrandedFacts DEF SocketLost, NotStranded
  <2> QED
    BY <2>1, <2>2
<1>5. CASE ConnectionClosed(s)
  <2>1. OwnerInv' /\ ReaderInv'
    BY <1>5 DEF ConnectionClosed, OwnerInv, ReaderInv, TypeOK
  <2>2. /\ \A id \in AllIds : pending_stk_'[s][id] = NoEntry
        /\ \A t \in Slots : t # s => UNCHANGED <<connected_[t], pending_stk_[t]>>
        /\ UNCHANGED ownerVars
    BY <1>5 DEF ConnectionClosed, FailAllPending, TypeOK
  <2>3. NotStranded'
    BY <2>2, StrandedFacts DEF NotStranded
  <2> QED
    BY <2>1, <2>3
<1>6. ASSUME NEW w \in wire[s], TwsTick(s, w) \/ TwsFinishes(s, w) PROVE ThreadInv'
  <2>1. /\ UNCHANGED <<connVars, threadVars, reqVars, ownerVars, socket, closing>>
        /\ wire' = wire \/ wire' = [wire EXCEPT ![s] = @ \ {w}]
    BY <1>6 DEF TwsTick, TwsFinishes, TwsSends
  <2>2. \A t \in Slots : wire'[t] = wire[t] \/ wire'[t] = wire[t] \ {w}
    BY <2>1 DEF TypeOK
  <2>3. OwnerInv' /\ ReaderInv'
    BY <2>1, <2>2 DEF OwnerInv, ReaderInv
  <2>4. NotStranded'
    BY <2>1, StrandedFacts DEF NotStranded
  <2> QED
    BY <2>3, <2>4
<1> QED
  BY <1>1, <1>2, <1>3, <1>4, <1>5, <1>6

-----------------------------------------------------------------------------
(* Every step keeps the table's invariant.                                  *)

\* The owner changes the table only in disconnect's last part.
LEMMA OwnerTableInv ==
    ASSUME TypeOK, TableInv, ThreadInv, NEW s \in Slots, OwnerSteps(s)
    PROVE  TableInv'
<1>1. CASE \/ DisconnectCheck(s) \/ DisconnectStop(s) \/ DisconnectJoin(s) \/ ConnectBegin(s)
           \/ ConnectFail(s) \/ ConnectSocket(s) \/ ConnectRunning(s) \/ ConnectThread(s)
  <2>1. UNCHANGED <<hand, reqVars, callerVars, wire, inbox>>
    BY <1>1 DEF DisconnectCheck, DisconnectStop, DisconnectJoin, ConnectBegin, ConnectFail,
                ConnectSocket, ConnectRunning, ConnectThread
  <2>2. NoNewMessages
    BY <2>1, QueuesShrink
  <2> QED
    BY <2>1, <2>2, TableUntouched
<1>2. CASE DisconnectSocket(s)
  <2>1. UNCHANGED <<hand, reqVars, callerVars, inbox>> /\ wire' = [wire EXCEPT ![s] = {}]
    BY <1>2 DEF DisconnectSocket
  <2>2. NoNewMessages
    BY <2>1, QueuesShrink
  <2>3. \A t \in Slots : wire'[t] \subseteq wire[t]
    BY <2>1 DEF TypeOK
  <2> QED
    BY <2>1, <2>2, <2>3, TableUntouched
<1>3. CASE DisconnectClear(s)
  <2>1. CASE closing[s]
    <3>1. UNCHANGED <<hand, reqVars, callerVars, wire, inbox>>
      BY <1>3, <2>1 DEF DisconnectClear
    <3>2. NoNewMessages
      BY <3>1, QueuesShrink
    <3> QED
      BY <3>1, <3>2, TableUntouched
  <2>2. CASE ~closing[s]
    <3>1. /\ FailAllPending(s) /\ UNCHANGED <<hand, wire>>
          /\ inbox' = [inbox EXCEPT ![s] = <<>>]
      BY <1>3, <2>2 DEF DisconnectClear
    <3>2. NoNewMessages
      BY <3>1, QueuesShrink
    <3> QED
      BY <3>1, <3>2, TableFailAll
  <2> QED
    BY <2>1, <2>2
<1>4. CASE ConnectPublish(s)
  BY <1>4, TablePublish
<1> QED
  BY <1>1, <1>2, <1>3, <1>4 DEF OwnerSteps

\* The reader takes messages out of the queue and requests out of the table.
LEMMA ReaderTableInv ==
    ASSUME TypeOK, TableInv, ThreadInv, NEW s \in Slots, ReaderSteps(s)
    PROVE  TableInv'
<1> DEFINE m == Head(inbox[s])
<1>1. CASE ReaderCheck(s) \/ ReaderFetch(s) \/ ReaderDrained(s)
  <2>1. UNCHANGED <<hand, reqVars, callerVars, wire, inbox>>
    BY <1>1 DEF ReaderCheck, ReaderFetch, ReaderDrained
  <2>2. NoNewMessages
    BY <2>1, QueuesShrink
  <2> QED
    BY <2>1, <2>2, TableUntouched
<1>2. CASE TickSnapshotEnd(s) \/ Error(s)
  <2>1. /\ rpc[s] = "process" /\ inbox[s] # <<>> /\ inbox' = [inbox EXCEPT ![s] = Tail(@)]
        /\ UNCHANGED <<next_req_id_, wrapped, callerVars>>
    BY <1>2 DEF TickSnapshotEnd, Error, Dispatch
  <2>2. NoNewMessages
    BY <2>1, QueuesShrink
  <2>3. m.id \in AllIds
    BY <2>1, MessageTypes DEF TypeOK
  <2>4. wire' = wire \/ CancelOnWire(s, m.id)
    BY <1>2 DEF TickSnapshotEnd, Error
  <2>5. \A t \in Slots : wire'[t] \subseteq wire[t]
    <3>1. CASE wire' = wire
      BY <3>1
    <3>2. CASE wire' = [wire EXCEPT ![s] = {w \in @ : ~(connected_[s] /\ w.id = m.id)}]
      BY <3>2 DEF TypeOK
    <3> QED
      BY <2>4, <3>1, <3>2 DEF CancelOnWire
  <2>6. hand[s].req = NoReq
    BY <2>1 DEF ThreadInv, ReaderInv
  <2>7. CASE pending_stk_' = pending_stk_ /\ hand' = hand
    BY <2>1, <2>2, <2>5, <2>7, TableUntouched
  <2>8. ASSUME IsPending(s, m.id), NEW p \in {pending_stk_[s][m.id].ticks, {}},
               pending_stk_' = [pending_stk_ EXCEPT ![s][m.id] = NoEntry],
               hand' = [hand EXCEPT ![s] = [req |-> pending_stk_[s][m.id].req, ticks |-> p]]
        PROVE  TableInv'
    BY <2>1, <2>2, <2>3, <2>5, <2>6, <2>8, TableTake
  <2>9. pending_stk_[s][m.id]
            = [req |-> pending_stk_[s][m.id].req, ticks |-> pending_stk_[s][m.id].ticks]
    BY <2>3 DEF TypeOK, Entries
  <2>10. CASE TickSnapshotEnd(s)
    BY <2>7, <2>8, <2>9, <2>10 DEF TickSnapshotEnd
  <2>11. CASE Error(s)
    BY <2>7, <2>8, <2>11 DEF Error
  <2> QED
    BY <1>2, <2>10, <2>11
<1> QED
  BY <1>1, <1>2, TableTick, TableDeliver DEF ReaderSteps

\* Calls add a request or cancel one; the EReader thread fails all or adds a message.
LEMMA CallTableInv ==
    ASSUME TypeOK, TableInv, ThreadInv, NEW s \in Slots,
           \/ ConnectCall(s) \/ DisconnectCall(s) \/ DestroyCall(s)
           \/ \E r \in Requests : RequestStockSnapshot(s, r)
           \/ \E id \in ReqIds(s) : CancelMktData(s, id)
           \/ SocketLost(s) \/ ConnectionClosed(s)
           \/ \E w \in wire[s] : TwsTick(s, w) \/ TwsFinishes(s, w)
    PROVE  TableInv'
<1>1. CASE ConnectCall(s) \/ DisconnectCall(s) \/ DestroyCall(s) \/ SocketLost(s)
  <2>1. /\ UNCHANGED <<hand, reqVars, callerVars, inbox>>
        /\ wire' = wire \/ wire' = [wire EXCEPT ![s] = {}]
    BY <1>1 DEF ConnectCall, DisconnectCall, DestroyCall, Call, SocketLost
  <2>2. NoNewMessages
    BY <2>1, QueuesShrink
  <2>3. \A t \in Slots : wire'[t] \subseteq wire[t]
    BY <2>1 DEF TypeOK
  <2> QED
    BY <2>1, <2>2, <2>3, TableUntouched
<1>2. ASSUME NEW r \in Requests, RequestStockSnapshot(s, r) PROVE TableInv'
  BY <1>2, TableRefuse, TableAccept DEF RequestStockSnapshot, RefuseSnapshot
<1>3. ASSUME NEW id \in ReqIds(s), CancelMktData(s, id) PROVE TableInv'
  <2>1. /\ UNCHANGED <<hand, inbox, next_req_id_, wrapped, asked, answered, snapshot>>
        /\ id \in AllIds
    BY <1>3, IdFacts DEF CancelMktData
  <2>2. \A t \in Slots : wire'[t] \subseteq wire[t]
    BY <1>3 DEF CancelMktData, CancelOnWire, TypeOK
  <2>3. NoNewMessages
    BY <2>1, QueuesShrink
  <2>4. CASE pending_stk_' = pending_stk_ /\ cancelled' = cancelled
    BY <2>1, <2>2, <2>3, <2>4, TableUntouched
  <2>5. CASE /\ pending_stk_' = [pending_stk_ EXCEPT ![s][id] = NoEntry]
             /\ cancelled' = cancelled \cup ({pending_stk_[s][id].req} \ {NoReq})
    BY <2>1, <2>2, <2>5, TableCancel
  <2> QED
    BY <1>3, <2>4, <2>5 DEF CancelMktData
<1>4. CASE ConnectionClosed(s)
  <2>1. FailAllPending(s) /\ UNCHANGED <<hand, wire, inbox>>
    BY <1>4 DEF ConnectionClosed
  <2>2. NoNewMessages
    BY <2>1, QueuesShrink
  <2> QED
    BY <2>1, <2>2, TableFailAll
<1> QED
  BY <1>1, <1>2, <1>3, <1>4, TableSend

-----------------------------------------------------------------------------
\* No step of any thread breaks the table's invariant or the threads'.
LEMMA NextIInv == TypeOK /\ TableInv /\ ThreadInv /\ [Next]_slotVars => TableInv' /\ ThreadInv'
<1> SUFFICES ASSUME TypeOK, TableInv, ThreadInv, [Next]_slotVars PROVE TableInv' /\ ThreadInv'
  OBVIOUS
<1>1. CASE Next
  <2>1. PICK s \in Slots :
            \/ OwnerSteps(s) \/ ReaderSteps(s)
            \/ ConnectCall(s) \/ DisconnectCall(s) \/ DestroyCall(s)
            \/ \E r \in Requests : RequestStockSnapshot(s, r)
            \/ \E id \in ReqIds(s) : CancelMktData(s, id)
            \/ SocketLost(s) \/ ConnectionClosed(s)
            \/ \E w \in wire[s] : TwsTick(s, w) \/ TwsFinishes(s, w)
    BY <1>1 DEF Next, SlotSteps
  <2> QED
    BY <2>1, OwnerTableInv, ReaderTableInv, CallTableInv, OwnerThreadInv, ReaderThreadInv,
       CallThreadInv
<1>2. CASE UNCHANGED slotVars
  <2>1. UNCHANGED <<hand, reqVars, callerVars, wire, inbox>>
    BY <1>2 DEF slotVars
  <2>2. TableInv'
    BY <2>1, QueuesShrink, TableUntouched DEF NoNewMessages
  <2>3. ThreadInv'
    BY <1>2 DEF slotVars, ThreadInv, OwnerInv, ReaderInv, NotStranded, PendingReqs
  <2> QED
    BY <2>2, <2>3
<1> QED
  BY <1>1, <1>2

\* The inductive invariant holds of every state of the slots.
LEMMA InductiveInvariant == Spec => []IInv
<1>1. Init => IInv
  BY InitTypeOK, InitIInv DEF IInv
<1>2. IInv /\ [Next]_slotVars => IInv'
  BY NextTypeOK, NextIInv DEF IInv
<1> QED
  BY <1>1, <1>2, PTL DEF Spec

\* No interleaving of callbacks, disconnects and reconnects answers a request twice.
THEOREM AnswersOnce == Spec => []AnsweredAtMostOnce
<1>1. IInv => AnsweredAtMostOnce
  BY DEF IInv, TableInv
<1> QED
  BY <1>1, InductiveInvariant, PTL

\* While the ids have not wrapped, no open request leaves the slot's hands.
THEOREM LosesNothing == Spec => []NoRequestLost
<1>1. IInv => NoRequestLost
  BY DEF IInv, TableInv
<1> QED
  BY <1>1, InductiveInvariant, PTL

\* While the ids have not wrapped, an answer holds only its own prices.
THEOREM AnswersWithOwnPrices == Spec => []OwnSnapshot
<1>1. IInv => OwnSnapshot
  BY DEF IInv, TableInv
<1> QED
  BY <1>1, InductiveInvariant, PTL

\* A disconnected slot keeps no pending request.
THEOREM StrandsNothing == Spec => []NotStranded
<1>1. IInv => NotStranded
  BY DEF IInv, ThreadInv
<1> QED
  BY <1>1, InductiveInvariant, PTL

-----------------------------------------------------------------------------
(* The slot implements the service.                                         *)

\* A step in which callers see nothing is a stutter of the service; any other
\* one is the step of the service it claims to be.
LEMMA StepImplements ==
    ASSUME IInv, NEW s \in Slots,
           \/ OwnerSteps(s) \/ ReaderSteps(s)
           \/ ConnectCall(s) \/ DisconnectCall(s) \/ DestroyCall(s)
           \/ \E r \in Requests : RequestStockSnapshot(s, r)
           \/ \E id \in ReqIds(s) : CancelMktData(s, id)
           \/ SocketLost(s) \/ ConnectionClosed(s)
           \/ \E w \in wire[s] : TwsTick(s, w) \/ TwsFinishes(s, w),
           NoWrap'
    PROVE  Service!Next \/ UNCHANGED callerVars
<1> USE DEF IInv
<1>f. ASSUME FailAllPending(s) PROVE Service!Next \/ UNCHANGED callerVars
  <2>1. PendingReqs(s) \subseteq Service!Open
    BY DEF PendingReqs, TableInv, OneHolder, Service!Open
  <2>2. CASE PendingReqs(s) = {}
    <3>1. \A r \in Requests : answered'[r] = answered[r]
      BY <1>f, <2>2 DEF FailAllPending, TypeOK
    <3>2. answered' = answered
      BY <1>f, <3>1 DEF FailAllPending, TypeOK
    <3> QED
      BY <1>f, <3>2 DEF FailAllPending
  <2>3. CASE PendingReqs(s) # {}
    <3>1. Service!Fail(PendingReqs(s))
      BY <1>f DEF FailAllPending, Service!Fail
    <3>2. PendingReqs(s) \in (SUBSET Service!Open) \ {{}}
      BY <2>1, <2>3
    <3> QED
      BY <3>1, <3>2 DEF Service!Next
  <2> QED
    BY <2>2, <2>3
<1>1. CASE OwnerSteps(s)
  <2>1. FailAllPending(s) \/ UNCHANGED callerVars
    BY <1>1 DEF OwnerSteps, DisconnectCheck, DisconnectStop, DisconnectJoin, DisconnectSocket,
                DisconnectClear, ConnectBegin, ConnectFail, ConnectSocket, ConnectPublish,
                ConnectRunning, ConnectThread
  <2> QED
    BY <1>f, <2>1
<1>2. CASE ConnectionClosed(s)
  BY <1>2, <1>f DEF ConnectionClosed
<1>3. CASE DeliverHand(s)
  <2> DEFINE r == hand[s].req
  <2>1. /\ answered' = [answered EXCEPT ![r] = @ + 1]
        /\ snapshot' = [snapshot EXCEPT ![r] = hand[s].ticks]
        /\ UNCHANGED <<asked, cancelled, wrapped>>
    BY <1>3 DEF DeliverHand
  <2>2. CASE r = NoReq
    <3>1. answered' = answered /\ snapshot' = snapshot
      BY <2>1, <2>2, NoReqAssumption DEF TypeOK
    <3> QED
      BY <2>1, <3>1
  <2>3. CASE r # NoReq
    <3>1. r \in Service!Open /\ r \in Requests
      BY <2>3 DEF TableInv, OneHolder, Service!Open, TypeOK
    <3>2. hand[s].ticks \subseteq {r}
      BY <2>1 DEF TableInv, OwnMessages, NoWrap
    <3>3. CASE hand[s].ticks = {r}
      BY <2>1, <3>1, <3>3 DEF Service!Succeed, Service!Next
    <3>4. CASE hand[s].ticks = {}
      <4>1. snapshot' = snapshot
        <5>1. snapshot[r] = {}
          <6>1. answered[r] = 0
            BY <3>1 DEF Service!Open
          <6> QED
            BY <3>1, <6>1 DEF TableInv, FreshRequests
        <5> QED
          BY <2>1, <3>4, <5>1 DEF TypeOK
      <4>2. answered' = [q \in Requests |-> answered[q] + IF q \in {r} THEN 1 ELSE 0]
        <5>1. answered \in [Requests -> Nat]
          BY DEF TypeOK
        <5>2. \A q \in Requests :
                 [answered EXCEPT ![r] = @ + 1][q] = answered[q] + IF q \in {r} THEN 1 ELSE 0
          BY <3>1, <5>1
        <5> QED
          BY <2>1, <5>1, <5>2
      <4>3. Service!Fail({r}) /\ {r} \in (SUBSET Service!Open) \ {{}}
        BY <2>1, <3>1, <4>1, <4>2 DEF Service!Fail
      <4> QED
        BY <4>3 DEF Service!Next
    <3> QED
      BY <3>2, <3>3, <3>4
  <2> QED
    BY <2>2, <2>3
<1>4. CASE ReaderSteps(s) /\ ~DeliverHand(s)
  BY <1>4 DEF ReaderSteps, ReaderCheck, ReaderFetch, ReaderDrained, TickPrice,
              TickSnapshotEnd, Error, Dispatch
<1>5. ASSUME NEW r \in Requests, RequestStockSnapshot(s, r)
      PROVE  Service!Next \/ UNCHANGED callerVars
  <2>1. CASE RefuseSnapshot(s, r)
    BY <1>5, <2>1 DEF RequestStockSnapshot, RefuseSnapshot, Service!Refuse, Service!Next
  <2>2. CASE AcceptSnapshot(s, r)
    BY <1>5, <2>2 DEF RequestStockSnapshot, AcceptSnapshot, Service!Ask, Service!Next
  <2> QED
    BY <1>5, <2>1, <2>2 DEF RequestStockSnapshot
<1>6. ASSUME NEW id \in ReqIds(s), CancelMktData(s, id)
      PROVE  Service!Next \/ UNCHANGED callerVars
  <2> DEFINE r == pending_stk_[s][id].req
  <2>1. UNCHANGED <<asked, answered, snapshot>>
    BY <1>6 DEF CancelMktData
  <2>2. CASE cancelled' = cancelled
    BY <2>1, <2>2
  <2>3. CASE cancelled' = cancelled \cup {r} /\ r # NoReq
    <3>1. r \in Service!Open /\ r \in Requests
      BY <2>3, IdFacts DEF TableInv, OneHolder, Service!Open, TypeOK
    <3> QED
      BY <2>1, <2>3, <3>1 DEF Service!Cancel, Service!Next
  <2> QED
    BY <1>6, <2>2, <2>3 DEF CancelMktData
<1>7. CASE \/ ConnectCall(s) \/ DisconnectCall(s) \/ DestroyCall(s) \/ SocketLost(s)
           \/ \E w \in wire[s] : TwsTick(s, w) \/ TwsFinishes(s, w)
  BY <1>7 DEF ConnectCall, DisconnectCall, DestroyCall, Call, SocketLost, TwsTick,
              TwsFinishes, TwsSends
<1> QED
  BY <1>1, <1>2, <1>3, <1>4, <1>5, <1>6, <1>7

\* Every step of the slots is a step of the service or none of it.
LEMMA ServesCallers ==
    ASSUME IInv, [Next]_slotVars, NoWrap'
    PROVE  Service!Next \/ UNCHANGED callerVars
<1>1. CASE Next
  BY <1>1, StepImplements DEF Next, SlotSteps
<1>2. CASE UNCHANGED slotVars
  BY <1>2 DEF slotVars
<1> QED
  BY <1>1, <1>2

\* Until the ids wrap, everything callers see of the slot is a behaviour of
\* SnapshotService: asked, refused, answered with its own prices, failed with the
\* connection, or cancelled.
THEOREM Implements == Spec => ImplementsService
<1>1. Init => ServiceInit
  BY DEF Init, ServiceInit, Service!Init
<1>2. IInv /\ [Next]_slotVars => [NoWrap' => Service!Next]_(Service!vars)
  BY ServesCallers DEF Service!vars
<1> QED
  BY <1>1, <1>2, InductiveInvariant, PTL DEF Spec, ImplementsService
=============================================================================
