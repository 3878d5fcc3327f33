--------------------------- MODULE ConnectionSlot ---------------------------
(***************************************************************************)
(* ibkr::ConnectionSlot: one TWS connection per slot, its reader thread,   *)
(* its table of pending snapshot requests, and the calls that race on it.  *)
(*                                                                         *)
(* Threads of a slot s:                                                    *)
(*   - the owner (the pool's monitor or the thread that shuts down), which *)
(*     calls connect, disconnect and the destructor; opc[s] is where it is *)
(*   - the readerLoop thread, rpc[s], which runs processMsgs and with it   *)
(*     tickPrice, tickSnapshotEnd and error                                *)
(*   - the SDK's EReader thread, which fills inbox[s] from the socket and  *)
(*     calls connectionClosed when the socket is lost                      *)
(*   - any caller of requestStockSnapshot and cancelMktData.               *)
(* A block that runs under mutex_ is one action.  A call of the SDK made   *)
(* while mutex_ is held on a socket that is already closed comes back, on  *)
(* the same thread, through error(), which locks mutex_ again: mutex_ is   *)
(* never released, wedged[s], and every action that needs it is disabled.  *)
(*                                                                         *)
(* Abstracted: prices are "some price arrived" (hasBid, hasAsk, hasLast),  *)
(* a price remembers which request TWS sent it for; last_error_*, host and *)
(* version strings are left out.                                           *)
(***************************************************************************)
EXTENDS Integers, Sequences, FiniteSets

CONSTANTS
    Slots,        \* the slot indices of the pool, 0 .. numSlots - 1
    Requests,     \* one value per call of requestStockSnapshot
    NoReq,        \* no request
    RangeSize,    \* request ids per slot (100000 in the code)
    MaxInbox,     \* bound: messages the EReader holds at a time
    MaxConnects   \* bound: calls of connect, for each slot

ASSUME SlotsAssumption == Slots \subseteq Nat
ASSUME NoReqAssumption == NoReq \notin Requests
ASSUME RangeAssumption == RangeSize \in Nat \ {0}
ASSUME BoundAssumption == MaxInbox \in Nat /\ MaxConnects \in [Slots -> Nat]

VARIABLES
    connected_, connecting_,  \* the flags under mutex_
    reader_running_,          \* the atomic that keeps readerLoop going
    reader_,                  \* reader_ holds an EReader
    reader_thread_,           \* "none" (not joinable), "live" or "done"
    rpc,                      \* where readerLoop is
    hand,                     \* the callback moved out of pending_stk_
    next_req_id_, pending_stk_,
    wrapped,                  \* history: ids have started again at the range's first
    wedged,                   \* mutex_ is held by a thread that waits for itself
    opc, purpose,             \* where the owner is, and in which call
    connects,                 \* calls of connect so far
    socket,                   \* EClientSocket has an open socket
    closing,                  \* the EReader thread is about to call connectionClosed
    wire,                     \* snapshots TWS works on
    inbox,                    \* messages in the EReader's queue
    asked, answered, snapshot, cancelled,  \* what callers saw, see SnapshotService
    fault                     \* the process aborted, or is past undefined behaviour

connVars   == <<connected_, connecting_, reader_running_, reader_>>
threadVars == <<reader_thread_, rpc, hand>>
reqVars    == <<next_req_id_, pending_stk_, wrapped>>
ownerVars  == <<opc, purpose, connects>>
sdkVars    == <<socket, closing, wire, inbox>>
callerVars == <<asked, answered, snapshot, cancelled>>
slotVars   == <<connVars, threadVars, reqVars, wedged, ownerVars, sdkVars,
                callerVars, fault>>

-----------------------------------------------------------------------------
\* initialize() gives slot i the ids (i + 1) * RangeSize .. (i + 2) * RangeSize - 1.
ReqIdStart(s) == (s + 1) * RangeSize
ReqIdEnd(s)   == ReqIdStart(s) + RangeSize - 1
ReqIds(s)     == ReqIdStart(s) .. ReqIdEnd(s)
AllIds        == UNION {ReqIds(s) : s \in Slots}

\* A StkSnapshotPending: ticks is non-empty iff hasBid, hasAsk or hasLast.
Entries == [req : Requests \cup {NoReq}, ticks : SUBSET Requests]
NoEntry == [req |-> NoReq, ticks |-> {}]

Messages == [kind : {"price", "other", "end", "error"}, id : AllIds, req : Requests]

\* A snapshot TWS works on: the id it was asked under and, as history, for whom.
Subscriptions == [id : AllIds, req : Requests]

IsPending(s, id) == pending_stk_[s][id].req # NoReq
PendingReqs(s)   == {pending_stk_[s][id].req : id \in AllIds} \ {NoReq}

\* The owner is inside disconnect(), past its early return.
DisconnectSteps == {"d_stop", "d_join", "d_socket", "d_clear"}

Init ==
    /\ connected_ = [s \in Slots |-> FALSE]
    /\ connecting_ = [s \in Slots |-> FALSE]
    /\ reader_running_ = [s \in Slots |-> FALSE]
    /\ reader_ = [s \in Slots |-> FALSE]
    /\ reader_thread_ = [s \in Slots |-> "none"]
    /\ rpc = [s \in Slots |-> "loop"]
    /\ hand = [s \in Slots |-> NoEntry]
    /\ next_req_id_ = [s \in Slots |-> ReqIdStart(s)]
    /\ pending_stk_ = [s \in Slots |-> [id \in AllIds |-> NoEntry]]
    /\ wrapped = [s \in Slots |-> FALSE]
    /\ wedged = [s \in Slots |-> FALSE]
    /\ opc = [s \in Slots |-> "idle"]
    /\ purpose = [s \in Slots |-> "connect"]
    /\ connects = [s \in Slots |-> 0]
    /\ socket = [s \in Slots |-> FALSE]
    /\ closing = [s \in Slots |-> FALSE]
    /\ wire = [s \in Slots |-> {}]
    /\ inbox = [s \in Slots |-> <<>>]
    /\ asked = {}
    /\ answered = [r \in Requests |-> 0]
    /\ snapshot = [r \in Requests |-> {}]
    /\ cancelled = {}
    /\ fault = "none"

\* Mutant: the table is emptied without calling onError.
DropAllPending(s) ==
    /\ pending_stk_' = [pending_stk_ EXCEPT ![s] = [id \in AllIds |-> NoEntry]]
    /\ UNCHANGED <<next_req_id_, wrapped, callerVars>>

\* Every pending onError is called and the table is emptied.
FailAllPending(s) ==
    /\ answered' = [r \in Requests |->
                       answered[r] + IF r \in PendingReqs(s) THEN 1 ELSE 0]
    /\ pending_stk_' = [pending_stk_ EXCEPT ![s] = [id \in AllIds |-> NoEntry]]
    /\ UNCHANGED <<next_req_id_, wrapped, asked, snapshot, cancelled>>

-----------------------------------------------------------------------------
(* The owner: connect, disconnect and the destructor.                       *)

\* connect, disconnect and the destructor all begin with disconnect().
Call(s, p) ==
    /\ opc[s] = "idle"
    /\ opc' = [opc EXCEPT ![s] = "d_check"]
    /\ purpose' = [purpose EXCEPT ![s] = p]
    /\ UNCHANGED <<connVars, threadVars, reqVars, wedged, sdkVars, callerVars, fault>>

ConnectCall(s) ==
    /\ connects[s] < MaxConnects[s]
    /\ connects' = [connects EXCEPT ![s] = @ + 1]
    /\ Call(s, "connect")

DisconnectCall(s) == Call(s, "disconnect") /\ UNCHANGED connects

DestroyCall(s) == Call(s, "destroy") /\ UNCHANGED connects

\* What follows disconnect() in the call that made it.  The destructor goes on
\* to destroy reader_thread_, which aborts the process while it is joinable.
DisconnectReturns(s, thread) ==
    /\ \/ purpose[s] = "connect"    /\ opc' = [opc EXCEPT ![s] = "c_begin"]
       \/ purpose[s] = "disconnect" /\ opc' = [opc EXCEPT ![s] = "idle"]
       \/ purpose[s] = "destroy"    /\ opc' = [opc EXCEPT ![s] = "gone"]
    /\ fault' = IF purpose[s] = "destroy" /\ thread # "none"
                THEN "terminate" ELSE fault

DisconnectCheck(s) ==
    /\ opc[s] = "d_check"
    /\ ~wedged[s]
    /\ \/ /\ ~connected_[s] /\ ~connecting_[s] /\ ~reader_running_[s]
          /\ DisconnectReturns(s, reader_thread_[s])
          /\ UNCHANGED connVars
       \/ /\ connected_[s] \/ connecting_[s] \/ reader_running_[s]
          /\ connected_' = [connected_ EXCEPT ![s] = FALSE]
          /\ connecting_' = [connecting_ EXCEPT ![s] = FALSE]
          /\ opc' = [opc EXCEPT ![s] = "d_stop"]
          /\ UNCHANGED <<reader_running_, reader_, fault>>
    /\ UNCHANGED <<threadVars, reqVars, wedged, purpose, connects, sdkVars, callerVars>>

DisconnectStop(s) ==
    /\ opc[s] = "d_stop"
    /\ reader_running_' = [reader_running_ EXCEPT ![s] = FALSE]
    /\ opc' = [opc EXCEPT ![s] = "d_join"]
    /\ UNCHANGED <<connected_, connecting_, reader_, threadVars, reqVars, wedged,
                   purpose, connects, sdkVars, callerVars, fault>>

DisconnectJoin(s) ==
    /\ opc[s] = "d_join"
    /\ reader_thread_[s] # "live"
    /\ reader_thread_' = [reader_thread_ EXCEPT ![s] = "none"]
    /\ opc' = [opc EXCEPT ![s] = "d_socket"]
    /\ UNCHANGED <<connVars, rpc, hand, reqVars, wedged, purpose, connects,
                   sdkVars, callerVars, fault>>

DisconnectSocket(s) ==
    /\ opc[s] = "d_socket"
    /\ socket' = [socket EXCEPT ![s] = FALSE]
    /\ wire' = [wire EXCEPT ![s] = {}]
    /\ opc' = [opc EXCEPT ![s] = "d_clear"]
    /\ UNCHANGED <<connVars, threadVars, reqVars, wedged, purpose, connects,
                   closing, inbox, callerVars, fault>>

\* reader_.reset() waits, under mutex_, for the EReader thread: for ever when
\* that thread is on its way into connectionClosed.
DisconnectClear(s) ==
    /\ opc[s] = "d_clear"
    /\ ~wedged[s]
    /\ \/ /\ closing[s]
          /\ wedged' = [wedged EXCEPT ![s] = TRUE]
          /\ opc' = [opc EXCEPT ![s] = "stuck"]
          /\ UNCHANGED <<connVars, reqVars, inbox, callerVars, fault>>
       \/ /\ ~closing[s]
          /\ reader_' = [reader_ EXCEPT ![s] = FALSE]
          /\ inbox' = [inbox EXCEPT ![s] = <<>>]
          /\ FailAllPending(s)
          /\ DisconnectReturns(s, reader_thread_[s])
          /\ UNCHANGED <<connected_, connecting_, reader_running_, wedged>>
    /\ UNCHANGED <<threadVars, purpose, connects, socket, closing, wire>>

ConnectBegin(s) ==
    /\ opc[s] = "c_begin"
    /\ ~wedged[s]
    /\ connecting_' = [connecting_ EXCEPT ![s] = TRUE]
    /\ opc' = [opc EXCEPT ![s] = "c_socket"]
    /\ UNCHANGED <<connected_, reader_running_, reader_, threadVars, reqVars,
                   wedged, purpose, connects, sdkVars, callerVars, fault>>

\* eConnect failed, or the socket was closed right after it.
ConnectFail(s) ==
    /\ opc[s] = "c_socket"
    /\ ~wedged[s]
    /\ connecting_' = [connecting_ EXCEPT ![s] = FALSE]
    /\ opc' = [opc EXCEPT ![s] = "idle"]
    /\ UNCHANGED <<connected_, reader_running_, reader_, threadVars, reqVars,
                   wedged, purpose, connects, sdkVars, callerVars, fault>>

\* The socket is open and a new EReader thread reads it.
ConnectSocket(s) ==
    /\ opc[s] = "c_socket"
    /\ socket' = [socket EXCEPT ![s] = TRUE]
    /\ opc' = [opc EXCEPT ![s] = "c_publish"]
    /\ UNCHANGED <<connVars, threadVars, reqVars, wedged, purpose, connects,
                   closing, wire, inbox, callerVars, fault>>

\* Mutant: the queue of the old EReader outlives it.
PublishKeepsQueue(s) ==
    /\ opc[s] = "c_publish"
    /\ ~wedged[s]
    /\ reader_' = [reader_ EXCEPT ![s] = TRUE]
    /\ connected_' = [connected_ EXCEPT ![s] = TRUE]
    /\ connecting_' = [connecting_ EXCEPT ![s] = FALSE]
    /\ next_req_id_' = [next_req_id_ EXCEPT ![s] = ReqIdStart(s)]
    /\ opc' = [opc EXCEPT ![s] = "c_running"]
    /\ UNCHANGED <<reader_running_, threadVars, pending_stk_, wrapped, wedged,
                   purpose, connects, sdkVars, callerVars, fault>>

\* Storing the new EReader destroys the one before it, with its queue, while a
\* reader thread that was never joined may be inside its processMsgs.
ConnectPublish(s) ==
    /\ opc[s] = "c_publish"
    /\ ~wedged[s]
    /\ reader_' = [reader_ EXCEPT ![s] = TRUE]
    /\ inbox' = [inbox EXCEPT ![s] = <<>>]
    /\ connected_' = [connected_ EXCEPT ![s] = TRUE]
    /\ connecting_' = [connecting_ EXCEPT ![s] = FALSE]
    /\ next_req_id_' = [next_req_id_ EXCEPT ![s] = ReqIdStart(s)]
    /\ opc' = [opc EXCEPT ![s] = "c_running"]
    /\ fault' = IF rpc[s] \in {"process", "deliver"} THEN "freed_reader" ELSE fault
    /\ UNCHANGED <<reader_running_, threadVars, pending_stk_, wrapped, wedged,
                   purpose, connects, socket, closing, wire, callerVars>>

ConnectRunning(s) ==
    /\ opc[s] = "c_running"
    /\ reader_running_' = [reader_running_ EXCEPT ![s] = TRUE]
    /\ opc' = [opc EXCEPT ![s] = "c_thread"]
    /\ UNCHANGED <<connected_, connecting_, reader_, threadVars, reqVars, wedged,
                   purpose, connects, sdkVars, callerVars, fault>>

\* Assigning to a std::thread that is still joinable calls std::terminate.
ConnectThread(s) ==
    /\ opc[s] = "c_thread"
    /\ \/ /\ reader_thread_[s] # "none"
          /\ fault' = "terminate"
          /\ UNCHANGED <<threadVars, opc>>
       \/ /\ reader_thread_[s] = "none"
          /\ reader_thread_' = [reader_thread_ EXCEPT ![s] = "live"]
          /\ rpc' = [rpc EXCEPT ![s] = "loop"]
          /\ opc' = [opc EXCEPT ![s] = "idle"]
          /\ UNCHANGED <<hand, fault>>
    /\ UNCHANGED <<connVars, reqVars, wedged, purpose, connects, sdkVars, callerVars>>

-----------------------------------------------------------------------------
(* Callers, on the HTTP thread.                                             *)

\* Not connected: onError at once.
RefuseSnapshot(s, r) ==
    /\ ~connected_[s]
    /\ answered' = [answered EXCEPT ![r] = @ + 1]
    /\ UNCHANGED <<reqVars, wedged, wire>>

\* Mutant: the wrap test is off by one.
AcceptPastTheEnd(s, r) ==
    LET id == next_req_id_[s] IN
    /\ connected_[s]
    /\ next_req_id_' = [next_req_id_ EXCEPT
                           ![s] = IF id > ReqIdEnd(s) THEN ReqIdStart(s) ELSE id + 1]
    /\ pending_stk_' = [pending_stk_ EXCEPT ![s][id] = [req |-> r, ticks |-> {}]]
    /\ wire' = [wire EXCEPT ![s] = IF socket[s] THEN @ \cup {[id |-> id, req |-> r]} ELSE @]
    /\ wedged' = [wedged EXCEPT ![s] = ~socket[s]]
    /\ UNCHANGED <<answered, wrapped>>

\* The request takes the next id, over whatever is pending under it, and goes
\* to TWS while mutex_ is held.
AcceptSnapshot(s, r) ==
    LET id == next_req_id_[s] IN
    /\ connected_[s]
    /\ next_req_id_' = [next_req_id_ EXCEPT
                           ![s] = IF id + 1 > ReqIdEnd(s) THEN ReqIdStart(s) ELSE id + 1]
    /\ wrapped' = [wrapped EXCEPT ![s] = @ \/ id + 1 > ReqIdEnd(s)]
    /\ pending_stk_' = [pending_stk_ EXCEPT ![s][id] = [req |-> r, ticks |-> {}]]
    /\ wire' = [wire EXCEPT ![s] = IF socket[s] THEN @ \cup {[id |-> id, req |-> r]} ELSE @]
    /\ wedged' = [wedged EXCEPT ![s] = ~socket[s]]
    /\ UNCHANGED answered

RequestStockSnapshot(s, r) ==
    /\ opc[s] # "gone"
    /\ ~wedged[s]
    /\ r \notin asked
    /\ asked' = asked \cup {r}
    /\ RefuseSnapshot(s, r) \/ AcceptSnapshot(s, r)
    /\ UNCHANGED <<connVars, threadVars, ownerVars, socket, closing, inbox,
                   snapshot, cancelled, fault>>

\* What a call of the SDK's cancelMktData does under mutex_.
CancelOnWire(s, id) ==
    /\ wire' = [wire EXCEPT ![s] = {w \in @ : ~(connected_[s] /\ w.id = id)}]
    /\ wedged' = [wedged EXCEPT ![s] = connected_[s] /\ ~socket[s]]

\* The callbacks of a cancelled request are dropped, none is called.
CancelMktData(s, id) ==
    /\ opc[s] # "gone"
    /\ ~wedged[s]
    /\ CancelOnWire(s, id)
    /\ IF connected_[s] /\ ~socket[s]
       THEN UNCHANGED <<pending_stk_, cancelled>>
       ELSE /\ pending_stk_' = [pending_stk_ EXCEPT ![s][id] = NoEntry]
            /\ cancelled' = cancelled \cup ({pending_stk_[s][id].req} \ {NoReq})
    /\ UNCHANGED <<connVars, threadVars, next_req_id_, wrapped, ownerVars, socket,
                   closing, inbox, asked, answered, snapshot, fault>>

-----------------------------------------------------------------------------
(* readerLoop and the EWrapper callbacks processMsgs makes on it.           *)

ReaderCheck(s) ==
    /\ reader_thread_[s] = "live"
    /\ rpc[s] = "loop"
    /\ IF reader_running_[s]
       THEN rpc' = [rpc EXCEPT ![s] = "fetch"] /\ UNCHANGED reader_thread_
       ELSE reader_thread_' = [reader_thread_ EXCEPT ![s] = "done"] /\ UNCHANGED rpc
    /\ UNCHANGED <<connVars, hand, reqVars, wedged, ownerVars, sdkVars, callerVars, fault>>

ReaderFetch(s) ==
    /\ rpc[s] = "fetch"
    /\ ~wedged[s]
    /\ rpc' = [rpc EXCEPT ![s] = IF reader_[s] THEN "process" ELSE "loop"]
    /\ UNCHANGED <<connVars, reader_thread_, hand, reqVars, wedged, ownerVars,
                   sdkVars, callerVars, fault>>

\* processMsgs returns when the EReader's queue is empty.
ReaderDrained(s) ==
    /\ rpc[s] = "process"
    /\ inbox[s] = <<>>
    /\ rpc' = [rpc EXCEPT ![s] = "loop"]
    /\ UNCHANGED <<connVars, reader_thread_, hand, reqVars, wedged, ownerVars,
                   sdkVars, callerVars, fault>>

\* processMsgs takes the next message and calls the handler of its kind.
Dispatch(s, kinds) ==
    /\ rpc[s] = "process"
    /\ inbox[s] # <<>>
    /\ Head(inbox[s]).kind \in kinds
    /\ ~wedged[s]
    /\ inbox' = [inbox EXCEPT ![s] = Tail(@)]
    /\ UNCHANGED <<connVars, reader_thread_, next_req_id_, wrapped, ownerVars,
                   socket, closing, callerVars, fault>>

\* A negative price returns early, another field than BID, ASK and LAST sets nothing.
TickPrice(s) ==
    LET m == Head(inbox[s]) IN
    /\ Dispatch(s, {"price", "other"})
    /\ pending_stk_' = IF m.kind = "price" /\ IsPending(s, m.id)
                       THEN [pending_stk_ EXCEPT ![s][m.id] =
                                   [req |-> @.req, ticks |-> @.ticks \cup {m.req}]]
                       ELSE pending_stk_
    /\ UNCHANGED <<rpc, hand, wedged, wire>>

\* Mutant: the entry stays in the table when its callback is moved out.
EndKeepsEntry(s) ==
    LET id == Head(inbox[s]).id IN
    /\ Dispatch(s, {"end"})
    /\ UNCHANGED pending_stk_
    /\ IF ~IsPending(s, id)
       THEN UNCHANGED <<rpc, hand, wedged, wire>>
       ELSE /\ CancelOnWire(s, id)
            /\ hand' = [hand EXCEPT ![s] = pending_stk_[s][id]]
            /\ rpc' = [rpc EXCEPT ![s] = IF wedged'[s] THEN "stuck" ELSE "deliver"]

\* The entry leaves the table before cancelMktData is called ...
TickSnapshotEnd(s) ==
    LET id == Head(inbox[s]).id IN
    /\ Dispatch(s, {"end"})
    /\ IF ~IsPending(s, id)
       THEN UNCHANGED <<pending_stk_, rpc, hand, wedged, wire>>
       ELSE /\ pending_stk_' = [pending_stk_ EXCEPT ![s][id] = NoEntry]
            /\ CancelOnWire(s, id)
            /\ hand' = [hand EXCEPT ![s] = pending_stk_[s][id]]
            /\ rpc' = [rpc EXCEPT ![s] = IF wedged'[s] THEN "stuck" ELSE "deliver"]

\* ... and after it in error(); hand without ticks stands for onError.
Error(s) ==
    LET id == Head(inbox[s]).id IN
    /\ Dispatch(s, {"error"})
    /\ IF ~IsPending(s, id)
       THEN UNCHANGED <<pending_stk_, rpc, hand, wedged, wire>>
       ELSE /\ CancelOnWire(s, id)
            /\ IF wedged'[s]
               THEN /\ rpc' = [rpc EXCEPT ![s] = "stuck"]
                    /\ UNCHANGED <<pending_stk_, hand>>
               ELSE /\ rpc' = [rpc EXCEPT ![s] = "deliver"]
                    /\ hand' = [hand EXCEPT ![s] = [req |-> pending_stk_[s][id].req, ticks |-> {}]]
                    /\ pending_stk_' = [pending_stk_ EXCEPT ![s][id] = NoEntry]

\* The callback that was moved out is called after mutex_ is released.
DeliverHand(s) ==
    LET r == hand[s].req IN
    /\ rpc[s] = "deliver"
    /\ answered' = [answered EXCEPT ![r] = @ + 1]
    /\ snapshot' = [snapshot EXCEPT ![r] = hand[s].ticks]
    /\ hand' = [hand EXCEPT ![s] = NoEntry]
    /\ rpc' = [rpc EXCEPT ![s] = "process"]
    /\ UNCHANGED <<connVars, reader_thread_, reqVars, wedged, ownerVars, sdkVars,
                   asked, cancelled, fault>>

-----------------------------------------------------------------------------
(* The EReader thread and TWS.                                              *)

\* The socket dies: the SDK has closed it and goes to report that.
SocketLost(s) ==
    /\ socket[s]
    /\ socket' = [socket EXCEPT ![s] = FALSE]
    /\ closing' = [closing EXCEPT ![s] = TRUE]
    /\ wire' = [wire EXCEPT ![s] = {}]
    /\ UNCHANGED <<connVars, threadVars, reqVars, wedged, ownerVars, inbox,
                   callerVars, fault>>

\* Mutant: losing the connection leaves the pending requests where they are.
ClosedKeepsPending(s) ==
    /\ closing[s]
    /\ ~wedged[s]
    /\ closing' = [closing EXCEPT ![s] = FALSE]
    /\ connected_' = [connected_ EXCEPT ![s] = FALSE]
    /\ reader_running_' = [reader_running_ EXCEPT ![s] = FALSE]
    /\ UNCHANGED <<connecting_, reader_, threadVars, reqVars, callerVars, wedged,
                   ownerVars, socket, wire, inbox, fault>>

ConnectionClosed(s) ==
    /\ closing[s]
    /\ ~wedged[s]
    /\ closing' = [closing EXCEPT ![s] = FALSE]
    /\ connected_' = [connected_ EXCEPT ![s] = FALSE]
    /\ reader_running_' = [reader_running_ EXCEPT ![s] = FALSE]
    /\ FailAllPending(s)
    /\ UNCHANGED <<connecting_, reader_, threadVars, wedged, ownerVars, socket,
                   wire, inbox, fault>>

TwsSends(s, w, kind) ==
    /\ w \in wire[s]
    /\ Len(inbox[s]) < MaxInbox
    /\ inbox' = [inbox EXCEPT ![s] = Append(@, [kind |-> kind, id |-> w.id, req |-> w.req])]
    /\ UNCHANGED <<connVars, threadVars, reqVars, wedged, ownerVars, socket,
                   closing, callerVars, fault>>

TwsTick(s, w) ==
    /\ \E kind \in {"price", "other"} : TwsSends(s, w, kind)
    /\ UNCHANGED wire

\* The last message of a snapshot.
TwsFinishes(s, w) ==
    /\ \E kind \in {"end", "error"} : TwsSends(s, w, kind)
    /\ wire' = [wire EXCEPT ![s] = @ \ {w}]

-----------------------------------------------------------------------------
OwnerSteps(s) ==
    \/ DisconnectCheck(s) \/ DisconnectStop(s) \/ DisconnectJoin(s)
    \/ DisconnectSocket(s) \/ DisconnectClear(s)
    \/ ConnectBegin(s) \/ ConnectFail(s) \/ ConnectSocket(s) \/ ConnectPublish(s)
    \/ ConnectRunning(s) \/ ConnectThread(s)

ReaderSteps(s) ==
    \/ ReaderCheck(s) \/ ReaderFetch(s) \/ ReaderDrained(s)
    \/ TickPrice(s) \/ TickSnapshotEnd(s) \/ Error(s) \/ DeliverHand(s)

\* The steps a slot takes by itself, whoever calls it.
SlotSteps(s) ==
    \/ OwnerSteps(s)
    \/ ReaderSteps(s)
    \/ SocketLost(s)
    \/ ConnectionClosed(s)
    \/ \E w \in wire[s] : TwsTick(s, w) \/ TwsFinishes(s, w)

Next ==
    /\ fault = "none"
    /\ \E s \in Slots :
          \/ ConnectCall(s) \/ DisconnectCall(s) \/ DestroyCall(s)
          \/ \E r \in Requests : RequestStockSnapshot(s, r)
          \/ \E id \in ReqIds(s) : CancelMktData(s, id)
          \/ SlotSteps(s)

Spec == Init /\ [][Next]_slotVars

\* The scheduler runs every thread that can run, and eConnect returns; TWS finishes every
\* snapshot it accepted on a connection that stays up.
SlotFairness(s) ==
    /\ WF_slotVars(fault = "none" /\ OwnerSteps(s))
    /\ WF_slotVars(fault = "none" /\ ReaderSteps(s))
    /\ WF_slotVars(fault = "none" /\ ConnectionClosed(s))
    /\ \A r \in Requests :
          SF_slotVars(fault = "none" /\ \E id \in AllIds :
                                           TwsFinishes(s, [id |-> id, req |-> r]))

FairSpec == Spec /\ \A s \in Slots : SlotFairness(s)

-----------------------------------------------------------------------------
(* Properties.                                                              *)

OwnerPcs  == DisconnectSteps \cup {"idle", "d_check", "c_begin", "c_socket", "c_publish",
                                   "c_running", "c_thread", "stuck", "gone"}
ReaderPcs == {"loop", "fetch", "process", "deliver", "stuck"}

\* Every variable holds a value of its type.
TypeOK ==
    /\ connected_ \in [Slots -> BOOLEAN]
    /\ connecting_ \in [Slots -> BOOLEAN]
    /\ reader_running_ \in [Slots -> BOOLEAN]
    /\ reader_ \in [Slots -> BOOLEAN]
    /\ reader_thread_ \in [Slots -> {"none", "live", "done"}]
    /\ rpc \in [Slots -> ReaderPcs]
    /\ hand \in [Slots -> Entries]
    /\ next_req_id_ \in [Slots -> AllIds]
    /\ \A s \in Slots : next_req_id_[s] \in ReqIds(s)
    /\ pending_stk_ \in [Slots -> [AllIds -> Entries]]
    /\ wrapped \in [Slots -> BOOLEAN]
    /\ wedged \in [Slots -> BOOLEAN]
    /\ opc \in [Slots -> OwnerPcs]
    /\ purpose \in [Slots -> {"connect", "disconnect", "destroy"}]
    /\ connects \in [Slots -> Nat]
    /\ socket \in [Slots -> BOOLEAN]
    /\ closing \in [Slots -> BOOLEAN]
    /\ wire \in [Slots -> SUBSET Subscriptions]
    /\ inbox \in [Slots -> Seq(Messages)]
    /\ asked \in SUBSET Requests
    /\ answered \in [Requests -> Nat]
    /\ snapshot \in [Requests -> SUBSET Requests]
    /\ cancelled \in SUBSET Requests
    /\ fault \in {"none", "terminate", "freed_reader"}

\* A request is answered at most once, and never after it was cancelled, although
\* tickSnapshotEnd, error, connectionClosed and disconnect all answer, on three
\* threads, and ids are used again after a reconnect.
AnsweredAtMostOnce ==
    \A r \in Requests :
        /\ answered[r] <= 1
        /\ r \in cancelled => answered[r] = 0

\* The slot has not gone through its whole range of ids.
NoWrap == \A s \in Slots : ~wrapped[s]

\* Where a request that nobody answered yet can be.
Held(r) == \E s \in Slots : r \in PendingReqs(s) \cup {hand[s].req}

\* "No omitted Drogon callback": a request that is neither answered nor cancelled
\* is still in pending_stk_ or on its way to its callback.
NothingDropped == \A r \in asked : answered[r] = 0 /\ r \notin cancelled => Held(r)

\* Until the ids wrap that is so: no interleaving of callbacks, disconnects and
\* reconnects drops a caller.
NoRequestLost == NoWrap => NothingDropped

\* Until the ids wrap, an answer holds only prices TWS sent for that request,
\* although each connection starts again at the first id of the range.
OwnSnapshot == NoWrap => \A r \in Requests : snapshot[r] \subseteq {r}

\* A slot that is not connected keeps no request: nothing would ever answer it.
\* Only disconnect(), between its two critical sections, is on the way to it.
NotStranded ==
    \A s \in Slots : ~connected_[s] /\ opc[s] \notin DisconnectSteps \cup {"stuck"}
                        => PendingReqs(s) = {}

Service == INSTANCE SnapshotService

ServiceInit == Service!Init

\* Until the ids wrap, the slot does nothing the service does not allow: whatever
\* its threads do, callers see requests asked, refused, answered, failed together
\* or cancelled, each of them once.
ImplementsService == ServiceInit /\ [][NoWrap' => Service!Next]_(Service!vars)

\* The slot is locked up for good, or the process is gone.
Halted == fault # "none" \/ (\E s \in Slots : wedged[s])

\* Every request is answered in the end, whatever the order of answers, socket
\* losses, disconnects and reconnects, unless the slot is halted or the ids have
\* wrapped.
EveryRequestAnswered ==
    \A r \in Requests :
        r \in asked ~> answered[r] > 0 \/ r \in cancelled \/ Halted \/ ~NoWrap

\* What the sources say and the code does not do: see the findings in the README.

\* "joins reader thread": a reconnect or the destructor never meets a reader
\* thread that disconnect() did not join.
ReaderThreadJoined == fault # "terminate"

\* requestStockSnapshot "returns reqId assigned if successful, 0 if not
\* connected": it returns, and with it everything else that needs mutex_.
MutexReleased == \A s \in Slots : ~wedged[s]

\* "Only valid while connected": a slot that says connected has a socket, or is
\* about to be told that it lost it.
ConnectedIsTrue ==
    \A s \in Slots : connected_[s] => socket[s] \/ closing[s]
=============================================================================
