----------------------------- MODULE ClientPool -----------------------------
(***************************************************************************)
(* ibkr::ClientPool over its ConnectionSlots: the monitor thread that      *)
(* reconnects slots, the HTTP thread that spreads snapshot requests over   *)
(* them, and the main thread that initializes the pool and shuts it down.  *)
(* All three take the pool's mutex_, and the pool is the only owner of its *)
(* slots: it makes every call of connect, disconnect and ~ConnectionSlot.  *)
(*                                                                         *)
(* A slot's mutex_ is taken inside the pool's; the pool's is held while    *)
(* eConnect, join and eDisconnect run.  drogon runs one IO thread          *)
(* (setThreadNum(1)), so there is one HTTP caller at a time.  isAnyConnected, *)
(* status and getPrimarySocket only read under the same locks.             *)
(***************************************************************************)
EXTENDS ConnectionSlot

ASSUME PoolAssumption == IsFiniteSet(Slots) /\ Slots = 0 .. Cardinality(Slots) - 1

VARIABLES
    mutex_,            \* who holds the pool's mutex
    running_,
    slots_,            \* the slots in the vector: {} or Slots
    next_slot_index_,  \* modulo the number of slots
    monitor, mi,       \* monitor_thread_: its place in checkConnections, and i
    http, hreq, hidx,  \* requestStockSnapshot: its place, request and slots tried
    main, di           \* initialize and shutdown: their place, and the slot

poolVars == <<mutex_, running_, slots_, next_slot_index_, monitor, mi, http, hreq,
              hidx, main, di>>
vars == <<slotVars, poolVars>>

NumSlots == Cardinality(Slots)

PoolInit ==
    /\ Init
    /\ mutex_ = "free"
    /\ running_ = FALSE
    /\ slots_ = {}
    /\ next_slot_index_ = 0
    /\ monitor = "none" /\ mi = 0
    /\ http = "idle" /\ hreq = NoReq /\ hidx = 0
    /\ main = "start" /\ di = 0

-----------------------------------------------------------------------------
(* checkConnections                                                         *)

monitorRest == <<running_, slots_, next_slot_index_, http, hreq, hidx, main, di>>

\* The loop's condition is read before the mutex is taken.
MonitorLoop ==
    /\ monitor = "loop"
    /\ monitor' = IF running_ THEN "lock" ELSE "done"
    /\ UNCHANGED <<slotVars, mutex_, mi, monitorRest>>

\* Mutant: the round runs without the pool's mutex.
MonitorLockless ==
    /\ monitor = "lock"
    /\ monitor' = "check"
    /\ mi' = 0
    /\ UNCHANGED <<slotVars, mutex_, monitorRest>>

MonitorLock ==
    /\ monitor = "lock"
    /\ mutex_ = "free"
    /\ mutex_' = "monitor"
    /\ monitor' = "check"
    /\ mi' = 0
    /\ UNCHANGED <<slotVars, monitorRest>>

\* isConnected(), and connect() on a slot that is not (up to the bound).
MonitorCheck ==
    /\ monitor = "check"
    /\ mi \in slots_
    /\ ~wedged[mi]
    /\ IF connected_[mi] \/ connects[mi] = MaxConnects[mi]
       THEN /\ mi' = mi + 1
            /\ UNCHANGED <<slotVars, monitor>>
       ELSE /\ ConnectCall(mi)
            /\ monitor' = "connecting"
            /\ UNCHANGED mi
    /\ UNCHANGED <<mutex_, monitorRest>>

\* connect() returned.
MonitorConnected ==
    /\ monitor = "connecting"
    /\ opc[mi] = "idle"
    /\ mi' = mi + 1
    /\ monitor' = "check"
    /\ UNCHANGED <<slotVars, mutex_, monitorRest>>

\* Mutant: the monitor sleeps inside the block that holds the mutex.
MonitorSleepsLocked ==
    /\ monitor = "check"
    /\ mi \notin slots_
    /\ mutex_' = IF running_ THEN "monitor" ELSE "free"
    /\ monitor' = IF running_ THEN "check" ELSE "done"
    /\ mi' = 0
    /\ UNCHANGED <<slotVars, monitorRest>>

\* Every slot was looked at: unlock and sleep until the next round.
MonitorUnlock ==
    /\ monitor = "check"
    /\ mi \notin slots_
    /\ mutex_' = "free"
    /\ monitor' = "loop"
    /\ UNCHANGED <<slotVars, mi, monitorRest>>

Monitor == MonitorLoop \/ MonitorLock \/ MonitorCheck \/ MonitorConnected \/ MonitorUnlock

-----------------------------------------------------------------------------
(* requestStockSnapshot                                                     *)

httpRest == <<running_, slots_, monitor, mi, main, di>>

HttpCall(r) ==
    /\ http = "idle"
    /\ r \notin asked
    /\ http' = "lock"
    /\ hreq' = r
    /\ UNCHANGED <<slotVars, mutex_, next_slot_index_, hidx, httpRest>>

\* onError without reaching a slot: "Pool not initialized" or "No connected
\* IBKR slots available".
PoolRefuses ==
    /\ asked' = asked \cup {hreq}
    /\ answered' = [answered EXCEPT ![hreq] = @ + 1]
    /\ http' = "idle"
    /\ UNCHANGED <<connVars, threadVars, reqVars, wedged, ownerVars, sdkVars,
                   snapshot, cancelled, fault, hreq, hidx>>

HttpEmpty ==
    /\ http = "lock"
    /\ mutex_ = "free"
    /\ slots_ = {}
    /\ PoolRefuses
    /\ UNCHANGED <<mutex_, next_slot_index_, httpRest>>

HttpLock ==
    /\ http = "lock"
    /\ mutex_ = "free"
    /\ slots_ # {}
    /\ mutex_' = "http"
    /\ http' = "scan"
    /\ hidx' = 0
    /\ next_slot_index_' = (next_slot_index_ + 1) % NumSlots
    /\ UNCHANGED <<slotVars, hreq, httpRest>>

\* Mutant: the sum is not taken modulo slots_.size().
CandidateUnreduced == ((next_slot_index_ + NumSlots - 1) % NumSlots) + hidx

\* The slot at offset hidx from startIdx, the index before the increment.
Candidate == (next_slot_index_ + NumSlots - 1 + hidx) % NumSlots

\* Mutant: the scan gives up after the first slot.
HttpScanNoWrap ==
    /\ http = "scan"
    /\ hidx < NumSlots
    /\ ~wedged[Candidate]
    /\ IF connected_[Candidate]
       THEN http' = "ask" /\ UNCHANGED hidx
       ELSE hidx' = NumSlots /\ UNCHANGED http
    /\ UNCHANGED <<slotVars, mutex_, next_slot_index_, hreq, httpRest>>

\* isConnected() on the next candidate.
HttpScan ==
    /\ http = "scan"
    /\ hidx < NumSlots
    /\ ~wedged[Candidate]
    /\ IF connected_[Candidate]
       THEN http' = "ask" /\ UNCHANGED hidx
       ELSE hidx' = hidx + 1 /\ UNCHANGED http
    /\ UNCHANGED <<slotVars, mutex_, next_slot_index_, hreq, httpRest>>

\* The candidate may have lost its connection since; when the call never
\* returns the pool's mutex stays taken.
HttpAsk ==
    /\ http = "ask"
    /\ RequestStockSnapshot(Candidate, hreq)
    /\ IF wedged'[Candidate]
       THEN http' = "stuck" /\ UNCHANGED mutex_
       ELSE http' = "idle" /\ mutex_' = "free"
    /\ UNCHANGED <<next_slot_index_, hreq, hidx, httpRest>>

HttpNoSlot ==
    /\ http = "scan"
    /\ hidx = NumSlots
    /\ PoolRefuses
    /\ mutex_' = "free"
    /\ UNCHANGED <<next_slot_index_, httpRest>>

Http == HttpEmpty \/ HttpLock \/ HttpScan \/ HttpAsk \/ HttpNoSlot

-----------------------------------------------------------------------------
(* initialize and shutdown                                                  *)

mainRest == <<next_slot_index_, mi, http, hreq, hidx>>

Initialize ==
    /\ main = "start"
    /\ mutex_ = "free"
    /\ ~running_
    /\ running_' = TRUE
    /\ slots_' = Slots
    /\ monitor' = "loop"
    /\ main' = "serving"
    /\ UNCHANGED <<slotVars, mutex_, di, mainRest>>

\* Mutant: running_ is not reset before the monitor is joined.
ShutdownKeepsRunning ==
    /\ main = "serving"
    /\ main' = "join"
    /\ UNCHANGED <<slotVars, mutex_, running_, slots_, monitor, di, mainRest>>

ShutdownBegin ==
    /\ main = "serving"
    /\ running_' = FALSE
    /\ main' = "join"
    /\ UNCHANGED <<slotVars, mutex_, slots_, monitor, di, mainRest>>

ShutdownJoin ==
    /\ main = "join"
    /\ monitor = "done"
    /\ monitor' = "none"
    /\ main' = "lock"
    /\ UNCHANGED <<slotVars, mutex_, running_, slots_, di, mainRest>>

ShutdownLock ==
    /\ main = "lock"
    /\ mutex_ = "free"
    /\ mutex_' = "main"
    /\ main' = IF Slots = {} THEN "clear" ELSE "disconnect"
    /\ di' = 0
    /\ UNCHANGED <<slotVars, running_, slots_, monitor, mainRest>>

\* disconnect() on every slot in turn ...
ShutdownDisconnect ==
    /\ main = "disconnect"
    /\ di < NumSlots
    /\ DisconnectCall(di)
    /\ main' = "disconnecting"
    /\ UNCHANGED <<mutex_, running_, slots_, monitor, di, mainRest>>

ShutdownDisconnected ==
    /\ main = "disconnecting"
    /\ opc[di] = "idle"
    /\ di' = IF di + 1 < NumSlots THEN di + 1 ELSE 0
    /\ main' = IF di + 1 < NumSlots THEN "disconnect" ELSE "clear"
    /\ UNCHANGED <<slotVars, mutex_, running_, slots_, monitor, mainRest>>

\* ... and then slots_.clear(), which destroys them.
ShutdownDestroy ==
    /\ main = "clear"
    /\ di < NumSlots
    /\ DestroyCall(di)
    /\ main' = "clearing"
    /\ UNCHANGED <<mutex_, running_, slots_, monitor, di, mainRest>>

ShutdownDestroyed ==
    /\ main = "clearing"
    /\ opc[di] = "gone"
    /\ di' = di + 1
    /\ main' = "clear"
    /\ UNCHANGED <<slotVars, mutex_, running_, slots_, monitor, mainRest>>

ShutdownUnlock ==
    /\ main = "clear"
    /\ di = NumSlots
    /\ slots_' = {}
    /\ mutex_' = "free"
    /\ main' = "done"
    /\ UNCHANGED <<slotVars, running_, monitor, di, mainRest>>

Main ==
    \/ Initialize
    \/ ShutdownJoin \/ ShutdownLock \/ ShutdownDisconnect \/ ShutdownDisconnected
    \/ ShutdownDestroy \/ ShutdownDestroyed \/ ShutdownUnlock

-----------------------------------------------------------------------------
PoolNext ==
    /\ fault = "none"
    /\ \/ Monitor \/ Http \/ Main \/ ShutdownBegin
       \/ \E r \in Requests : HttpCall(r)
       \/ \E s \in Slots : SlotSteps(s) /\ UNCHANGED poolVars

PoolSpec == PoolInit /\ [][PoolNext]_vars

\* Every thread that can run does, and eConnect, which the mutex is held across, is
\* assumed to return; the monitor sleeps five seconds between rounds without the mutex, so
\* whoever waits for the mutex gets it.  TWS finishes every snapshot, so processMsgs does
\* not read price after price for ever.
PoolFairness ==
    /\ SF_vars(fault = "none" /\ Main)
    /\ SF_vars(fault = "none" /\ Http)
    /\ WF_vars(fault = "none" /\ Monitor)
    /\ \A s \in Slots :
          /\ WF_vars(fault = "none" /\ OwnerSteps(s) /\ UNCHANGED poolVars)
          /\ WF_vars(fault = "none" /\ ReaderSteps(s) /\ UNCHANGED poolVars)
          /\ WF_vars(fault = "none" /\ ConnectionClosed(s) /\ UNCHANGED poolVars)
          /\ \A r \in Requests :
                SF_vars(/\ fault = "none"
                        /\ \E id \in AllIds : TwsFinishes(s, [id |-> id, req |-> r])
                        /\ UNCHANGED poolVars)

-----------------------------------------------------------------------------
(* Properties.                                                              *)

PoolTypes ==
    /\ mutex_ \in {"free", "monitor", "http", "main"}
    /\ running_ \in BOOLEAN
    /\ slots_ \in {{}, Slots}
    /\ next_slot_index_ \in Slots \cup {0}
    /\ monitor \in {"none", "loop", "lock", "check", "connecting", "done"}
    /\ mi \in 0..NumSlots
    /\ http \in {"idle", "lock", "scan", "ask", "stuck"}
    /\ hreq \in Requests \cup {NoReq}
    /\ hidx \in 0..NumSlots
    /\ main \in {"start", "serving", "join", "lock", "disconnect", "disconnecting",
                 "clear", "clearing", "done"}
    /\ di \in 0..NumSlots

\* Every variable of the pool holds a value of its type, and the index that a scan or a call
\* uses on slots_ is one of a slot, wherever the scan began.
PoolTypeOK ==
    /\ PoolTypes
    /\ http = "ask" \/ (http = "scan" /\ hidx < NumSlots) => Candidate \in slots_

\* A slot's connect, disconnect and destructor run under the pool's mutex, so a
\* slot has one owner at a time: the monitor and a shutdown never drive the same
\* slot, whose connect() and disconnect() are not safe against each other.
OneOwner ==
    \A s \in Slots : opc[s] \notin {"idle", "gone"} =>
        \/ mutex_ = "monitor" /\ monitor = "connecting" /\ mi = s
        \/ mutex_ = "main" /\ main \in {"disconnecting", "clearing"} /\ di = s

\* "No connected IBKR slots available" is true when it is said: a slot found
\* disconnected cannot come up behind the scan, although it may go down.
NoFalseRefusal ==
    http = "scan" /\ hidx = NumSlots => \A s \in Slots : ~connected_[s]

\* The callers are not forgotten: when shutdown has returned, every request that
\* reached a slot is answered (or its ids had wrapped) and no thread is left.
ShutdownDrains ==
    main = "done" =>
        /\ \A s \in Slots : reader_thread_[s] = "none" /\ ~socket[s]
        /\ NoWrap => \A r \in asked : answered[r] = 1

\* A shutdown that joins the monitor comes to its end, although the monitor needs
\* the pool's mutex to get there and each slot waits for its own threads, unless a
\* slot is locked up for good or the process is gone.
ShutdownCompletes == main = "join" ~> main = "done" \/ Halted
=============================================================================
