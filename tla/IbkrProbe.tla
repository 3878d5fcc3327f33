------------------------------ MODULE IbkrProbe ------------------------------
(***************************************************************************)
(* ibkr::probeConnection: one attempt after the other, each with a client  *)
(* of its own and a client id one lower than the last, until TWS answers,  *)
(* refuses for another reason than a used id, or the ids run out.          *)
(*                                                                         *)
(* An attempt runs on three sides: the caller's thread (waitForSignal,     *)
(* processMsgs, and a look at the flags under mutex_), the EReader's       *)
(* thread, which calls connectionClosed when the socket is closed, and     *)
(* TWS.  Each callback locks mutex_ once and is one step.  TWS sends error *)
(* 326 and closes when the id is in use; otherwise it sends the time, in   *)
(* its own time, and may send other errors (its notices are errors too).   *)
(*                                                                         *)
(* Abstracted: messages are codes, 0 for none; a time is that it came.     *)
(***************************************************************************)
EXTENDS Integers, Sequences

CONSTANTS
    StartingClientId,  \* starting_client_id
    MinClientId,       \* min_client_id
    MaxNotices         \* bound: other errors TWS sends in an attempt

ASSUME IdsAssumption == StartingClientId \in Int /\ MinClientId \in Int
ASSUME NoticesAssumption == MaxNotices \in Nat

VARIABLES
    inUse,     \* the client ids other sessions have, one below the range included
    client_id,
    place,     \* of the caller's thread
    received_current_time_, fatal_error_, last_error_code_, last_error_message_,
    result,    \* connected, error_code and attempts of the attempt that ended last
    retried,   \* the ids that were given up for a lower one
    socket,    \* "none", "open", "closed" by TWS, and before connectionClosed "closing"
    reader,    \* the EReader exists
    inbox,     \* the EReader's queue
    answered,  \* TWS has answered the attempt for good
    notices

flags == <<received_current_time_, fatal_error_, last_error_code_, last_error_message_>>
tws == <<socket, reader, inbox, answered, notices>>
vars == <<inUse, client_id, place, flags, result, retried, tws>>

Ids == MinClientId .. StartingClientId
AlreadyInUse == 326
NotConnected == 504
Notice == 2104
Codes == {0, AlreadyInUse, NotConnected, Notice}

NoResult == [connected |-> FALSE, error_code |-> 0, attempts |-> 0]

Init ==
    /\ inUse \in SUBSET (Ids \cup {MinClientId - 1})
    /\ client_id = StartingClientId
    /\ place = "next"
    /\ received_current_time_ = FALSE /\ fatal_error_ = FALSE
    /\ last_error_code_ = 0 /\ last_error_message_ = FALSE
    /\ result = NoResult
    /\ retried = {}
    /\ socket = "none" /\ reader = FALSE /\ inbox = <<>>
    /\ answered = FALSE /\ notices = 0

-----------------------------------------------------------------------------
(* The caller's thread.                                                     *)

\* Mutant: one client for all attempts, and reset() leaves the last error.
BeginKeepsError ==
    /\ place = "next"
    /\ client_id >= MinClientId
    /\ received_current_time_' = FALSE /\ fatal_error_' = FALSE
    /\ last_error_message_' = FALSE
    /\ answered' = FALSE /\ notices' = 0
    /\ place' = "connect"
    /\ UNCHANGED <<inUse, client_id, last_error_code_, result, retried, socket, reader, inbox>>

\* Mutant: the loop's bound is off by one.
BeginPastMin ==
    /\ place = "next"
    /\ client_id >= MinClientId - 1
    /\ received_current_time_' = FALSE /\ fatal_error_' = FALSE
    /\ last_error_code_' = 0 /\ last_error_message_' = FALSE
    /\ answered' = FALSE /\ notices' = 0
    /\ place' = "connect"
    /\ UNCHANGED <<inUse, client_id, result, retried, socket, reader, inbox>>

\* A new client; reset().
Begin ==
    /\ place = "next"
    /\ client_id >= MinClientId
    /\ received_current_time_' = FALSE /\ fatal_error_' = FALSE
    /\ last_error_code_' = 0 /\ last_error_message_' = FALSE
    /\ answered' = FALSE /\ notices' = 0
    /\ place' = "connect"
    /\ UNCHANGED <<inUse, client_id, result, retried, socket, reader, inbox>>

\* probeConnection's loop is over.
RunOut ==
    /\ place = "next"
    /\ client_id < MinClientId
    /\ place' = "done"
    /\ UNCHANGED <<inUse, client_id, flags, result, retried, tws>>

Connect ==
    /\ place = "connect"
    /\ socket' = "open"
    /\ reader' = TRUE
    /\ place' = "request"
    /\ UNCHANGED <<inUse, client_id, flags, result, retried, inbox, answered, notices>>

Cleanup == socket' = "none" /\ reader' = FALSE /\ inbox' = <<>>

\* Mutant: the attempt that ends is not counted.
ReturnsUncounted(connected, code) ==
    /\ result' = [connected  |-> connected,
                  error_code |-> code,
                  attempts   |-> StartingClientId - client_id]
    /\ Cleanup
    /\ IF ~connected /\ code = AlreadyInUse
       THEN /\ client_id' = client_id - 1
            /\ retried' = retried \cup {client_id}
            /\ place' = "next"
       ELSE place' = "done" /\ UNCHANGED <<client_id, retried>>
    /\ UNCHANGED <<inUse, flags, answered, notices>>

\* run() returns, and the loop of probeConnection looks at the result.
Returns(connected, code) ==
    /\ result' = [connected  |-> connected,
                  error_code |-> code,
                  attempts   |-> StartingClientId - client_id + 1]
    /\ Cleanup
    /\ IF ~connected /\ code = AlreadyInUse
       THEN /\ client_id' = client_id - 1
            /\ retried' = retried \cup {client_id}
            /\ place' = "next"
       ELSE place' = "done" /\ UNCHANGED <<client_id, retried>>
    /\ UNCHANGED <<inUse, flags, answered, notices>>

\* eConnect fails, or the connection is gone when it returns.
ConnectFails == place = "connect" /\ Returns(FALSE, 0)

\* reqCurrentTime, which reports through error() when the socket is closed already.
ReqCurrentTime ==
    /\ place = "request"
    /\ place' = "wait"
    /\ IF socket = "closed"
       THEN last_error_code_' = NotConnected /\ last_error_message_' = TRUE
       ELSE UNCHANGED <<last_error_code_, last_error_message_>>
    /\ UNCHANGED <<inUse, client_id, received_current_time_, fatal_error_, result,
                   retried, tws>>

\* waitForSignal returns for a message or after 200 ms; processMsgs drains the queue.
Wait ==
    /\ place = "wait"
    /\ place' = "process"
    /\ UNCHANGED <<inUse, client_id, flags, result, retried, tws>>

\* error() and currentTime().
Process ==
    /\ place = "process"
    /\ inbox # <<>>
    /\ inbox' = Tail(inbox)
    /\ IF Head(inbox) = "time"
       THEN /\ received_current_time_' = TRUE
            /\ UNCHANGED <<fatal_error_, last_error_code_, last_error_message_>>
       ELSE /\ last_error_code_' = IF Head(inbox) = "used" THEN AlreadyInUse ELSE Notice
            /\ last_error_message_' = TRUE
            /\ fatal_error_' = (fatal_error_ \/ Head(inbox) = "used")
            /\ UNCHANGED received_current_time_
    /\ UNCHANGED <<inUse, client_id, place, result, retried, socket, reader, answered,
                   notices>>

Processed ==
    /\ place = "process"
    /\ inbox = <<>>
    /\ place' = "look"
    /\ UNCHANGED <<inUse, client_id, flags, result, retried, tws>>

\* The look at the flags: done, or on to the next round before the deadline.
Look ==
    /\ place = "look"
    /\ ~received_current_time_ /\ ~fatal_error_
    /\ place' = "wait"
    /\ UNCHANGED <<inUse, client_id, flags, result, retried, tws>>

Completes ==
    /\ place = "look"
    /\ received_current_time_ \/ fatal_error_
    /\ Returns(received_current_time_, last_error_code_)

\* Mutant: the return after the time-out does not clean up.
TimesOutDirty ==
    /\ place = "wait"
    /\ result' = [connected  |-> FALSE, error_code |-> last_error_code_,
                  attempts   |-> StartingClientId - client_id + 1]
    /\ place' = "done"
    /\ UNCHANGED <<inUse, client_id, flags, retried, tws>>

\* Mutant: the deadline is looked at only after an error.
TimesOutOnError ==
    /\ place = "wait"
    /\ last_error_message_
    /\ Returns(FALSE, last_error_code_)

\* The deadline has passed.
TimesOut == place = "wait" /\ Returns(FALSE, last_error_code_)

Caller ==
    \/ Begin \/ RunOut \/ Connect \/ ConnectFails \/ ReqCurrentTime
    \/ Wait \/ Process \/ Processed \/ Look \/ Completes

-----------------------------------------------------------------------------
(* TWS, the socket and the EReader's thread.                                *)

Sends(m) ==
    /\ socket = "open"
    /\ inbox' = Append(inbox, m)
    /\ UNCHANGED <<inUse, client_id, place, flags, result, retried, reader>>

\* The id is in use: error 326, and the connection is closed.
TwsRefuses ==
    /\ client_id \in inUse /\ ~answered
    /\ socket = "open"
    /\ inbox' = Append(inbox, "used")
    /\ socket' = "closing"
    /\ answered' = TRUE
    /\ UNCHANGED <<inUse, client_id, place, flags, result, retried, reader, notices>>

TwsAnswers ==
    /\ client_id \notin inUse /\ ~answered
    /\ place # "request"
    /\ Sends("time")
    /\ answered' = TRUE
    /\ UNCHANGED <<socket, notices>>

TwsNotifies ==
    /\ notices < MaxNotices
    /\ Sends("notice")
    /\ notices' = notices + 1
    /\ UNCHANGED <<socket, answered>>

SocketLost ==
    /\ socket = "open"
    /\ socket' = "closing"
    /\ UNCHANGED <<inUse, client_id, place, flags, result, retried, reader, inbox,
                   answered, notices>>

\* connectionClosed, on the EReader's thread.
ConnectionClosed ==
    /\ socket = "closing"
    /\ socket' = "closed"
    /\ IF received_current_time_
       THEN UNCHANGED <<fatal_error_, last_error_message_>>
       ELSE fatal_error_' = TRUE /\ last_error_message_' = TRUE
    /\ UNCHANGED <<inUse, client_id, place, received_current_time_, last_error_code_,
                   result, retried, reader, inbox, answered, notices>>

Environment == TwsRefuses \/ TwsAnswers \/ TwsNotifies \/ SocketLost \/ ConnectionClosed

Next == Caller \/ TimesOut \/ Environment

Spec == Init /\ [][Next]_vars

\* The caller's thread runs, eConnect returns, and the deadline passes, which is set after
\* eConnect and does not limit it.
FairSpec == Spec /\ WF_vars(Caller) /\ SF_vars(TimesOut)

-----------------------------------------------------------------------------
(* Properties.                                                              *)

\* Every variable holds a value of its type.
TypeOK ==
    /\ inUse \in SUBSET (Ids \cup {MinClientId - 1})
    /\ client_id \in {StartingClientId} \cup (MinClientId - 1 .. StartingClientId)
    /\ place \in {"next", "connect", "request", "wait", "process", "look", "done"}
    /\ received_current_time_ \in BOOLEAN /\ fatal_error_ \in BOOLEAN
    /\ last_error_message_ \in BOOLEAN /\ reader \in BOOLEAN /\ answered \in BOOLEAN
    /\ last_error_code_ \in Codes
    /\ result \in [connected : BOOLEAN, error_code : Codes, attempts : Nat]
    /\ retried \in SUBSET Ids
    /\ socket \in {"none", "open", "closing", "closed"}
    /\ inbox \in Seq({"used", "time", "notice"})
    /\ notices \in 0..MaxNotices

\* An id is given up only for a collision: what an attempt before it, a notice or a lost
\* socket said never moves the probe to the next id.
OnlyUsedIdsSkipped == retried \subseteq inUse

\* Whichever way run() returns, nothing of the attempt is left: no socket on which TWS
\* keeps the client id taken, no EReader thread, no message for the next attempt.
NothingLeftBehind ==
    place \in {"next", "done"} => socket = "none" /\ ~reader /\ inbox = <<>>

\* A probe that reports a connection has met a TWS that answered the id it reports, after
\* exactly the attempts it counts.
ReportIsTrue ==
    place = "done" /\ result.connected =>
        /\ client_id \notin inUse
        /\ answered
        /\ retried = client_id + 1 .. StartingClientId
        /\ result.attempts = StartingClientId - client_id + 1

\* The probe returns, whatever TWS says or does not say.
Returned == <>(place = "done")
=============================================================================
