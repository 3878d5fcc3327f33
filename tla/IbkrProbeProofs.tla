-------------------------- MODULE IbkrProbeProofs --------------------------
(***************************************************************************)
(* Theorems about IbkrProbe, for any range of client ids, any ids in use   *)
(* and any number of notices.                                              *)
(*                                                                         *)
(* What the attempt's flags say is about the attempt's id, because what    *)
(* the inbox holds is about it; and the inbox is about it because nothing  *)
(* of an attempt is left when the next one begins.                         *)
(***************************************************************************)
EXTENDS IbkrProbe, TLAPS

Attempting == place \in {"connect", "request", "wait", "process", "look"}

\* An attempt has an id of the range, and its flags are about that id.
OwnFlags ==
    Attempting =>
        /\ client_id >= MinClientId
        /\ last_error_code_ = AlreadyInUse => client_id \in inUse
        /\ received_current_time_ => client_id \notin inUse /\ answered

\* So are the messages that wait for it.
OwnInbox ==
    \A i \in 1..Len(inbox) :
        /\ inbox[i] = "used" => client_id \in inUse
        /\ inbox[i] = "time" => client_id \notin inUse /\ answered

\* Before it connects, an attempt has nothing of an earlier one.
Clean == place \in {"next", "connect", "done"} => socket = "none" /\ ~reader /\ inbox = <<>>

\* The ids above the present one are those that were given up, and they are in use.
GivenUp == retried = client_id + 1 .. StartingClientId /\ retried \subseteq inUse

Reported ==
    /\ place = "next" => ~result.connected
    /\ place = "done" /\ result.connected =>
           /\ client_id \notin inUse
           /\ answered
           /\ result.attempts = StartingClientId - client_id + 1

IInv == TypeOK /\ OwnFlags /\ OwnInbox /\ Clean /\ GivenUp /\ Reported

LEMMA InitIInv == Init => IInv
<1> SUFFICES ASSUME Init PROVE IInv
    OBVIOUS
<1>1. TypeOK
  <2>1. /\ received_current_time_ \in BOOLEAN /\ fatal_error_ \in BOOLEAN
        /\ last_error_message_ \in BOOLEAN /\ reader \in BOOLEAN /\ answered \in BOOLEAN
      BY Zenon DEF Init
  <2>2. result \in [connected : BOOLEAN, error_code : Codes, attempts : Nat]
      BY DEF Init, NoResult, Codes
  <2>3. /\ inUse \in SUBSET (Ids \cup {MinClientId - 1})
        /\ client_id \in {StartingClientId} \cup (MinClientId - 1 .. StartingClientId)
        /\ place \in {"next", "connect", "request", "wait", "process", "look", "done"}
        /\ last_error_code_ \in Codes
        /\ retried \in SUBSET Ids
        /\ socket \in {"none", "open", "closing", "closed"}
        /\ inbox \in Seq({"used", "time", "notice"})
        /\ notices \in 0..MaxNotices
      BY NoticesAssumption DEF Init, Codes
  <2> QED
      BY <2>1, <2>2, <2>3 DEF TypeOK
<1>2. OwnFlags /\ OwnInbox /\ Clean /\ Reported
    BY DEF Init, OwnFlags, Attempting, OwnInbox, Clean, Reported, NoResult
<1>3. GivenUp
    BY IdsAssumption DEF Init, GivenUp
<1> QED
    BY <1>1, <1>2, <1>3 DEF IInv

\* However an attempt ends, if what it returns is true of its id.
LEMMA ReturnsStep ==
    ASSUME IInv, Attempting, NEW connected \in BOOLEAN, NEW code \in Codes,
           code = AlreadyInUse => client_id \in inUse,
           connected => client_id \notin inUse /\ answered,
           Returns(connected, code)
    PROVE  IInv'
<1> USE IdsAssumption
<1>1. /\ client_id \in Ids
      /\ client_id \in Int
    BY DEF IInv, TypeOK, OwnFlags, Ids
<1>2. /\ result'.connected = connected
      /\ result'.attempts = StartingClientId - client_id + 1
      /\ result' \in [connected : BOOLEAN, error_code : Codes, attempts : Nat]
    BY <1>1 DEF Returns, Ids
<1>3. /\ socket' = "none" /\ ~reader' /\ inbox' = <<>>
      /\ reader' \in BOOLEAN
      /\ UNCHANGED <<inUse, flags, answered, notices>>
    BY DEF Returns, Cleanup
<1>4. CASE ~connected /\ code = AlreadyInUse
  <2>1. /\ client_id' = client_id - 1
        /\ retried' = retried \cup {client_id}
        /\ place' = "next"
      BY <1>4 DEF Returns
  <2>2. TypeOK'
      BY <1>1, <1>2, <1>3, <2>1 DEF IInv, TypeOK, Ids, flags
  <2>3. GivenUp'
      BY <1>1, <1>3, <1>4, <2>1 DEF IInv, GivenUp, Ids
  <2>4. OwnFlags' /\ OwnInbox' /\ Clean' /\ Reported'
      BY <1>2, <1>3, <1>4, <2>1 DEF OwnFlags, Attempting, OwnInbox, Clean, Reported
  <2> QED
      BY <2>2, <2>3, <2>4 DEF IInv
<1>5. CASE ~(~connected /\ code = AlreadyInUse)
  <2>1. place' = "done" /\ UNCHANGED <<client_id, retried>>
      BY <1>5 DEF Returns
  <2>2. TypeOK'
      BY <1>1, <1>2, <1>3, <2>1 DEF IInv, TypeOK, flags
  <2>3. GivenUp'
      BY <1>3, <2>1 DEF IInv, GivenUp
  <2>4. OwnFlags' /\ OwnInbox' /\ Clean'
      BY <1>3, <2>1 DEF OwnFlags, Attempting, OwnInbox, Clean
  <2>5. Reported'
      BY <1>2, <1>3, <2>1 DEF Reported
  <2> QED
      BY <2>2, <2>3, <2>4, <2>5 DEF IInv
<1> QED
    BY <1>4, <1>5

\* The steps of the caller's thread that neither end an attempt nor take a message.
LEMMA CallerStep ==
    ASSUME IInv, Begin \/ RunOut \/ Connect \/ ReqCurrentTime \/ Wait \/ Processed \/ Look
    PROVE  IInv'
<1> USE IdsAssumption, NoticesAssumption
<1>1. CASE Begin
  <2>0. /\ received_current_time_' \in BOOLEAN /\ fatal_error_' \in BOOLEAN
        /\ last_error_message_' \in BOOLEAN /\ answered' \in BOOLEAN
      BY <1>1, Zenon DEF Begin
  <2>1. TypeOK'
      BY <1>1, <2>0 DEF Begin, IInv, TypeOK, Codes
  <2>2. OwnFlags' /\ OwnInbox'
      BY <1>1 DEF Begin, IInv, Clean, OwnFlags, OwnInbox, AlreadyInUse
  <2>3. Clean' /\ GivenUp' /\ Reported'
      BY <1>1 DEF Begin, IInv, Clean, GivenUp, Reported
  <2> QED
      BY <2>1, <2>2, <2>3 DEF IInv
<1>2. CASE RunOut
  <2>1. TypeOK'
      BY <1>2 DEF RunOut, IInv, TypeOK, flags, tws
  <2>2. OwnFlags' /\ OwnInbox' /\ Clean' /\ GivenUp' /\ Reported'
      BY <1>2 DEF RunOut, IInv, OwnFlags, Attempting, OwnInbox, Clean, GivenUp, Reported,
                  flags, tws
  <2> QED
      BY <2>1, <2>2 DEF IInv
<1>3. CASE Connect
  <2>1. TypeOK'
      BY <1>3 DEF Connect, IInv, TypeOK, flags
  <2>2. OwnFlags' /\ OwnInbox' /\ Clean' /\ GivenUp' /\ Reported'
      BY <1>3 DEF Connect, IInv, OwnFlags, Attempting, OwnInbox, Clean, GivenUp, Reported,
                  flags
  <2> QED
      BY <2>1, <2>2 DEF IInv
<1>4. CASE ReqCurrentTime
  <2>1. /\ last_error_code_' \in {last_error_code_, NotConnected}
        /\ last_error_message_' \in BOOLEAN
      BY <1>4 DEF ReqCurrentTime, IInv, TypeOK
  <2>2. TypeOK'
      BY <1>4, <2>1 DEF ReqCurrentTime, IInv, TypeOK, Codes, tws
  <2>3. OwnFlags'
      BY <1>4, <2>1 DEF ReqCurrentTime, IInv, OwnFlags, Attempting, AlreadyInUse,
                        NotConnected, tws
  <2>4. OwnInbox' /\ Clean' /\ GivenUp' /\ Reported'
      BY <1>4 DEF ReqCurrentTime, IInv, OwnInbox, Clean, GivenUp, Reported, tws
  <2> QED
      BY <2>2, <2>3, <2>4 DEF IInv
<1>5. CASE Wait \/ Processed \/ Look
  <2>1. /\ Attempting /\ place' \in {"process", "look", "wait"}
        /\ UNCHANGED <<inUse, client_id, flags, result, retried, tws>>
      BY <1>5 DEF Wait, Processed, Look, Attempting
  <2>2. TypeOK'
      BY <2>1 DEF IInv, TypeOK, flags, tws
  <2>3. OwnFlags' /\ OwnInbox' /\ Clean' /\ GivenUp' /\ Reported'
      BY <2>1 DEF IInv, OwnFlags, Attempting, OwnInbox, Clean, GivenUp, Reported, flags, tws
  <2> QED
      BY <2>2, <2>3 DEF IInv
<1> QED
    BY <1>1, <1>2, <1>3, <1>4, <1>5

\* A message is about the attempt's own id, and so are the flags it sets.
LEMMA ProcessStep == IInv /\ Process => IInv'
<1> SUFFICES ASSUME IInv, Process PROVE IInv'
    OBVIOUS
<1>1. /\ inbox # <<>> /\ inbox' = Tail(inbox) /\ inbox \in Seq({"used", "time", "notice"})
      /\ place = "process" /\ place' = "process"
      /\ UNCHANGED <<inUse, client_id, result, retried, socket, reader, answered, notices>>
    BY DEF Process, IInv, TypeOK
<1>2. /\ Head(inbox) = inbox[1]
      /\ Len(inbox') = Len(inbox) - 1 /\ Len(inbox) \in Nat \ {0}
      /\ \A i \in 1..Len(inbox') : inbox'[i] = inbox[i + 1] /\ i + 1 \in 1..Len(inbox)
      /\ inbox' \in Seq({"used", "time", "notice"})
    BY <1>1
<1>3. /\ Head(inbox) = "used" => client_id \in inUse
      /\ Head(inbox) = "time" => client_id \notin inUse /\ answered
    BY <1>2 DEF IInv, OwnInbox
<1>4. OwnInbox'
    BY <1>1, <1>2 DEF IInv, OwnInbox
<1>5. CASE Head(inbox) = "time"
  <2>1. /\ received_current_time_' = TRUE
        /\ UNCHANGED <<fatal_error_, last_error_code_, last_error_message_>>
      BY <1>5 DEF Process
  <2>2. TypeOK'
      BY <1>1, <1>2, <2>1 DEF IInv, TypeOK
  <2>3. OwnFlags'
      BY <1>1, <1>3, <1>5, <2>1 DEF IInv, OwnFlags, Attempting
  <2> QED
      BY <2>2, <2>3, <1>1, <1>4 DEF IInv, Clean, GivenUp, Reported
<1>6. CASE Head(inbox) # "time"
  <2>1. /\ last_error_code_' = IF Head(inbox) = "used" THEN AlreadyInUse ELSE Notice
        /\ last_error_message_' = TRUE
        /\ received_current_time_' = received_current_time_
      BY <1>6 DEF Process
  <2>2. fatal_error_' \in BOOLEAN
      BY <1>6, Zenon DEF Process
  <2>3. TypeOK'
      BY <1>1, <1>2, <2>1, <2>2 DEF IInv, TypeOK, Codes
  <2>4. OwnFlags'
      BY <1>1, <1>3, <2>1 DEF IInv, OwnFlags, Attempting, AlreadyInUse, Notice
  <2> QED
      BY <2>3, <2>4, <1>1, <1>4 DEF IInv, Clean, GivenUp, Reported
<1> QED
    BY <1>5, <1>6

\* What TWS appends is true of the attempt's id.
LEMMA SendsStep ==
    ASSUME IInv, NEW m \in {"used", "time", "notice"}, socket = "open",
           inbox' = Append(inbox, m),
           m = "used" => client_id \in inUse,
           m = "time" => client_id \notin inUse /\ answered',
           answered => answered', answered' \in BOOLEAN, notices' \in 0..MaxNotices,
           socket' \in {"open", "closing"},
           UNCHANGED <<inUse, client_id, place, flags, result, retried, reader>>
    PROVE  IInv'
<1>1. /\ inbox \in Seq({"used", "time", "notice"})
      /\ Len(inbox') = Len(inbox) + 1 /\ Len(inbox) \in Nat
      /\ inbox'[Len(inbox) + 1] = m
      /\ \A i \in 1..Len(inbox) : inbox'[i] = inbox[i]
      /\ inbox' \in Seq({"used", "time", "notice"})
    BY DEF IInv, TypeOK
<1>2. OwnInbox'
    BY <1>1 DEF IInv, OwnInbox
<1>3. TypeOK'
    BY <1>1 DEF IInv, TypeOK, flags
<1>4. OwnFlags' /\ Clean' /\ GivenUp' /\ Reported'
    BY DEF IInv, OwnFlags, Attempting, Clean, GivenUp, Reported, flags
<1> QED
    BY <1>2, <1>3, <1>4 DEF IInv

LEMMA EnvironmentStep == IInv /\ Environment => IInv'
<1> SUFFICES ASSUME IInv, Environment PROVE IInv'
    OBVIOUS
<1> USE NoticesAssumption
<1>1. CASE TwsRefuses
    BY <1>1, SendsStep DEF TwsRefuses, IInv, TypeOK
<1>2. CASE TwsAnswers
    BY <1>2, SendsStep DEF TwsAnswers, Sends, IInv, TypeOK
<1>3. CASE TwsNotifies
    BY <1>3, SendsStep DEF TwsNotifies, Sends, IInv, TypeOK
<1>4. CASE SocketLost
  <2>1. TypeOK'
      BY <1>4 DEF SocketLost, IInv, TypeOK, flags
  <2>2. OwnFlags' /\ OwnInbox' /\ Clean' /\ GivenUp' /\ Reported'
      BY <1>4 DEF SocketLost, IInv, OwnFlags, Attempting, OwnInbox, Clean, GivenUp,
                  Reported, flags
  <2> QED
      BY <2>1, <2>2 DEF IInv
<1>5. CASE ConnectionClosed
  <2>1. fatal_error_' \in BOOLEAN /\ last_error_message_' \in BOOLEAN
      BY <1>5 DEF ConnectionClosed, IInv, TypeOK
  <2>2. TypeOK'
      BY <1>5, <2>1 DEF ConnectionClosed, IInv, TypeOK
  <2>3. OwnFlags' /\ OwnInbox' /\ Clean' /\ GivenUp' /\ Reported'
      BY <1>5 DEF ConnectionClosed, IInv, OwnFlags, Attempting, OwnInbox, Clean, GivenUp,
                  Reported
  <2> QED
      BY <2>2, <2>3 DEF IInv
<1> QED
    BY <1>1, <1>2, <1>3, <1>4, <1>5 DEF Environment

LEMMA NextIInv == IInv /\ [Next]_vars => IInv'
<1> SUFFICES ASSUME IInv, [Next]_vars PROVE IInv'
    OBVIOUS
<1>1. CASE Begin \/ RunOut \/ Connect \/ ReqCurrentTime \/ Wait \/ Processed \/ Look
    BY <1>1, CallerStep
<1>2. CASE Process
    BY <1>2, ProcessStep
<1>3. CASE ConnectFails
  <2>1. Attempting /\ Returns(FALSE, 0)
      BY <1>3 DEF ConnectFails, Attempting
  <2>2. 0 \in Codes /\ 0 # AlreadyInUse /\ FALSE \in BOOLEAN
      BY DEF Codes, AlreadyInUse
  <2> QED
      BY <2>1, <2>2, ReturnsStep
<1>4. CASE Completes
  <2>1. /\ Attempting
        /\ received_current_time_ \in BOOLEAN /\ last_error_code_ \in Codes
        /\ last_error_code_ = AlreadyInUse => client_id \in inUse
        /\ received_current_time_ => client_id \notin inUse /\ answered
      BY <1>4 DEF Completes, Attempting, IInv, TypeOK, OwnFlags
  <2>2. Returns(received_current_time_, last_error_code_)
      BY <1>4 DEF Completes
  <2> QED
      BY <2>1, <2>2, ReturnsStep
<1>5. CASE TimesOut
  <2>1. /\ Attempting /\ last_error_code_ \in Codes
        /\ last_error_code_ = AlreadyInUse => client_id \in inUse
      BY <1>5 DEF TimesOut, Attempting, IInv, TypeOK, OwnFlags
  <2>2. Returns(FALSE, last_error_code_)
      BY <1>5 DEF TimesOut
  <2> QED
      BY <2>1, <2>2, ReturnsStep
<1>6. CASE Environment
    BY <1>6, EnvironmentStep
<1>7. CASE UNCHANGED vars
  <2>1. TypeOK'
      BY <1>7 DEF vars, flags, tws, IInv, TypeOK
  <2>2. OwnFlags' /\ OwnInbox' /\ Clean' /\ GivenUp' /\ Reported'
      BY <1>7 DEF vars, flags, tws, IInv, OwnFlags, Attempting, OwnInbox, Clean, GivenUp,
                  Reported
  <2> QED
      BY <2>1, <2>2 DEF IInv
<1> QED
    BY <1>1, <1>2, <1>3, <1>4, <1>5, <1>6, <1>7 DEF Next, Caller

\* IInv is an invariant of the probe, its TWS and its reader thread together.
THEOREM Invariance == Spec => []IInv
BY InitIInv, NextIInv, PTL DEF Spec

\* The probe's variables keep their types.
THEOREM TypeCorrect == Spec => []TypeOK
BY Invariance, PTL DEF IInv

\* Whatever notices, lost sockets and time-outs come in between, the probe moves on to a
\* lower client id only when the id it had is in use.
THEOREM SkipsOnlyUsedIds == Spec => []OnlyUsedIdsSkipped
<1>1. IInv => OnlyUsedIdsSkipped
    BY DEF IInv, GivenUp, OnlyUsedIdsSkipped
<1> QED
    BY <1>1, Invariance, PTL

\* Whichever way an attempt ends, the next one starts from nothing.
THEOREM LeavesNothingBehind == Spec => []NothingLeftBehind
<1>1. IInv => NothingLeftBehind
    BY DEF IInv, Clean, NothingLeftBehind
<1> QED
    BY <1>1, Invariance, PTL

\* A connection is reported for the id TWS accepted, with the attempts it took.
THEOREM ReportsTheTruth == Spec => []ReportIsTrue
<1>1. IInv => ReportIsTrue
    BY DEF IInv, GivenUp, Reported, ReportIsTrue
<1> QED
    BY <1>1, Invariance, PTL
=============================================================================
