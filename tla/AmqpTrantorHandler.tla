------------------------- MODULE AmqpTrantorHandler -------------------------
(***************************************************************************)
(* AmqpTrantorHandler: what AMQP-CPP asks to be watched, the trantor       *)
(* channels kept for it in sockets_, and what the poller of the event loop *)
(* has registered.  Every slot has a handler and a connection of its own;  *)
(* they share one loop, and with it the process's file descriptors: the    *)
(* descriptor one connection closes is the one another opens next.         *)
(*                                                                         *)
(* All of it runs on the loop's thread, where runInLoop calls at once.     *)
(* Between two calls the loop either waits in the poller or goes through   *)
(* the callbacks of the channels that are active, which may ask for        *)
(* anything.  AMQP-CPP (external) asks for nothing on a descriptor before  *)
(* it closes it, unless the connection is detached or destroyed, and never *)
(* calls after onDetached.  Closing a descriptor takes it out of the       *)
(* poller.                                                                 *)
(*                                                                         *)
(* An active channel that is destroyed, by its own callback or by another, *)
(* is used once more: the loop goes on, or is lost.                        *)
(***************************************************************************)
EXTENDS Naturals, Functions

CONSTANTS
    Slots,           \* connections, each with its handler
    Fds,             \* file descriptors
    NoSlot,          \* no slot: the descriptor is closed
    MaxConnections   \* bound: connections made in a run

ASSUME NoSlotAssumption == NoSlot \notin Slots
ASSUME ConnectionsAssumption == MaxConnections \in Nat

VARIABLES
    attached,     \* of each slot: it has a connection that is not detached
    owner,        \* of each descriptor: the slot that has it open, or NoSlot
    asked,        \* of each descriptor: the flags AMQP-CPP asked for last
    sockets_,     \* of each slot: the interest of its channels, by descriptor
    poller,       \* descriptor -> the slot of the registered channel and its interest
    active,       \* the descriptors whose callbacks the loop has still to finish
    freed,        \* those of them whose channel was destroyed in the meantime
    loopLost, made

amqpVars == <<attached, owner, asked, made>>
loopVars == <<active, freed, loopLost>>
vars == <<amqpVars, sockets_, poller, loopVars>>

Flags == {"readable", "writable"}
Interests == (SUBSET Flags) \ {{}}
None == [f \in {} |-> {}]

Init ==
    /\ attached = [s \in Slots |-> FALSE]
    /\ owner = [f \in Fds |-> NoSlot]
    /\ asked = [f \in Fds |-> {}]
    /\ sockets_ = [s \in Slots |-> None]
    /\ poller = None
    /\ active = {} /\ freed = {} /\ loopLost = FALSE
    /\ made = 0

Owned(s) == {f \in Fds : owner[f] = s}

-----------------------------------------------------------------------------
(* The handler.                                                             *)

\* The channel of a descriptor, made if need be, reads and writes as the flags say.
Watch(s, f, flags) ==
    /\ sockets_' = [sockets_ EXCEPT ![s] =
           [g \in DOMAIN @ \cup {f} |-> IF g = f THEN flags ELSE @[g]]]
    /\ poller' = [g \in DOMAIN poller \cup {f} |->
           IF g = f THEN [slot |-> s, interest |-> flags] ELSE poller[g]]
    /\ UNCHANGED freed

\* disableAll, remove and erase.
Unwatch(s, F) ==
    /\ sockets_' = [sockets_ EXCEPT ![s] = Restrict(@, DOMAIN @ \ F)]
    /\ poller' = Restrict(poller, DOMAIN poller \ (F \cap DOMAIN sockets_[s]))
    /\ freed' = freed \cup (active \cap F \cap DOMAIN sockets_[s])

\* Mutant: no disableReading and disableWriting.
ApplyMonitorEnables(s, f, flags) ==
    IF flags = {} THEN Unwatch(s, {f})
    ELSE Watch(s, f, flags \cup (IF f \in DOMAIN sockets_[s] THEN sockets_[s][f] ELSE {}))

\* Mutant: a channel that is asked for nothing is not removed.
ApplyMonitorKeeps(s, f, flags) == Watch(s, f, flags)

ApplyMonitor(s, f, flags) == IF flags = {} THEN Unwatch(s, {f}) ELSE Watch(s, f, flags)

\* Mutant: the entry is erased, its channels stay in the poller.
TeardownErases(s) ==
    /\ sockets_' = [sockets_ EXCEPT ![s] = None]
    /\ UNCHANGED <<poller, freed>>

Teardown(s) == Unwatch(s, Fds)

\* monitor, on a descriptor the connection has or has just opened.
Monitor(s, f, flags) ==
    /\ attached[s]
    /\ owner[f] = s \/ (owner[f] = NoSlot /\ flags # {})
    /\ owner' = [owner EXCEPT ![f] = s]
    /\ asked' = [asked EXCEPT ![f] = flags]
    /\ ApplyMonitor(s, f, flags)
    /\ UNCHANGED <<attached, made, active, loopLost>>

\* onDetached.
OnDetached(s) ==
    /\ attached[s]
    /\ attached' = [attached EXCEPT ![s] = FALSE]
    /\ Teardown(s)
    /\ UNCHANGED <<owner, asked, made, active, loopLost>>

-----------------------------------------------------------------------------
(* The connection and the loop.                                             *)

\* AMQP-CPP closes a descriptor, and the kernel forgets it.
Close(f) ==
    /\ owner[f] # NoSlot
    /\ asked[f] = {} \/ ~attached[owner[f]]
    /\ owner' = [owner EXCEPT ![f] = NoSlot]
    /\ asked' = [asked EXCEPT ![f] = {}]
    /\ poller' = Restrict(poller, DOMAIN poller \ {f})
    /\ UNCHANGED <<attached, made, sockets_, loopVars>>

\* A task: the old handler dies with its channels, then the old connection, which closes
\* its descriptors and reports to nobody.
Destroyed(s) ==
    /\ active = {}
    /\ sockets_' = [sockets_ EXCEPT ![s] = None]
    /\ owner' = [f \in Fds |-> IF owner[f] = s THEN NoSlot ELSE owner[f]]
    /\ asked' = [f \in Fds |-> IF owner[f] = s THEN {} ELSE asked[f]]
    /\ poller' = Restrict(poller, DOMAIN poller \ Owned(s))
    /\ UNCHANGED loopVars

\* connectSlot: a new handler and a new connection.
Connect(s) ==
    /\ made < MaxConnections
    /\ made' = made + 1
    /\ attached' = [attached EXCEPT ![s] = TRUE]
    /\ Destroyed(s)

\* stop.
Stop(s) ==
    /\ attached' = [attached EXCEPT ![s] = FALSE]
    /\ UNCHANGED made
    /\ Destroyed(s)

\* The poller reports events: the loop is to call process() for each.
Poll(F) ==
    /\ active = {}
    /\ F # {}
    /\ F \subseteq DOMAIN poller
    /\ active' = F
    /\ UNCHANGED <<amqpVars, sockets_, poller, freed, loopLost>>

\* The callback of one of them is over.
Returns(f) ==
    /\ f \in active
    /\ active' = active \ {f}
    /\ freed' = freed \ {f}
    /\ loopLost' \in {b \in BOOLEAN : b => f \in freed}
    /\ UNCHANGED <<amqpVars, sockets_, poller>>

Next ==
    /\ ~loopLost
    /\ \/ \E s \in Slots :
             \/ \E f \in Fds, flags \in SUBSET Flags : Monitor(s, f, flags)
             \/ OnDetached(s) \/ Connect(s) \/ Stop(s)
       \/ \E f \in Fds : Close(f) \/ Returns(f)
       \/ \E F \in SUBSET Fds : Poll(F)

Spec == Init /\ [][Next]_vars

-----------------------------------------------------------------------------
(* Properties.                                                              *)

PartialMaps(T) == UNION {[F -> T] : F \in SUBSET Fds}

\* Every variable holds a value of its type; a channel that waits for nothing is not kept.
TypeOK ==
    /\ attached \in [Slots -> BOOLEAN]
    /\ owner \in [Fds -> Slots \cup {NoSlot}]
    /\ asked \in [Fds -> SUBSET Flags]
    /\ sockets_ \in [Slots -> PartialMaps(Interests)]
    /\ poller \in PartialMaps([slot : Slots, interest : Interests])
    /\ freed \subseteq active /\ active \subseteq Fds
    /\ loopLost \in BOOLEAN /\ made \in 0..MaxConnections

\* An attached connection is served: the poller waits for exactly what AMQP-CPP asked for
\* last, on each of its descriptors and whoever had the descriptor before.  One flag less
\* and the connection hangs; one more and the loop spins.
Served ==
    \A s \in Slots : attached[s] =>
        \A f \in Owned(s) :
            IF asked[f] = {} THEN f \notin DOMAIN poller
            ELSE /\ f \in DOMAIN poller
                 /\ poller[f] = [slot |-> s, interest |-> asked[f]]

\* What the poller has registered is a channel that exists, of an attached connection
\* that has the descriptor open: the loop calls into nothing that is gone.
RegisteredIsAlive ==
    \A f \in DOMAIN poller :
        /\ f \in DOMAIN sockets_[poller[f].slot]
        /\ attached[poller[f].slot]
        /\ owner[f] = poller[f].slot
=============================================================================
