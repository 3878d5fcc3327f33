---------------------- MODULE AmqpTrantorHandlerProofs ----------------------
(***************************************************************************)
(* Theorems about AmqpTrantorHandler, for any slots, descriptors and       *)
(* number of connections.                                                  *)
(*                                                                         *)
(* RegisteredIsAlive leads from the poller to the handlers.  The induction *)
(* needs the way back as well: a channel a handler keeps is registered,    *)
(* under the same slot.                                                    *)
(***************************************************************************)
EXTENDS AmqpTrantorHandler, TLAPS

KeptIsRegistered ==
    \A s \in Slots : \A f \in DOMAIN sockets_[s] :
        f \in DOMAIN poller /\ poller[f].slot = s

IInv == TypeOK /\ KeptIsRegistered /\ RegisteredIsAlive /\ Served

\* What a member of PartialMaps is.
LEMMA PartialMap ==
    ASSUME NEW T, NEW m
    PROVE  m \in PartialMaps(T) <=> DOMAIN m \in SUBSET Fds /\ m \in [DOMAIN m -> T]
BY DEF PartialMaps

LEMMA InitIInv == Init => IInv
<1> SUFFICES ASSUME Init PROVE IInv
    OBVIOUS
<1>1. None \in PartialMaps(Interests) /\ DOMAIN None = {}
    BY PartialMap DEF None
<1>2. None \in PartialMaps([slot : Slots, interest : Interests])
    BY PartialMap DEF None
<1>3. TypeOK
  <2>1. /\ attached \in [Slots -> BOOLEAN]
        /\ owner \in [Fds -> Slots \cup {NoSlot}]
        /\ asked \in [Fds -> SUBSET Flags]
      BY DEF Init
  <2>2. /\ sockets_ \in [Slots -> PartialMaps(Interests)]
        /\ poller \in PartialMaps([slot : Slots, interest : Interests])
      BY <1>1, <1>2 DEF Init
  <2>3. /\ freed \subseteq active /\ active \subseteq Fds
        /\ made \in 0..MaxConnections
      BY ConnectionsAssumption DEF Init
  <2>4. loopLost \in BOOLEAN
      BY Zenon DEF Init
  <2> QED
      BY <2>1, <2>2, <2>3, <2>4 DEF TypeOK
<1>4. KeptIsRegistered /\ RegisteredIsAlive /\ Served
    BY <1>1 DEF Init, KeptIsRegistered, RegisteredIsAlive, Served
<1> QED
    BY <1>3, <1>4 DEF IInv

\* Watching a descriptor that is the slot's, or nobody's until now.
LEMMA WatchStep ==
    ASSUME IInv, NEW s \in Slots, NEW f \in Fds, NEW flags \in Interests,
           attached[s], owner[f] \in {s, NoSlot},
           owner' = [owner EXCEPT ![f] = s],
           asked' = [asked EXCEPT ![f] = flags],
           Watch(s, f, flags),
           UNCHANGED <<attached, made, active, loopLost>>
    PROVE  IInv'
<1> USE NoSlotAssumption
<1>1. /\ sockets_ \in [Slots -> PartialMaps(Interests)]
      /\ \A t \in Slots : /\ DOMAIN sockets_[t] \in SUBSET Fds
                          /\ sockets_[t] \in [DOMAIN sockets_[t] -> Interests]
      /\ DOMAIN poller \in SUBSET Fds
      /\ poller \in [DOMAIN poller -> [slot : Slots, interest : Interests]]
    BY PartialMap DEF IInv, TypeOK
<1>2. /\ DOMAIN sockets_'[s] = DOMAIN sockets_[s] \cup {f}
      /\ \A g \in DOMAIN sockets_'[s] : sockets_'[s][g] \in Interests
      /\ \A t \in Slots \ {s} : sockets_'[t] = sockets_[t]
    BY <1>1 DEF Watch
<1>3. sockets_'[s] \in PartialMaps(Interests)
  <2>1. sockets_'[s] = [g \in DOMAIN sockets_[s] \cup {f} |->
                           IF g = f THEN flags ELSE sockets_[s][g]]
      BY <1>1 DEF Watch
  <2> QED
      BY <2>1, <1>1, PartialMap
<1>4. /\ poller' = [g \in DOMAIN poller \cup {f} |->
                      IF g = f THEN [slot |-> s, interest |-> flags] ELSE poller[g]]
      /\ DOMAIN poller' = DOMAIN poller \cup {f}
      /\ poller'[f] = [slot |-> s, interest |-> flags]
      /\ \A g \in DOMAIN poller \ {f} : poller'[g] = poller[g]
    BY DEF Watch
<1>5. TypeOK'
  <2>1. sockets_' \in [Slots -> PartialMaps(Interests)]
      BY <1>1, <1>3 DEF Watch
  <2>2. poller' \in PartialMaps([slot : Slots, interest : Interests])
    <3>1. \A g \in DOMAIN poller' : poller'[g] \in [slot : Slots, interest : Interests]
        BY <1>1, <1>4
    <3>2. DOMAIN poller' \in SUBSET Fds
        BY <1>1, <1>4
    <3>3. poller' \in [DOMAIN poller' -> [slot : Slots, interest : Interests]]
        BY <1>4, <3>1
    <3> QED
        BY <3>2, <3>3, PartialMap
  <2>3. owner' \in [Fds -> Slots \cup {NoSlot}] /\ asked' \in [Fds -> SUBSET Flags]
      BY DEF IInv, TypeOK, Interests
  <2> QED
      BY <2>1, <2>2, <2>3 DEF IInv, TypeOK, Watch
<1>6. KeptIsRegistered'
    BY <1>2, <1>4 DEF IInv, KeptIsRegistered, RegisteredIsAlive
<1>7. RegisteredIsAlive'
    BY <1>1, <1>2, <1>4 DEF IInv, TypeOK, RegisteredIsAlive
<1>8. Served'
  <2>1. \A g \in Fds : g # f => owner'[g] = owner[g] /\ asked'[g] = asked[g]
      BY DEF IInv, TypeOK
  <2>2. owner'[f] = s /\ asked'[f] = flags /\ flags # {}
      BY DEF IInv, TypeOK, Interests
  <2> QED
      BY <2>1, <2>2, <1>4 DEF IInv, Served, Owned
<1> QED
    BY <1>5, <1>6, <1>7, <1>8 DEF IInv

\* Destroying the channels of some descriptors of a slot: what the handlers and the poller
\* keep is what they kept before, without them.
LEMMA UnwatchMaps ==
    ASSUME IInv, NEW s \in Slots, NEW F \in SUBSET Fds, Unwatch(s, F)
    PROVE  /\ sockets_' \in [Slots -> PartialMaps(Interests)]
           /\ poller' \in PartialMaps([slot : Slots, interest : Interests])
           /\ DOMAIN sockets_'[s] = DOMAIN sockets_[s] \ F
           /\ \A t \in Slots \ {s} : sockets_'[t] = sockets_[t]
           /\ DOMAIN poller' = DOMAIN poller \ (F \cap DOMAIN sockets_[s])
           /\ \A g \in DOMAIN poller' : poller'[g] = poller[g]
           /\ freed' \subseteq freed \cup active
<1>1. /\ sockets_ \in [Slots -> PartialMaps(Interests)]
      /\ DOMAIN sockets_[s] \in SUBSET Fds
      /\ sockets_[s] \in [DOMAIN sockets_[s] -> Interests]
      /\ DOMAIN poller \in SUBSET Fds
      /\ poller \in [DOMAIN poller -> [slot : Slots, interest : Interests]]
    BY PartialMap DEF IInv, TypeOK
<1>2. sockets_'[s] = [g \in DOMAIN sockets_[s] \ F |-> sockets_[s][g]]
    BY <1>1 DEF Unwatch, Restrict
<1>3. sockets_'[s] \in PartialMaps(Interests)
    BY <1>1, <1>2, PartialMap
<1>4. poller' = [g \in DOMAIN poller \ (F \cap DOMAIN sockets_[s]) |-> poller[g]]
    BY DEF Unwatch, Restrict
<1>5. poller' \in PartialMaps([slot : Slots, interest : Interests])
    BY <1>1, <1>4, PartialMap
<1>6. /\ sockets_' \in [Slots -> PartialMaps(Interests)]
      /\ \A t \in Slots \ {s} : sockets_'[t] = sockets_[t]
    BY <1>1, <1>3 DEF Unwatch
<1> QED
    BY <1>2, <1>4, <1>5, <1>6 DEF Unwatch

LEMMA MonitorStep ==
    ASSUME IInv, NEW s \in Slots, NEW f \in Fds, NEW flags \in SUBSET Flags,
           Monitor(s, f, flags)
    PROVE  IInv'
<1> USE NoSlotAssumption
<1>1. CASE flags # {}
    BY <1>1, WatchStep DEF Monitor, ApplyMonitor, Interests
<1>2. CASE flags = {}
  <2>1. /\ attached[s] /\ owner[f] = s
        /\ asked' = [asked EXCEPT ![f] = {}]
        /\ Unwatch(s, {f})
        /\ UNCHANGED <<attached, made, active, loopLost>>
      BY <1>2 DEF Monitor, ApplyMonitor
  <2>2. owner' = owner
      BY <2>1 DEF Monitor, IInv, TypeOK
  <2>3. /\ \A g \in Fds : g # f => asked'[g] = asked[g]
        /\ asked'[f] = {}
      BY <2>1 DEF IInv, TypeOK
  <2>4. /\ sockets_' \in [Slots -> PartialMaps(Interests)]
        /\ poller' \in PartialMaps([slot : Slots, interest : Interests])
        /\ DOMAIN sockets_'[s] = DOMAIN sockets_[s] \ {f}
        /\ \A t \in Slots \ {s} : sockets_'[t] = sockets_[t]
        /\ DOMAIN poller' = DOMAIN poller \ ({f} \cap DOMAIN sockets_[s])
        /\ \A g \in DOMAIN poller' : poller'[g] = poller[g]
        /\ freed' \subseteq freed \cup active
      BY <2>1, UnwatchMaps
  <2>5. f \notin DOMAIN poller'
      BY <2>1, <2>4 DEF IInv, RegisteredIsAlive
  <2>6. TypeOK'
      BY <2>1, <2>2, <2>4 DEF IInv, TypeOK
  <2>7. KeptIsRegistered'
      BY <2>4 DEF IInv, KeptIsRegistered
  <2>8. RegisteredIsAlive'
    <3> SUFFICES ASSUME NEW g \in DOMAIN poller'
                 PROVE  /\ g \in DOMAIN sockets_'[poller'[g].slot]
                        /\ attached'[poller'[g].slot]
                        /\ owner'[g] = poller'[g].slot
        BY DEF RegisteredIsAlive
    <3>1. g \in DOMAIN poller /\ poller'[g] = poller[g] /\ g # f
        BY <2>4, <2>5
    <3>2. /\ g \in DOMAIN sockets_[poller[g].slot]
          /\ attached[poller[g].slot] /\ owner[g] = poller[g].slot
        BY <3>1 DEF IInv, RegisteredIsAlive
    <3>3. poller[g].slot \in Slots
      <4>1. poller \in [DOMAIN poller -> [slot : Slots, interest : Interests]]
          BY PartialMap DEF IInv, TypeOK
      <4> QED
          BY <4>1, <3>1
    <3> QED
        BY <2>1, <2>2, <2>4, <3>1, <3>2, <3>3
  <2>9. Served'
      BY <2>1, <2>2, <2>3, <2>4, <2>5 DEF IInv, Served, Owned
  <2> QED
      BY <2>6, <2>7, <2>8, <2>9 DEF IInv
<1> QED
    BY <1>1, <1>2

LEMMA OnDetachedStep ==
    ASSUME IInv, NEW s \in Slots, OnDetached(s)
    PROVE  IInv'
<1> USE NoSlotAssumption
<1>1. /\ attached' = [attached EXCEPT ![s] = FALSE]
      /\ Unwatch(s, Fds)
      /\ UNCHANGED <<owner, asked, made, active, loopLost>>
    BY DEF OnDetached, Teardown
<1>2. /\ ~attached'[s]
      /\ \A t \in Slots \ {s} : attached'[t] = attached[t]
    BY <1>1 DEF IInv, TypeOK
<1>3. /\ sockets_' \in [Slots -> PartialMaps(Interests)]
      /\ poller' \in PartialMaps([slot : Slots, interest : Interests])
      /\ DOMAIN sockets_'[s] = DOMAIN sockets_[s] \ Fds
      /\ \A t \in Slots \ {s} : sockets_'[t] = sockets_[t]
      /\ DOMAIN poller' = DOMAIN poller \ (Fds \cap DOMAIN sockets_[s])
      /\ \A g \in DOMAIN poller' : poller'[g] = poller[g]
      /\ freed' \subseteq freed \cup active
    BY <1>1, UnwatchMaps
<1>4. /\ DOMAIN sockets_[s] \in SUBSET Fds
      /\ DOMAIN poller \in SUBSET Fds
      /\ poller \in [DOMAIN poller -> [slot : Slots, interest : Interests]]
    BY PartialMap DEF IInv, TypeOK
<1>5. \A g \in DOMAIN poller' : poller[g].slot \in Slots \ {s}
    BY <1>3, <1>4 DEF IInv, RegisteredIsAlive
<1>6. TypeOK'
    BY <1>1, <1>3 DEF IInv, TypeOK
<1>7. KeptIsRegistered'
  <2>1. DOMAIN sockets_'[s] = {}
      BY <1>3, <1>4
  <2>2. ASSUME NEW t \in Slots \ {s}, NEW g \in DOMAIN sockets_[t]
        PROVE  g \in DOMAIN poller' /\ poller'[g].slot = t
    <3>1. g \in DOMAIN poller /\ poller[g].slot = t
        BY DEF IInv, KeptIsRegistered
    <3>2. g \notin DOMAIN sockets_[s]
        BY <3>1 DEF IInv, KeptIsRegistered
    <3> QED
        BY <3>1, <3>2, <1>3
  <2> QED
      BY <2>1, <2>2, <1>3 DEF KeptIsRegistered
<1>8. RegisteredIsAlive'
    BY <1>1, <1>2, <1>3, <1>5 DEF IInv, RegisteredIsAlive
<1>9. Served'
  <2>1. ASSUME NEW t \in Slots, attached'[t], NEW g \in Fds, owner'[g] = t
        PROVE  IF asked'[g] = {} THEN g \notin DOMAIN poller'
               ELSE g \in DOMAIN poller' /\ poller'[g] = [slot |-> t, interest |-> asked'[g]]
    <3>1. t # s /\ attached[t] /\ owner[g] = t /\ asked'[g] = asked[g]
        BY <2>1, <1>1, <1>2
    <3>2. IF asked[g] = {} THEN g \notin DOMAIN poller
          ELSE g \in DOMAIN poller /\ poller[g] = [slot |-> t, interest |-> asked[g]]
        BY <3>1 DEF IInv, Served, Owned
    <3>3. g \in DOMAIN sockets_[s] => poller[g].slot = s
        BY DEF IInv, KeptIsRegistered
    <3> QED
        BY <3>1, <3>2, <3>3, <1>3
  <2> QED
      BY <2>1 DEF Served, Owned
<1> QED
    BY <1>6, <1>7, <1>8, <1>9 DEF IInv

LEMMA CloseStep ==
    ASSUME IInv, NEW f \in Fds, Close(f)
    PROVE  IInv'
<1> USE NoSlotAssumption
<1>1. /\ owner[f] \in Slots
      /\ owner' = [owner EXCEPT ![f] = NoSlot]
      /\ asked' = [asked EXCEPT ![f] = {}]
      /\ UNCHANGED <<attached, made, sockets_, active, freed, loopLost>>
    BY DEF Close, loopVars, IInv, TypeOK
<1>2. /\ owner'[f] = NoSlot
      /\ \A g \in Fds \ {f} : owner'[g] = owner[g] /\ asked'[g] = asked[g]
    BY <1>1 DEF IInv, TypeOK
<1>3. /\ DOMAIN poller \in SUBSET Fds
      /\ poller \in [DOMAIN poller -> [slot : Slots, interest : Interests]]
    BY PartialMap DEF IInv, TypeOK
\* The handler had dropped the channel already: nothing was asked for, or it is detached.
<1>4. f \notin DOMAIN poller
  <2>1. CASE asked[f] = {} /\ attached[owner[f]]
      BY <2>1, <1>1 DEF IInv, Served, Owned
  <2>2. CASE ~attached[owner[f]]
      BY <2>2 DEF IInv, RegisteredIsAlive
  <2> QED
      BY <2>1, <2>2 DEF Close
<1>5. poller' = poller
  <2>1. poller' = [g \in DOMAIN poller |-> poller[g]]
      BY <1>4 DEF Close, Restrict
  <2> QED
      BY <2>1, <1>3
<1>6. TypeOK'
  <2>1. owner' \in [Fds -> Slots \cup {NoSlot}] /\ asked' \in [Fds -> SUBSET Flags]
      BY <1>1 DEF IInv, TypeOK
  <2> QED
      BY <2>1, <1>1, <1>5 DEF IInv, TypeOK
<1>7. KeptIsRegistered'
    BY <1>1, <1>5 DEF IInv, KeptIsRegistered
<1>8. RegisteredIsAlive'
    BY <1>1, <1>2, <1>3, <1>4, <1>5 DEF IInv, RegisteredIsAlive
<1>9. Served'
    BY <1>1, <1>2, <1>5 DEF IInv, Served, Owned
<1> QED
    BY <1>6, <1>7, <1>8, <1>9 DEF IInv

\* Replacing or dropping a connection, whatever becomes of the slot's attachment.
LEMMA DestroyedStep ==
    ASSUME IInv, NEW s \in Slots, Destroyed(s), NEW b \in BOOLEAN,
           attached' = [attached EXCEPT ![s] = b], made' \in 0..MaxConnections
    PROVE  IInv'
<1> USE NoSlotAssumption
<1>1. /\ sockets_' = [sockets_ EXCEPT ![s] = None]
      /\ owner' = [f \in Fds |-> IF owner[f] = s THEN NoSlot ELSE owner[f]]
      /\ asked' = [f \in Fds |-> IF owner[f] = s THEN {} ELSE asked[f]]
      /\ UNCHANGED <<active, freed, loopLost>>
    BY DEF Destroyed, loopVars
<1>2. /\ \A t \in Slots \ {s} : sockets_'[t] = sockets_[t] /\ attached'[t] = attached[t]
      /\ sockets_'[s] = None /\ DOMAIN None = {}
    BY <1>1 DEF IInv, TypeOK, None
<1>3. /\ DOMAIN poller \in SUBSET Fds
      /\ poller \in [DOMAIN poller -> [slot : Slots, interest : Interests]]
    BY PartialMap DEF IInv, TypeOK
<1>4. poller' = [g \in DOMAIN poller \ Owned(s) |-> poller[g]]
    BY DEF Destroyed, Restrict
\* What is left in the poller is of other slots.
<1>5. \A g \in DOMAIN poller' :
          /\ g \in DOMAIN poller /\ poller'[g] = poller[g]
          /\ poller[g].slot \in Slots \ {s} /\ owner'[g] = owner[g]
    BY <1>1, <1>3, <1>4 DEF IInv, RegisteredIsAlive, Owned
<1>6. TypeOK'
  <2>1. None \in PartialMaps(Interests)
      BY PartialMap DEF None
  <2>2. sockets_' \in [Slots -> PartialMaps(Interests)]
      BY <1>1, <2>1 DEF IInv, TypeOK
  <2>3. poller' \in PartialMaps([slot : Slots, interest : Interests])
    <3>1. DOMAIN poller' \in SUBSET Fds
        BY <1>3, <1>4
    <3>2. poller' \in [DOMAIN poller' -> [slot : Slots, interest : Interests]]
        BY <1>3, <1>4
    <3> QED
        BY <3>1, <3>2, PartialMap
  <2>4. /\ owner' \in [Fds -> Slots \cup {NoSlot}]
        /\ asked' \in [Fds -> SUBSET Flags]
        /\ attached' \in [Slots -> BOOLEAN]
      BY <1>1 DEF IInv, TypeOK
  <2> QED
      BY <2>2, <2>3, <2>4, <1>1 DEF IInv, TypeOK
<1>7. KeptIsRegistered'
  <2>1. ASSUME NEW t \in Slots, NEW g \in DOMAIN sockets_'[t]
        PROVE  g \in DOMAIN poller' /\ poller'[g].slot = t
    <3>1. t # s /\ g \in DOMAIN sockets_[t]
        BY <2>1, <1>2
    <3>2. g \in DOMAIN poller /\ poller[g].slot = t
        BY <3>1 DEF IInv, KeptIsRegistered
    <3>3. owner[g] = t
        BY <3>2 DEF IInv, RegisteredIsAlive
    <3> QED
        BY <3>1, <3>2, <3>3, <1>4 DEF Owned
  <2> QED
      BY <2>1 DEF KeptIsRegistered
<1>8. RegisteredIsAlive'
    BY <1>2, <1>5 DEF IInv, RegisteredIsAlive
<1>9. Served'
  <2>1. ASSUME NEW t \in Slots, attached'[t], NEW g \in Fds, owner'[g] = t
        PROVE  IF asked'[g] = {} THEN g \notin DOMAIN poller'
               ELSE g \in DOMAIN poller' /\ poller'[g] = [slot |-> t, interest |-> asked'[g]]
    <3>1. t # s /\ attached[t] /\ owner[g] = t /\ asked'[g] = asked[g]
        BY <2>1, <1>1, <1>2
    <3>2. IF asked[g] = {} THEN g \notin DOMAIN poller
          ELSE g \in DOMAIN poller /\ poller[g] = [slot |-> t, interest |-> asked[g]]
        BY <3>1 DEF IInv, Served, Owned
    <3> QED
        BY <3>1, <3>2, <1>4 DEF Owned
  <2> QED
      BY <2>1 DEF Served, Owned
<1> QED
    BY <1>6, <1>7, <1>8, <1>9 DEF IInv

LEMMA NextIInv == IInv /\ [Next]_vars => IInv'
<1> SUFFICES ASSUME IInv, [Next]_vars PROVE IInv'
    OBVIOUS
<1>1. ASSUME NEW s \in Slots, NEW f \in Fds, NEW flags \in SUBSET Flags,
             Monitor(s, f, flags)
      PROVE  IInv'
    BY <1>1, MonitorStep
<1>2. ASSUME NEW s \in Slots, OnDetached(s) PROVE IInv'
    BY <1>2, OnDetachedStep
<1>3. ASSUME NEW s \in Slots, Connect(s) PROVE IInv'
  <2>1. made' \in 0..MaxConnections
      BY <1>3, ConnectionsAssumption DEF Connect, IInv, TypeOK
  <2> QED
      BY <1>3, <2>1, DestroyedStep DEF Connect
<1>4. ASSUME NEW s \in Slots, Stop(s) PROVE IInv'
  <2>1. made' \in 0..MaxConnections
      BY <1>4 DEF Stop, IInv, TypeOK
  <2> QED
      BY <1>4, <2>1, DestroyedStep DEF Stop
<1>5. ASSUME NEW f \in Fds, Close(f) PROVE IInv'
    BY <1>5, CloseStep
\* The steps of the loop, and stuttering: the handlers and the poller stay.
<1>6. ASSUME UNCHANGED <<amqpVars, sockets_, poller>>,
             freed' \subseteq active', active' \subseteq Fds, loopLost' \in BOOLEAN
      PROVE  IInv'
  <2>1. TypeOK'
      BY <1>6 DEF IInv, TypeOK, amqpVars
  <2>2. KeptIsRegistered' /\ RegisteredIsAlive' /\ Served'
      BY <1>6 DEF IInv, KeptIsRegistered, RegisteredIsAlive, Served, Owned, amqpVars
  <2> QED
      BY <2>1, <2>2 DEF IInv
<1>7. ASSUME NEW f \in Fds, Returns(f) PROVE IInv'
  <2>1. freed' \subseteq active' /\ active' \subseteq Fds
      BY <1>7 DEF Returns, IInv, TypeOK
  <2>2. loopLost' \in BOOLEAN
      BY <1>7, Zenon DEF Returns
  <2> QED
      BY <2>1, <2>2, <1>6, <1>7 DEF Returns
<1>8. ASSUME NEW F \in SUBSET Fds, Poll(F) PROVE IInv'
  <2>1. freed' \subseteq active' /\ active' \subseteq Fds /\ loopLost' \in BOOLEAN
      BY <1>8 DEF Poll, IInv, TypeOK
  <2> QED
      BY <2>1, <1>6, <1>8 DEF Poll
<1>9. CASE UNCHANGED vars
  <2>1. freed' \subseteq active' /\ active' \subseteq Fds /\ loopLost' \in BOOLEAN
      BY <1>9 DEF vars, loopVars, IInv, TypeOK
  <2> QED
      BY <2>1, <1>6, <1>9 DEF vars
<1> QED
    BY <1>1, <1>2, <1>3, <1>4, <1>5, <1>7, <1>8, <1>9 DEF Next

\* IInv is an invariant of the handlers, the poller and AMQP-CPP together.
THEOREM Invariance == Spec => []IInv
BY InitIInv, NextIInv, PTL DEF Spec

\* The handlers, the poller and AMQP-CPP's requests keep their types.
THEOREM TypeCorrect == Spec => []TypeOK
BY Invariance, PTL DEF IInv

\* For any connections sharing the loop: whatever they open, close and reopen, and in
\* whatever order they are replaced, an attached one is woken for what it asked for.
THEOREM ServesTheAttached == Spec => []Served
BY Invariance, PTL DEF IInv

\* The poller never holds a channel whose handler dropped it, whose connection is
\* detached, or whose descriptor is another's by now.
THEOREM CallsOnlyTheLiving == Spec => []RegisteredIsAlive
BY Invariance, PTL DEF IInv
=============================================================================
