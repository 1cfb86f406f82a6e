------------------------ MODULE CoordServer_proofs ------------------------
(***************************************************************************)
(* Proofs about CoordServer: types together with the conservation of the   *)
(* permits, that the registry has no dangling entry, and that a source     *)
(* told Ok is the one its channel leads to.                                *)
(***************************************************************************)
EXTENDS CoordServer, FiniteSetTheorems, TLAPS

USE RolesAssumption, ChanAssumption, NoProvAssumption, SecretAssumption,
    BoundsAssumption, LeaversAssumption

\* The running relays are finitely many.
LEMMA RelayingFinite ==
    /\ IsFiniteSet(Relaying) /\ Cardinality(Relaying) \in Nat
  BY FS_Subset, FS_CardinalityType DEF Relaying

----------------------------------------------------------------------------
(* Types, and one permit per running relay. Neither is inductive alone: a  *)
(* permit given back stays within max_conns because it had been taken.     *)

Sound == TypeOK /\ PermitsConserved

\* The server starts with all its permits.
LEMMA SoundInit == Init => Sound
  <1> SUFFICES ASSUME Init PROVE Sound
    OBVIOUS
  <1>1. Relaying = {}
    BY DEF Init, Relaying
  <1>2. Cardinality(Relaying) = 0
    BY <1>1, FS_EmptySet
  <1>3. TypeOK
    <2>1. /\ inbox \in [Clients -> Seq(ServerMsg)]
          /\ backlog \in [Providers -> Seq(Consumers)]
      BY DEF Init
    <2> QED BY <2>1 DEF Init, TypeOK, ClStates, SrvStates, RelStates
  <1> QED BY <1>2, <1>3 DEF Init, Sound, PermitsConserved

\* The typed part of the state that carries control messages.
LEMMA DeliveredTyped ==
    ASSUME TypeOK, NEW c \in Clients, NEW m \in ServerMsg
    PROVE  Delivered(c, m) \in [Clients -> Seq(ServerMsg)]
  <1>1. inbox \in [Clients -> Seq(ServerMsg)] /\ inbox[c] \in Seq(ServerMsg)
    BY DEF TypeOK
  <1>2. Append(inbox[c], m) \in Seq(ServerMsg)
    BY <1>1
  <1> QED BY <1>1, <1>2 DEF Delivered

\* The relays that run depend on rel alone.
LEMMA SameRelays ==
    ASSUME rel' = rel PROVE Relaying' = Relaying
  BY DEF Relaying

\* A permit is taken with the start of a relay and given back with its end, whichever
\* side ends it.
LEMMA SoundStep == Sound /\ [Next]_vars => Sound'
  <1> SUFFICES ASSUME Sound, [Next]_vars PROVE Sound'
    OBVIOUS
  <1> USE DEF Sound, PermitsConserved, client, relays
  <1>t. TypeOK
    OBVIOUS
  <1>m. {"Challenge", "Ok", "Heartbeat", "Error"} \subseteq ServerMsg
    BY DEF ServerMsg
  <1>1. ASSUME NEW c \in Clients, ClientStep(c) \/ ClientKilled(c) PROVE Sound'
    <2>1. CASE ClientConnect(c)
      BY <2>1, SameRelays DEF ClientConnect, TypeOK, ClStates, SrvStates
    <2>2. CASE ClientAuth(c) \/ ClientRefused(c)
      BY <2>2, SameRelays DEF ClientAuth, ClientRefused, Exit, TypeOK, ClStates
    <2>3. CASE ClientAccepted(c)
      <3>1. Tail(inbox[c]) \in Seq(ServerMsg)
        BY <2>3 DEF ClientAccepted, TypeOK
      <3> QED BY <2>3, <3>1, SameRelays DEF ClientAccepted, TypeOK, ClStates
    <2>4. CASE SessionEnds(c) \/ ClientKilled(c)
      BY <2>4, SameRelays DEF SessionEnds, ClientKilled, Exit, TypeOK, ClStates
    <2>5. CASE c \in Consumers /\ ConsumerOpen(c)
      BY <2>5, SameRelays DEF ConsumerOpen, TypeOK
    <2>6. CASE c \in Providers /\ ProviderAccept(c)
      <3>1. Head(backlog[c]) \in Consumers /\ Tail(backlog[c]) \in Seq(Consumers)
        BY <2>6 DEF ProviderAccept, TypeOK
      <3> QED BY <2>6, <3>1, SameRelays DEF ProviderAccept, TypeOK
    <2> QED BY <1>1, <2>1, <2>2, <2>3, <2>4, <2>5, <2>6 DEF ClientStep
  <1>2. ASSUME NEW c \in Clients, SrvStep(c) \/ SrvHeartbeat(c) PROVE Sound'
    <2>1. CASE SrvFirst(c)
      <3>1. inbox' \in [Clients -> Seq(ServerMsg)]
        <4>1. \A m \in ServerMsg : Delivered(c, m) \in [Clients -> Seq(ServerMsg)]
          BY <1>t, DeliveredTyped
        <4>2. inbox \in [Clients -> Seq(ServerMsg)]
          BY DEF TypeOK
        <4> QED BY <1>m, <2>1, <4>1, <4>2 DEF SrvFirst, ServerHandshake
      <3>2. srv' \in [Clients -> SrvStates]
        <4>1. srv \in [Clients -> SrvStates]
          BY DEF TypeOK
        <4>2. srv' = srv \/ \E s \in SrvStates : srv' = [srv EXCEPT ![c] = s]
          BY <2>1 DEF SrvFirst, ServerHandshake, SrvGoto, SrvStates
        <4> QED BY <4>1, <4>2
      <3>3. UNCHANGED <<cl, registry, relays>>
        BY <2>1 DEF SrvFirst, ServerHandshake
      <3> QED BY <3>1, <3>2, <3>3, SameRelays DEF TypeOK
    <2>2. CASE SrvSendOk(c)
      BY <1>m, <2>2, DeliveredTyped, SameRelays DEF SrvSendOk, SrvGoto, TypeOK, SrvStates
    <2>3. CASE SrvHeartbeat(c)
      <3>1. inbox' \in [Clients -> Seq(ServerMsg)]
        <4>1. \A m \in ServerMsg : Delivered(c, m) \in [Clients -> Seq(ServerMsg)]
          BY <1>t, DeliveredTyped
        <4>2. inbox \in [Clients -> Seq(ServerMsg)]
          BY DEF TypeOK
        <4> QED BY <1>m, <2>3, <4>1, <4>2 DEF SrvHeartbeat
      <3>2. srv' \in [Clients -> SrvStates]
        <4>1. srv \in [Clients -> SrvStates]
          BY DEF TypeOK
        <4>2. srv' = srv \/ \E s \in SrvStates : srv' = [srv EXCEPT ![c] = s]
          BY <2>3 DEF SrvHeartbeat, SrvGoto, SrvStates
        <4> QED BY <4>1, <4>2
      <3>3. UNCHANGED <<cl, registry, relays>>
        BY <2>3 DEF SrvHeartbeat
      <3> QED BY <3>1, <3>2, <3>3, SameRelays DEF TypeOK
    <2>4. CASE SrvLeave(c)
      BY <2>4, SameRelays DEF SrvLeave, SrvGoto, TypeOK, SrvStates, Clients
    <2>5. CASE c \in Providers /\ SrvCheck(c)
      <3>1. inbox' \in [Clients -> Seq(ServerMsg)]
        <4>1. \A m \in ServerMsg : Delivered(c, m) \in [Clients -> Seq(ServerMsg)]
          BY <1>t, DeliveredTyped
        <4>2. inbox \in [Clients -> Seq(ServerMsg)]
          BY DEF TypeOK
        <4> QED BY <1>m, <2>5, <4>1, <4>2 DEF SrvCheck
      <3>2. srv' \in [Clients -> SrvStates]
        <4>1. srv \in [Clients -> SrvStates]
          BY DEF TypeOK
        <4>2. srv' = srv \/ \E s \in SrvStates : srv' = [srv EXCEPT ![c] = s]
          BY <2>5 DEF SrvCheck, SrvGoto, SrvStates
        <4> QED BY <4>1, <4>2
      <3>3. UNCHANGED <<cl, registry, relays>>
        BY <2>5 DEF SrvCheck
      <3> QED BY <3>1, <3>2, <3>3, SameRelays DEF TypeOK
    <2>6. CASE c \in Providers /\ SrvInsert(c)
      BY <2>6, SameRelays DEF SrvInsert, SrvGoto, TypeOK, SrvStates
    <2>7. CASE c \in Consumers /\ SrvAcceptStream(c)
      <3>1. CASE permits > 0
        <4>1. Relaying' = Relaying \cup {c} /\ c \notin Relaying
          BY <2>7, <3>1 DEF SrvAcceptStream, Relaying, TypeOK
        <4>2. Cardinality(Relaying') = Cardinality(Relaying) + 1
          BY <4>1, RelayingFinite, FS_AddElement
        <4>3. permits' = permits - 1 /\ permits' \in 0 .. MaxConns
          BY <2>7, <3>1 DEF SrvAcceptStream, TypeOK
        <4>4. PermitsConserved'
          BY <4>2, <4>3, RelayingFinite DEF TypeOK
        <4>5. rel' \in [Consumers -> RelStates]
          BY <2>7, <3>1 DEF SrvAcceptStream, TypeOK, RelStates
        <4>6. UNCHANGED <<client, srv, registry, relProv, backlog, taken, substream>>
          BY <2>7, <3>1 DEF SrvAcceptStream
        <4> QED BY <4>3, <4>4, <4>5, <4>6 DEF TypeOK
      <3>2. CASE ~(permits > 0)
        BY <2>7, <3>2, SameRelays DEF SrvAcceptStream, TypeOK
      <3> QED BY <3>1, <3>2
    <2>8. CASE SrvDisconnected(c)
      BY <2>8, SameRelays DEF SrvDisconnected, SrvGoto, TypeOK, SrvStates
    <2> QED BY <1>2, <2>1, <2>2, <2>3, <2>4, <2>5, <2>6, <2>7, <2>8 DEF SrvStep
  <1>3. ASSUME NEW d \in Consumers, RelayStep(d) PROVE Sound'
    <2>1. ASSUME d \in Relaying, RelayEnds(d) PROVE Sound'
      <3>1. Relaying' = Relaying \ {d}
        BY <2>1 DEF RelayEnds, Relaying, TypeOK
      <3>2. Cardinality(Relaying') = Cardinality(Relaying) - 1
        BY <2>1, <3>1, RelayingFinite, FS_RemoveElement
      <3>3. Cardinality(Relaying') \in Nat
        BY <3>1, RelayingFinite, FS_Subset, FS_CardinalityType
      <3>4. permits' = permits + 1 /\ permits' \in 0 .. MaxConns /\ PermitsConserved'
        BY <2>1, <3>2, <3>3, RelayingFinite DEF RelayEnds, TypeOK
      <3>5. /\ rel' \in [Consumers -> RelStates]
            /\ substream' \in [Consumers -> {"none", "open", "eof"}]
        BY <2>1 DEF RelayEnds, TypeOK, RelStates
      <3>6. UNCHANGED <<client, srv, registry, relProv, backlog, taken>>
        BY <2>1 DEF RelayEnds
      <3> QED BY <3>4, <3>5, <3>6 DEF TypeOK
    <2>2. CASE RelayLookup(d)
      <3>1. Relaying' = Relaying
        BY <2>2 DEF RelayLookup, Pick, Relaying, TypeOK
      <3>2. /\ relProv' \in [Consumers -> Providers \cup {NoProvider}]
            /\ rel' \in [Consumers -> RelStates]
        BY <2>2 DEF RelayLookup, Pick, TypeOK, RelStates, Clients
      <3>3. UNCHANGED <<client, srv, registry, permits, substream, backlog, taken>>
        BY <2>2 DEF RelayLookup, Pick
      <3> QED BY <3>1, <3>2, <3>3 DEF TypeOK
    <2>3. CASE RelayNoProvider(d)
      BY <2>1, <2>3 DEF RelayNoProvider, Relaying
    <2>4. CASE RelayOpen(d)
      <3>1. Relaying' = Relaying
        BY <2>4 DEF RelayOpen, Relaying, TypeOK
      <3>2. backlog' \in [Providers -> Seq(Consumers)]
        <4>1. backlog \in [Providers -> Seq(Consumers)]
          BY DEF TypeOK
        <4>2. \A q \in Providers : Append(backlog[q], d) \in Seq(Consumers)
          BY <4>1
        <4> QED BY <2>4, <4>1, <4>2 DEF RelayOpen
      <3> QED BY <2>4, <3>1, <3>2 DEF RelayOpen, TypeOK, RelStates
    <2>5. CASE RelayBroken(d)
      BY <2>1, <2>5 DEF RelayBroken, Relaying
    <2>6. CASE RelayEof(d)
      BY <2>6, SameRelays DEF RelayEof, TypeOK
    <2> QED BY <1>3, <2>2, <2>3, <2>4, <2>5, <2>6 DEF RelayStep
  <1>4. CASE UNCHANGED vars
    BY <1>4, SameRelays DEF vars, TypeOK
  <1> QED BY <1>1, <1>2, <1>3, <1>4 DEF Next

\* For any number of clients, channels and permits: the state is well typed.
THEOREM TypeCorrect == Spec => []TypeOK
  <1>1. Sound => TypeOK
    BY DEF Sound
  <1> QED BY <1>1, SoundInit, SoundStep, PTL DEF Spec

\* For any number of clients, channels and permits: every permit taken from
\* max_conns is held by exactly one running relay.
THEOREM PermitsAreConserved == Spec => []PermitsConserved
  <1>1. Sound => PermitsConserved
    BY DEF Sound
  <1> QED BY <1>1, SoundInit, SoundStep, PTL DEF Spec

----------------------------------------------------------------------------
(* The registry. An entry is written by the task it belongs to, on that    *)
(* task's own channel, and the same task's DropGuard clears the channel.   *)

Registered ==
    /\ NoDanglingEntry
    /\ \A c \in Clients : cl[c] = "start" => srv[c] = "none"

\* The registry is empty at the start.
LEMMA RegisteredInit == Init => Registered
  BY DEF Init, Registered, NoDanglingEntry

\* An entry is made by the task of a provider and goes before the task does.
LEMMA RegisteredStep == TypeOK /\ Registered /\ [Next]_vars => Registered'
  <1> SUFFICES ASSUME TypeOK, Registered, [Next]_vars PROVE Registered'
    OBVIOUS
  <1> USE DEF Registered, NoDanglingEntry, Holding, client, relays
  <1>0. /\ cl \in [Clients -> ClStates] /\ srv \in [Clients -> SrvStates]
        /\ registry \in [Channels -> Providers \cup {NoProvider}]
        /\ Providers \subseteq Clients /\ NoProvider \notin Clients
        /\ Consumers \subseteq Clients
        /\ \A c \in Clients : Chan[c] \in Channels
    BY DEF TypeOK, Clients
  \* A task that holds no entry yet may go anywhere.
  <1>1. ASSUME NEW c \in Clients, NEW s, srv[c] \notin Holding, cl[c] # "start",
               srv' = [srv EXCEPT ![c] = s], UNCHANGED <<cl, registry>>
        PROVE  Registered'
    BY <1>0, <1>1
  \* A client step that leaves server task and registry alone.
  <1>2. ASSUME NEW c \in Clients, NEW s, s # "start", cl' = [cl EXCEPT ![c] = s],
               UNCHANGED <<srv, registry>>
        PROVE  Registered'
    BY <1>0, <1>2
  <1>3. ASSUME UNCHANGED <<cl, srv, registry>> PROVE Registered'
    BY <1>3
  <1>4. ASSUME NEW c \in Clients, ClientStep(c) \/ ClientKilled(c) PROVE Registered'
    <2>1. CASE ClientConnect(c)
      <3>1. srv[c] = "none" /\ cl'[c] # "start"
        BY <1>0, <2>1 DEF ClientConnect
      <3>2. \A h \in Channels : registry[h] # NoProvider => registry[h] # c
        BY <1>0, <3>1
      <3> QED BY <1>0, <2>1, <3>1, <3>2 DEF ClientConnect
    <2>2. CASE ClientAuth(c) \/ ClientRefused(c)
      <3>1. cl' = [cl EXCEPT ![c] = "gone"] /\ UNCHANGED <<srv, registry>>
        BY <2>2 DEF ClientAuth, ClientRefused, Exit
      <3> QED BY ONLY <1>2, <3>1, c \in Clients
    <2>3. CASE ClientAccepted(c)
      BY <1>2, <2>3 DEF ClientAccepted
    <2>4. CASE SessionEnds(c) \/ ClientKilled(c)
      BY <1>2, <2>4 DEF SessionEnds, ClientKilled, Exit
    <2>5. CASE ConsumerOpen(c) \/ ProviderAccept(c)
      BY <1>3, <2>5 DEF ConsumerOpen, ProviderAccept
    <2> QED BY <1>4, <2>1, <2>2, <2>3, <2>4, <2>5 DEF ClientStep
  <1>5. ASSUME NEW c \in Clients, SrvStep(c) \/ SrvHeartbeat(c) PROVE Registered'
    <2>0. srv[c] # "none" => cl[c] # "start"
      OBVIOUS
    <2>1. CASE SrvFirst(c) \/ SrvDisconnected(c) \/ SrvCheck(c)
      BY <1>1, <2>0, <2>1 DEF SrvFirst, ServerHandshake, SrvDisconnected, SrvCheck, SrvGoto, Holding
    <2>2. CASE SrvSendOk(c) \/ SrvHeartbeat(c)
      <3>1. /\ srv[c] # "none" /\ UNCHANGED <<cl, registry>>
            /\ srv' = srv \/ \E s \in Holding : srv' = [srv EXCEPT ![c] = s]
        BY <2>2 DEF SrvSendOk, SrvHeartbeat, SrvGoto
      <3> QED BY <1>0, <2>0, <3>1
    <2>3. CASE SrvLeave(c)
      <3>1. CASE c \in Providers
        <4>1. registry' = [registry EXCEPT ![Chan[c]] = NoProvider]
          BY <2>3, <3>1 DEF SrvLeave
        <4>2. srv' = [srv EXCEPT ![c] = "closed"] /\ cl' = cl /\ srv[c] # "none"
          BY <2>3 DEF SrvLeave, SrvGoto
        <4>3. ASSUME NEW h \in Channels, registry'[h] # NoProvider
              PROVE  registry'[h] = registry[h] /\ registry[h] # c
          BY <1>0, <4>1, <4>3
        <4> QED BY <1>0, <2>0, <4>1, <4>2, <4>3
      <3>2. CASE c \notin Providers
        <4>1. registry' = registry
          BY <2>3, <3>2 DEF SrvLeave
        <4>2. srv' = [srv EXCEPT ![c] = "closed"] /\ cl' = cl /\ srv[c] # "none"
          BY <2>3 DEF SrvLeave, SrvGoto
        <4>3. \A h \in Channels : registry[h] # c \/ registry[h] = NoProvider
          BY <1>0, <3>2
        <4> QED BY <1>0, <2>0, <4>1, <4>2, <4>3
      <3> QED BY <3>1, <3>2
    <2>4. CASE c \in Providers /\ SrvInsert(c)
      BY <1>0, <2>0, <2>4 DEF SrvInsert, SrvGoto
    <2>5. CASE SrvAcceptStream(c)
      BY <1>3, <2>5 DEF SrvAcceptStream
    <2> QED BY <1>5, <2>1, <2>2, <2>3, <2>4, <2>5 DEF SrvStep
  <1>6. ASSUME NEW d \in Consumers, RelayStep(d) PROVE Registered'
    BY <1>3, <1>6 DEF RelayStep, RelayLookup, Pick, RelayNoProvider, RelayOpen, RelayEof,
         RelayBroken, RelayEnds
  <1>7. CASE UNCHANGED vars
    BY <1>3, <1>7 DEF vars
  <1> QED BY <1>4, <1>5, <1>6, <1>7 DEF Next

\* For any number of clients and channels, races between registrations
\* included: a registry entry belongs to a provider whose task still runs.
THEOREM NoEntryDangles == Spec => []NoDanglingEntry
  <1>1. Registered => NoDanglingEntry
    BY DEF Registered
  <1> QED BY <1>1, TypeCorrect, RegisteredInit, RegisteredStep, PTL DEF Spec

----------------------------------------------------------------------------
(* What Ok means. A source's task answers Ok after it has inserted its own *)
(* entry, and its entry goes only with another source on the channel or    *)
(* with its own task, which ends after the source is gone.                 *)

\* No two sources name one channel.
OneSourceEach == \A p, q \in Providers : Chan[p] = Chan[q] => p = q

\* Ok is on its way to the client.
OkUnderWay(c) == \E i \in 1 .. Len(inbox[c]) : inbox[c][i] = "Ok"

Reach ==
    \A p \in Providers :
        /\ srv[p] \in Holding => registry[Chan[p]] = p
        /\ cl[p] = "ready" \/ (OkUnderWay(p) /\ cl[p] # "gone") => srv[p] \in Holding

\* No source has been told Ok at the start.
LEMMA ReachInit == Init => Reach
  BY DEF Init, Reach, OkUnderWay, Holding, Clients

\* What a message adds: an Ok only when it is one.
LEMMA DeliveredOk ==
    ASSUME TypeOK, NEW c \in Clients, NEW m \in ServerMsg, inbox' = Delivered(c, m), NEW p \in Clients,
           OkUnderWay(p)'
    PROVE  OkUnderWay(p) \/ (p = c /\ m = "Ok")
  <1>1. inbox \in [Clients -> Seq(ServerMsg)] /\ inbox[c] \in Seq(ServerMsg)
    BY DEF TypeOK
  <1>2. inbox' = inbox \/ inbox' = [inbox EXCEPT ![c] = Append(inbox[c], m)]
    BY <1>1 DEF Delivered
  <1>3. CASE inbox' = inbox
    BY <1>3 DEF OkUnderWay
  <1>4. CASE inbox' = [inbox EXCEPT ![c] = Append(inbox[c], m)]
    <2>1. p # c => inbox'[p] = inbox[p]
      BY <1>1, <1>4
    <2>2. p = c => inbox'[p] = Append(inbox[p], m)
      BY <1>1, <1>4
    <2>3. PICK i \in 1 .. Len(inbox'[p]) : inbox'[p][i] = "Ok"
      BY DEF OkUnderWay
    <2>4. CASE p = c
      <3>1. i \in 1 .. Len(inbox[p]) \/ Append(inbox[p], m)[i] = m
        BY <1>1, <2>2, <2>3, <2>4
      <3>2. i \in 1 .. Len(inbox[p]) => Append(inbox[p], m)[i] = inbox[p][i]
        BY <1>1, <2>4
      <3> QED BY <2>2, <2>3, <2>4, <3>1, <3>2 DEF OkUnderWay
    <2>5. CASE p # c
      BY <2>1, <2>3, <2>5 DEF OkUnderWay
    <2> QED BY <2>4, <2>5
  <1> QED BY <1>2, <1>3, <1>4

\* With one source to a channel, nobody else puts an entry in the way of the one that
\* the Ok stands for.
LEMMA ReachStep ==
    ASSUME OneSourceEach, TypeOK, Registered, Reach, [Next]_vars
    PROVE  Reach'
  <1>0. /\ cl \in [Clients -> ClStates] /\ srv \in [Clients -> SrvStates]
        /\ inbox \in [Clients -> Seq(ServerMsg)]
        /\ registry \in [Channels -> Providers \cup {NoProvider}]
        /\ Providers \subseteq Clients /\ Consumers \subseteq Clients
        /\ \A c \in Clients : Chan[c] \in Channels
        /\ {"Challenge", "Ok", "Heartbeat", "Error"} \subseteq ServerMsg
    BY DEF TypeOK, Clients, ServerMsg
  <1> SUFFICES ASSUME NEW p \in Providers
               PROVE  /\ srv'[p] \in Holding => registry'[Chan[p]] = p
                      /\ cl'[p] = "ready" \/ (OkUnderWay(p)' /\ cl'[p] # "gone") => srv'[p] \in Holding
    BY DEF Reach, Holding
  <1>a. /\ srv[p] \in Holding => registry[Chan[p]] = p
        /\ cl[p] = "ready" \/ (OkUnderWay(p) /\ cl[p] # "gone") => srv[p] \in Holding
        /\ p \in Clients /\ p \notin Consumers
    BY <1>0 DEF Reach
  \* Nothing of this source changes but perhaps that it goes.
  <1>1. ASSUME srv'[p] = srv[p], registry'[Chan[p]] = registry[Chan[p]], OkUnderWay(p)' => OkUnderWay(p),
               cl'[p] = cl[p] \/ cl'[p] = "gone"
        PROVE  /\ srv'[p] \in Holding => registry'[Chan[p]] = p
               /\ cl'[p] = "ready" \/ (OkUnderWay(p)' /\ cl'[p] # "gone") => srv'[p] \in Holding
    BY <1>1, <1>a
  <1>2. UNCHANGED inbox => (OkUnderWay(p)' => OkUnderWay(p))
    BY DEF OkUnderWay
  <1>3. ASSUME NEW c \in Clients, ClientStep(c) \/ ClientKilled(c)
        PROVE  /\ srv'[p] \in Holding => registry'[Chan[p]] = p
               /\ cl'[p] = "ready" \/ (OkUnderWay(p)' /\ cl'[p] # "gone") => srv'[p] \in Holding
    <2>1. CASE ClientConnect(c)
      <3>1. /\ cl[c] = "start" /\ UNCHANGED <<inbox, registry>> /\ srv' = [srv EXCEPT ![c] = "first"]
            /\ \E s \in {"auth", "reply"} : cl' = [cl EXCEPT ![c] = s]
        BY <2>1 DEF ClientConnect
      <3>2. c = p => srv[p] = "none"
        BY <3>1, <1>0 DEF Registered
      <3> QED BY <1>0, <1>1, <1>2, <1>a, <3>1, <3>2 DEF Holding
    <2>2. CASE Exit(c)
      BY <1>0, <1>1, <1>2, <2>2 DEF Exit
    <2>3. CASE ClientAccepted(c)
      <3>1. /\ cl[c] = "reply" /\ inbox[c] # <<>> /\ Head(inbox[c]) = "Ok" /\ UNCHANGED <<srv, registry>>
            /\ cl' = [cl EXCEPT ![c] = "ready"] /\ inbox' = [inbox EXCEPT ![c] = Tail(inbox[c])]
        BY <2>3 DEF ClientAccepted, relays
      <3>2. CASE c = p
        <4>1. inbox[p] \in Seq(ServerMsg) /\ inbox[p] # <<>>
          BY <1>0, <1>a, <3>1, <3>2
        <4>2. Head(inbox[p]) = inbox[p][1] /\ 1 \in 1 .. Len(inbox[p])
          BY <4>1
        <4>3. OkUnderWay(p)
          BY <3>1, <3>2, <4>2 DEF OkUnderWay
        <4> QED BY <1>a, <3>1, <3>2, <4>3
      <3>3. CASE c # p
        <4>1. cl'[p] = cl[p] /\ inbox'[p] = inbox[p]
          BY <1>0, <1>a, <3>1, <3>3
        <4> QED BY <1>1, <3>1, <4>1 DEF OkUnderWay
      <3> QED BY <3>2, <3>3
    <2>4. CASE ConsumerOpen(c) \/ ProviderAccept(c)
      BY <1>1, <1>2, <2>4 DEF ConsumerOpen, ProviderAccept, client
    <2>5. ClientAuth(c) \/ ClientRefused(c) \/ SessionEnds(c) \/ ClientKilled(c) => Exit(c)
      BY DEF ClientAuth, ClientRefused, SessionEnds, ClientKilled
    <2> QED BY <1>3, <2>1, <2>2, <2>3, <2>4, <2>5 DEF ClientStep
  <1>4. ASSUME NEW c \in Clients, SrvStep(c) \/ SrvHeartbeat(c)
        PROVE  /\ srv'[p] \in Holding => registry'[Chan[p]] = p
               /\ cl'[p] = "ready" \/ (OkUnderWay(p)' /\ cl'[p] # "gone") => srv'[p] \in Holding
    \* A task that has not inserted its entry, or the task of a destination.
    <2>1. ASSUME srv[c] \notin Holding, NEW s \in SrvStates, srv' = [srv EXCEPT ![c] = s], c = p => s \notin Holding,
                 UNCHANGED <<cl, registry>>, OkUnderWay(p)' => OkUnderWay(p)
          PROVE  /\ srv'[p] \in Holding => registry'[Chan[p]] = p
                 /\ cl'[p] = "ready" \/ (OkUnderWay(p)' /\ cl'[p] # "gone") => srv'[p] \in Holding
      <3>1. CASE c = p
        BY <1>0, <1>a, <2>1, <3>1
      <3>2. CASE c # p
        <4>1. srv'[p] = srv[p]
          BY <1>0, <1>a, <2>1, <3>2
        <4> QED BY <1>1, <2>1, <4>1
      <3> QED BY <3>1, <3>2
    <2>2. CASE SrvFirst(c)
      <3>1. inbox' = inbox \/ inbox' = Delivered(c, "Challenge")
        BY <2>2 DEF SrvFirst, ServerHandshake
      <3>2. OkUnderWay(p)' => OkUnderWay(p)
        BY <1>0, <1>2, <1>a, <3>1, DeliveredOk
      <3>3. PICK s \in {"closed", "check", "send_ok"} :
               srv' = [srv EXCEPT ![c] = s] /\ (c \in Providers => s # "send_ok")
        BY <2>2 DEF SrvFirst, ServerHandshake, SrvGoto
      <3>4. srv[c] = "first" /\ UNCHANGED <<cl, registry>>
        BY <2>2 DEF SrvFirst, ServerHandshake
      <3> QED BY <2>1, <3>2, <3>3, <3>4 DEF Holding, SrvStates
    <2>3. CASE SrvDisconnected(c)
      <3>1. srv[c] = "first" /\ srv' = [srv EXCEPT ![c] = "closed"] /\ UNCHANGED <<cl, inbox, registry>>
        BY <2>3 DEF SrvDisconnected, SrvGoto, client
      <3> QED BY <1>2, <2>1, <3>1 DEF Holding, SrvStates
    <2>4. CASE SrvCheck(c)
      <3>1. inbox' = inbox \/ inbox' = Delivered(c, "Error")
        BY <2>4 DEF SrvCheck
      <3>2. OkUnderWay(p)' => OkUnderWay(p)
        BY <1>0, <1>2, <1>a, <3>1, DeliveredOk
      <3>3. \E s \in {"closed", "insert"} : srv' = [srv EXCEPT ![c] = s]
        BY <2>4 DEF SrvCheck, SrvGoto
      <3>4. srv[c] = "check" /\ UNCHANGED <<cl, registry>>
        BY <2>4 DEF SrvCheck
      <3> QED BY <2>1, <3>2, <3>3, <3>4 DEF Holding, SrvStates
    <2>5. CASE c \in Providers /\ SrvInsert(c)
      <3>1. /\ srv' = [srv EXCEPT ![c] = "send_ok"] /\ registry' = [registry EXCEPT ![Chan[c]] = c]
            /\ UNCHANGED <<cl, inbox>>
        BY <2>5 DEF SrvInsert, SrvGoto, client
      <3>2. CASE c = p
        BY <1>0, <1>a, <3>1, <3>2 DEF Holding
      <3>3. CASE c # p
        <4>1. srv'[p] = srv[p] /\ registry'[Chan[p]] = registry[Chan[p]]
          BY <1>0, <1>a, <2>5, <3>1, <3>3 DEF OneSourceEach
        <4> QED BY <1>1, <1>2, <3>1, <4>1
      <3> QED BY <3>2, <3>3
    <2>6. CASE SrvSendOk(c)
      <3>1. srv[c] = "send_ok" /\ inbox' = Delivered(c, "Ok") /\ srv' = [srv EXCEPT ![c] = "serve"]
            /\ UNCHANGED <<cl, registry>>
        BY <2>6 DEF SrvSendOk, SrvGoto
      <3>2. CASE c = p
        BY <1>0, <1>a, <3>1, <3>2 DEF Holding
      <3>3. CASE c # p
        <4>1. srv'[p] = srv[p]
          BY <1>0, <1>a, <3>1, <3>3
        <4>2. OkUnderWay(p)' => OkUnderWay(p)
          BY <1>0, <1>a, <3>1, <3>3, DeliveredOk
        <4> QED BY <1>1, <3>1, <4>1, <4>2
      <3> QED BY <3>2, <3>3
    <2>7. CASE SrvHeartbeat(c)
      <3>1. inbox' = inbox \/ inbox' = Delivered(c, "Heartbeat")
        BY <2>7 DEF SrvHeartbeat
      <3>2. OkUnderWay(p)' => OkUnderWay(p)
        BY <1>0, <1>2, <1>a, <3>1, DeliveredOk
      <3>3. srv[c] = "serve" /\ UNCHANGED <<cl, registry>> /\ (srv' = srv \/ srv' = [srv EXCEPT ![c] = "hb_blocked"])
        BY <2>7 DEF SrvHeartbeat, SrvGoto
      <3> QED BY <1>0, <1>a, <3>2, <3>3 DEF Holding
    <2>8. CASE SrvLeave(c)
      <3>1. cl[c] = "gone" /\ srv' = [srv EXCEPT ![c] = "closed"] /\ UNCHANGED <<cl, inbox>>
            /\ (registry' = registry \/ (c \in Providers /\ registry' = [registry EXCEPT ![Chan[c]] = NoProvider]))
        BY <2>8 DEF SrvLeave, SrvGoto, client
      <3>2. CASE c = p
        BY <1>0, <1>2, <1>a, <3>1, <3>2 DEF Holding
      <3>3. CASE c # p
        <4>1. srv'[p] = srv[p] /\ registry'[Chan[p]] = registry[Chan[p]]
          BY <1>0, <1>a, <3>1, <3>3 DEF OneSourceEach
        <4> QED BY <1>1, <1>2, <3>1, <4>1
      <3> QED BY <3>2, <3>3
    <2>9. CASE SrvAcceptStream(c)
      BY <1>1, <1>2, <2>9 DEF SrvAcceptStream, client
    <2> QED BY <1>4, <2>2, <2>3, <2>4, <2>5, <2>6, <2>7, <2>8, <2>9 DEF SrvStep
  <1>5. UNCHANGED <<cl, inbox, srv, registry>> =>
          /\ srv'[p] \in Holding => registry'[Chan[p]] = p
          /\ cl'[p] = "ready" \/ (OkUnderWay(p)' /\ cl'[p] # "gone") => srv'[p] \in Holding
    BY <1>1, <1>2
  <1>6. ASSUME NEW d \in Consumers, RelayStep(d) PROVE UNCHANGED <<cl, inbox, srv, registry>>
    BY <1>6, Zenon DEF RelayStep, RelayLookup, RelayNoProvider, RelayOpen, RelayEof, RelayBroken, RelayEnds, client
  <1>7. UNCHANGED vars => UNCHANGED <<cl, inbox, srv, registry>>
    BY DEF vars, client
  <1> QED BY <1>3, <1>4, <1>5, <1>6, <1>7 DEF Next

\* When no two sources name one channel, a source that was told Ok and is still connected
\* is the one its channel id leads to - for any number of clients, whatever leaves, blocks
\* or is refused meanwhile.
THEOREM OkIsReachable ==
    ASSUME OneSourceEach PROVE Spec => []OkMeansReachable
  <1>1. TypeOK /\ Registered /\ Reach /\ [Next]_vars => Reach'
    BY ReachStep
  <1>2. Reach => OkMeansReachable
    BY DEF Reach, OkMeansReachable
  <1> QED BY <1>1, <1>2, ReachInit, TypeCorrect, RegisteredInit, RegisteredStep, PTL DEF Spec
=============================================================================
