---------------------------- MODULE CoordServer ----------------------------
(***************************************************************************)
(* The coordination server (rb-transport/src/server.rs) with its clients:  *)
(* connect_source and connect_destination (client.rs), the control         *)
(* messages (proto.rs, auth.rs), the substreams of PairedChannel           *)
(* (channel.rs) and the relay between them. Every client process has one   *)
(* connection and one server task (handle_conn).                           *)
(***************************************************************************)
EXTENDS Integers, Sequences, FiniteSets

CONSTANTS
    Providers,      \* client processes run as source
    Consumers,      \* client processes run as destination
    Channels,       \* channel ids
    Chan,           \* the channel each client names
    NoProvider,     \* "no entry" in the registry
    ServerSecret,   \* was the server started with --secret?
    SecretClients,  \* the clients started with (the same) --secret
    MaxConns,       \* cfg.max_conns
    CtrlWindow,     \* messages the control substream holds unread
    Leavers,        \* the clients that may be killed
    MaxClients      \* bound: the clients that ever connect

Clients == Providers \cup Consumers

ASSUME RolesAssumption   == Providers \cap Consumers = {} /\ IsFiniteSet(Consumers)
ASSUME ChanAssumption    == Chan \in [Clients -> Channels]
ASSUME NoProvAssumption  == NoProvider \notin Clients
ASSUME SecretAssumption  == ServerSecret \in BOOLEAN /\ SecretClients \subseteq Clients
ASSUME BoundsAssumption  == MaxConns \in Nat /\ CtrlWindow \in Nat \ {0} /\ MaxClients \in Nat
ASSUME LeaversAssumption == Leavers \subseteq Clients

VARIABLES
    cl,        \* the client process: see ClStates
    inbox,     \* control messages sent to the client and not read by it
    srv,       \* the client's handle_conn task: see SrvStates
    registry,  \* channel id -> the provider whose pool is registered
    permits,   \* permits left in the max_conns semaphore
    substream, \* the consumer's data substream
    rel,       \* the relay task of the consumer's substream
    relProv,   \* the provider whose pool that relay picked
    backlog,   \* substreams opened towards a provider and not yet accepted
    taken      \* the consumer whose substream the provider accepted

client  == <<cl, inbox>>
relays  == <<permits, substream, rel, relProv, backlog, taken>>
vars    == <<client, srv, registry, relays>>

ClStates  == {"start", "auth", "reply", "ready", "gone"}
SrvStates == {"none", "first", "check", "insert", "send_ok", "serve", "hb_blocked", "closed"}
RelStates == {"none", "lookup", "open", "copy", "done"}
ServerMsg == {"Challenge", "Ok", "Heartbeat", "Error"}

\* ServerMsg is internally tagged (serde tag = "type"); serde refuses at run
\* time to write such a variant when it wraps a bare string.
Serializable(m) == m \in {"Ok", "Heartbeat"}

\* send_server: the message, or nothing when to_vec fails.
Delivered(c, m) ==
    [inbox EXCEPT ![c] = IF Serializable(m) THEN Append(@, m) ELSE @]

\* The control substream gives EOF once the server task has dropped it.
CtrlEof(c) == srv[c] = "closed" /\ inbox[c] = <<>>

----------------------------------------------------------------------------
(* Clients.                                                                *)

\* connect_source / connect_destination: open the control substream and send
\* Register or Connect; with a secret, wait for the challenge first.
ClientConnect(c) ==
    /\ cl[c] = "start" /\ Cardinality({x \in Clients : srv[x] # "none"}) < MaxClients
    /\ cl' = [cl EXCEPT ![c] = IF c \in SecretClients THEN "auth" ELSE "reply"]
    /\ srv' = [srv EXCEPT ![c] = "first"]
    /\ UNCHANGED <<inbox, registry, relays>>

\* The process exits, or is lost.
Exit(c) ==
    /\ cl' = [cl EXCEPT ![c] = "gone"]
    /\ UNCHANGED <<inbox, srv, registry, relays>>

\* client_handshake: anything but a challenge, and no challenge can be sent.
ClientAuth(c) ==
    /\ cl[c] = "auth"
    /\ CtrlEof(c) \/ inbox[c] # <<>>
    /\ Exit(c)

ClientAccepted(c) ==
    /\ cl[c] = "reply"
    /\ inbox[c] # <<>> /\ Head(inbox[c]) = "Ok"
    /\ cl' = [cl EXCEPT ![c] = "ready"]
    /\ inbox' = [inbox EXCEPT ![c] = Tail(@)]
    /\ UNCHANGED <<srv, registry, relays>>

\* Error, any other message, or EOF: connect_source or connect_destination
\* fails.
ClientRefused(c) ==
    /\ cl[c] = "reply"
    /\ CtrlEof(c) \/ (inbox[c] # <<>> /\ Head(inbox[c]) # "Ok")
    /\ Exit(c)

\* PairedChannel::open_stream: the substream and its marker byte. From now on
\* the client never reads the control substream again.
ConsumerOpen(d) ==
    /\ cl[d] = "ready"
    /\ substream[d] = "none"
    /\ substream' = [substream EXCEPT ![d] = "open"]
    /\ UNCHANGED <<client, srv, registry, permits, rel, relProv, backlog, taken>>

\* PairedChannel::accept_stream, called once: the oldest substream.
ProviderAccept(p) ==
    /\ cl[p] = "ready"
    /\ taken[p] = NoProvider
    /\ backlog[p] # <<>>
    /\ taken' = [taken EXCEPT ![p] = Head(backlog[p])]
    /\ backlog' = [backlog EXCEPT ![p] = Tail(@)]
    /\ UNCHANGED <<client, srv, registry, permits, substream, rel, relProv>>

\* run_source and run_destination return once the session is over or the
\* substream gives EOF, and the process exits.
SessionEnds(c) ==
    /\ cl[c] = "ready"
    /\ \/ c \in Consumers /\ (substream[c] = "eof" \/ \E p \in Providers : taken[p] = c)
       \/ c \in Providers /\ taken[c] # NoProvider
    /\ Exit(c)

\* The process is killed or loses its connection.
ClientKilled(c) ==
    /\ c \in Leavers
    /\ cl[c] \in {"auth", "reply", "ready"}
    /\ Exit(c)

----------------------------------------------------------------------------
(* handle_conn, serve_provider, serve_consumer                             *)

SrvGoto(c, s) == srv' = [srv EXCEPT ![c] = s]

\* server_handshake fails at its first step, sending the Challenge, and
\* handle_conn returns the error.
ServerHandshake(c) == inbox' = Delivered(c, "Challenge") /\ SrvGoto(c, "closed")

\* The first message is in; with a secret, server_handshake comes next.
SrvFirst(c) ==
    /\ srv[c] = "first"
    /\ IF ServerSecret
         THEN ServerHandshake(c)
         ELSE /\ UNCHANGED inbox
              /\ SrvGoto(c, IF c \in Providers THEN "check" ELSE "send_ok")
    /\ UNCHANGED <<cl, registry, relays>>

\* The client has gone before its first message was complete.
SrvDisconnected(c) ==
    /\ srv[c] = "first"
    /\ cl[c] = "gone"
    /\ SrvGoto(c, "closed")
    /\ UNCHANGED <<client, registry, relays>>

\* Mutation: a refused provider is told nothing and its control stays open.
BugCheckSilent(p) ==
    /\ srv[p] = "check"
    /\ SrvGoto(p, IF registry[Chan[p]] # NoProvider THEN "hb_blocked" ELSE "insert")
    /\ UNCHANGED <<client, registry, relays>>

\* serve_provider: contains_key ...
SrvCheck(p) ==
    /\ srv[p] = "check"
    /\ IF registry[Chan[p]] # NoProvider
         THEN inbox' = Delivered(p, "Error") /\ SrvGoto(p, "closed")
         ELSE UNCHANGED inbox /\ SrvGoto(p, "insert")
    /\ UNCHANGED <<cl, registry, relays>>

\* ... and insert are two operations on a map other tasks use meanwhile.
SrvInsert(p) ==
    /\ srv[p] = "insert"
    /\ registry' = [registry EXCEPT ![Chan[p]] = p]
    /\ SrvGoto(p, "send_ok")
    /\ UNCHANGED <<client, relays>>

SrvSendOk(c) ==
    /\ srv[c] = "send_ok"
    /\ inbox' = Delivered(c, "Ok")
    /\ SrvGoto(c, "serve")
    /\ UNCHANGED <<cl, registry, relays>>

\* A heartbeat tick. Nobody reads them, so one day the window is full and the
\* task stays inside send_server, deaf to the other branches of its select. A
\* real window takes hours to fill: by then a destination, which opens its
\* substream as soon as it is told Ok, has been served.
SrvHeartbeat(c) ==
    /\ srv[c] = "serve"
    /\ \/ /\ Len(inbox[c]) < CtrlWindow
          /\ inbox' = Delivered(c, "Heartbeat")
          /\ UNCHANGED srv
       \/ /\ Len(inbox[c]) >= CtrlWindow
          /\ c \in Consumers => rel[c] # "none" \/ substream[c] = "eof"
          /\ SrvGoto(c, "hb_blocked")
          /\ UNCHANGED inbox
    /\ UNCHANGED <<cl, registry, relays>>

\* Mutation: no DropGuard.
BugLeaveKeepsEntry(c) ==
    /\ srv[c] \in {"send_ok", "serve", "hb_blocked"}
    /\ cl[c] = "gone"
    /\ SrvGoto(c, "closed")
    /\ UNCHANGED <<client, registry, relays>>

\* Mutation: a task blocked in a heartbeat does not notice the client leave.
BugLeaveNotBlocked(c) ==
    /\ srv[c] \in {"send_ok", "serve"}
    /\ cl[c] = "gone"
    /\ SrvGoto(c, "closed")
    /\ registry' = IF c \in Providers THEN [registry EXCEPT ![Chan[c]] = NoProvider]
                                      ELSE registry
    /\ UNCHANGED <<client, relays>>

\* The client is gone: the read gives EOF, or a write fails. A provider's
\* DropGuard removes the entry under its channel id, whoever's it is.
SrvLeave(c) ==
    /\ srv[c] \in {"send_ok", "serve", "hb_blocked"}
    /\ cl[c] = "gone"
    /\ SrvGoto(c, "closed")
    /\ registry' = IF c \in Providers THEN [registry EXCEPT ![Chan[c]] = NoProvider]
                                      ELSE registry
    /\ UNCHANGED <<client, relays>>

\* serve_consumer accepts the substream: a relay if a permit is left, else the
\* substream is dropped.
SrvAcceptStream(d) ==
    /\ srv[d] = "serve"
    /\ substream[d] = "open" /\ rel[d] = "none"
    /\ IF permits > 0
         THEN /\ permits' = permits - 1
              /\ rel' = [rel EXCEPT ![d] = "lookup"]
              /\ UNCHANGED substream
         ELSE /\ substream' = [substream EXCEPT ![d] = "eof"]
              /\ UNCHANGED <<permits, rel>>
    /\ UNCHANGED <<client, srv, registry, relProv, backlog, taken>>

----------------------------------------------------------------------------
(* relay                                                                   *)

\* Mutation: the permit is forgotten instead of dropped.
BugRelayKeepsPermit(d) ==
    /\ rel' = [rel EXCEPT ![d] = "done"]
    /\ substream' = [substream EXCEPT ![d] = "eof"]
    /\ UNCHANGED <<client, srv, registry, permits, relProv, backlog, taken>>

\* Mutation: the permit is added back by hand and dropped as well.
BugRelayTwoPermits(d) ==
    /\ rel' = [rel EXCEPT ![d] = "done"]
    /\ substream' = [substream EXCEPT ![d] = "eof"]
    /\ permits' = permits + 2
    /\ UNCHANGED <<client, srv, registry, relProv, backlog, taken>>

\* The relay task ends: the consumer's substream is dropped, the permit too.
RelayEnds(d) ==
    /\ rel' = [rel EXCEPT ![d] = "done"]
    /\ substream' = [substream EXCEPT ![d] = "eof"]
    /\ permits' = permits + 1
    /\ UNCHANGED <<client, srv, registry, relProv, backlog, taken>>

\* CarrierPool::pick: the pool of a provider holds its one connection, whose
\* alive flag nothing clears.
Pick(pool) == pool

\* registry.get and pool.pick; no provider is an error at once.
RelayLookup(d) ==
    /\ rel[d] = "lookup"
    /\ registry[Chan[d]] # NoProvider
    /\ relProv' = [relProv EXCEPT ![d] = Pick(registry[Chan[d]])]
    /\ rel' = [rel EXCEPT ![d] = "open"]
    /\ UNCHANGED <<client, srv, registry, permits, substream, backlog, taken>>

RelayNoProvider(d) ==
    /\ rel[d] = "lookup"
    /\ registry[Chan[d]] = NoProvider
    /\ RelayEnds(d)

\* The provider picked may have left since; otherwise it gets a substream.
RelayOpen(d) ==
    /\ rel[d] = "open"
    /\ cl[relProv[d]] # "gone"
    /\ backlog' = [backlog EXCEPT ![relProv[d]] = Append(@, d)]
    /\ rel' = [rel EXCEPT ![d] = "copy"]
    /\ UNCHANGED <<client, srv, registry, permits, substream, relProv, taken>>

\* Mutation: the end of an accepted substream only is passed on.
BugEofAcceptedOnly(d) ==
    /\ rel[d] = "copy" /\ substream[d] = "open"
    /\ cl[relProv[d]] = "gone" /\ taken[relProv[d]] = d
    /\ substream' = [substream EXCEPT ![d] = "eof"]
    /\ UNCHANGED <<client, srv, registry, permits, rel, relProv, backlog, taken>>

\* copy_bidirectional meets EOF from the provider and shuts down the side
\* towards the consumer; the other direction goes on.
RelayEof(d) ==
    /\ rel[d] = "copy" /\ substream[d] = "open"
    /\ cl[relProv[d]] = "gone"
    /\ substream' = [substream EXCEPT ![d] = "eof"]
    /\ UNCHANGED <<client, srv, registry, permits, rel, relProv, backlog, taken>>

\* The marker cannot be read from a consumer that is gone, or no substream
\* opened to a provider that is gone. The copy ends with EOF from both sides,
\* or when a side that speaks, which takes an accepted substream, does so to
\* one that is gone.
RelayBroken(d) ==
    /\ \/ rel[d] = "lookup" /\ cl[d] = "gone"
       \/ rel[d] = "open" /\ cl[relProv[d]] = "gone"
       \/ /\ rel[d] = "copy" /\ "gone" \in {cl[d], cl[relProv[d]]}
          /\ {cl[d], cl[relProv[d]]} = {"gone"} \/ taken[relProv[d]] = d
    /\ RelayEnds(d)

----------------------------------------------------------------------------

Init ==
    /\ cl = [c \in Clients |-> "start"]
    /\ inbox = [c \in Clients |-> <<>>]
    /\ srv = [c \in Clients |-> "none"]
    /\ registry = [h \in Channels |-> NoProvider]
    /\ permits = MaxConns
    /\ substream = [d \in Consumers |-> "none"]
    /\ rel = [d \in Consumers |-> "none"]
    /\ relProv = [d \in Consumers |-> NoProvider]
    /\ backlog = [p \in Providers |-> <<>>]
    /\ taken = [p \in Providers |-> NoProvider]

ClientStep(c) ==
    \/ ClientConnect(c) \/ ClientAuth(c) \/ ClientAccepted(c) \/ ClientRefused(c)
    \/ SessionEnds(c)
    \/ c \in Consumers /\ ConsumerOpen(c)
    \/ c \in Providers /\ ProviderAccept(c)

SrvStep(c) ==
    \/ SrvFirst(c) \/ SrvDisconnected(c) \/ SrvSendOk(c) \/ SrvLeave(c)
    \/ c \in Providers /\ (SrvCheck(c) \/ SrvInsert(c))
    \/ c \in Consumers /\ SrvAcceptStream(c)

RelayStep(d) ==
    \/ RelayLookup(d) \/ RelayNoProvider(d) \/ RelayOpen(d) \/ RelayEof(d)
    \/ RelayBroken(d)

Next ==
    \/ \E c \in Clients : ClientStep(c) \/ ClientKilled(c) \/ SrvStep(c) \/ SrvHeartbeat(c)
    \/ \E d \in Consumers : RelayStep(d)

Spec == Init /\ [][Next]_vars

\* Every task and every client process keeps being scheduled and a dead
\* connection is noticed (TCP keepalive in shared.rs); nobody has to be killed
\* and no heartbeat has to tick.
FairSpec ==
    /\ Spec
    /\ \A c \in Clients : WF_vars(ClientStep(c)) /\ WF_vars(SrvStep(c))
    /\ \A d \in Consumers : WF_vars(RelayStep(d))

----------------------------------------------------------------------------
(* Properties.                                                             *)

TypeOK ==
    /\ cl \in [Clients -> ClStates]
    /\ inbox \in [Clients -> Seq(ServerMsg)]
    /\ srv \in [Clients -> SrvStates]
    /\ registry \in [Channels -> Providers \cup {NoProvider}]
    /\ permits \in 0 .. MaxConns
    /\ substream \in [Consumers -> {"none", "open", "eof"}]
    /\ rel \in [Consumers -> RelStates]
    /\ relProv \in [Consumers -> Providers \cup {NoProvider}]
    /\ backlog \in [Providers -> Seq(Consumers)]
    /\ taken \in [Providers -> Consumers \cup {NoProvider}]

Holding == {"send_ok", "serve", "hb_blocked"}

\* A registry entry always belongs to a provider whose server task is still
\* running, even when two providers raced for the channel id or their
\* DropGuards ran in an unlucky order: a relay never meets an entry that
\* nobody will ever remove.
NoDanglingEntry ==
    \A h \in Channels : registry[h] # NoProvider =>
        srv[registry[h]] \in Holding /\ Chan[registry[h]] = h

Relaying == {d \in Consumers : rel[d] \in {"lookup", "open", "copy"}}

\* Every permit taken from max_conns is held by exactly one running relay,
\* however the relay ends.
PermitsConserved == permits + Cardinality(Relaying) = MaxConns

\* proto.rs: Ok is "registration accepted". A source told Ok and still
\* connected is the one its channel id leads to, so a destination's relay
\* reaches it. It holds when no two sources name one channel.
OkMeansReachable ==
    \A p \in Providers : cl[p] = "ready" => registry[Chan[p]] = p

\* A client waiting for the server's answer gets one, or EOF: it never hangs
\* in connect_source or connect_destination.
Answered ==
    \A c \in Clients : cl[c] \in {"auth", "reply"} ~> cl[c] \notin {"auth", "reply"}

\* The channel id of a provider that has gone is free again, even if its task
\* is blocked in a heartbeat nobody reads.
EntryFreed ==
    \A p \in Providers : cl[p] = "gone" ~> registry[Chan[p]] # p

\* A relay outlives neither of its ends: a destination whose source has gone
\* returns, also the one that waits behind another and whose substream the source
\* never accepts; and the permit of a destination that has gone comes back, also
\* when its substream is in the source's backlog.
RelayReleased ==
    \A d \in Consumers :
        /\ (rel[d] = "copy" /\ cl[relProv[d]] = "gone") ~> cl[d] = "gone"
        /\ (d \in Relaying /\ cl[d] = "gone") ~> d \notin Relaying
=============================================================================
