------------------------------- MODULE Tunnel -------------------------------
(***************************************************************************)
(* A public tunnel of vendored-from-bore: serve_tunnel and serve_carrier on *)
(* the server, Client::new and Client::listen on the client, the carrier    *)
(* pool between them and the direct QUIC carriers beside them.             *)
(*                                                                         *)
(* Every client asks for the same port.  A client's carrier token and the   *)
(* nonce of its direct path are known by the client's name.  A tunnel uses  *)
(* extra carriers, a direct path whose renewals nobody answers (a public    *)
(* port) or one whose renewals are answered (a vhost subdomain; its server  *)
(* side is not in the repository and is taken to do the same).             *)
(***************************************************************************)
EXTENDS Integers, Sequences, FiniteSets

CONSTANTS
    Clients,     \* one tunnel each
    Kinds,       \* the kinds of tunnel to start from
    Extra,       \* CarrierToken.extra: carriers beside the control connection
    MaxConns,    \* bound: carrier connections in use at a time
    Target,      \* direct_udp_carriers
    MaxSlots,    \* bound: direct connections of a client in use at a time
    DirectCap,   \* the size of a DirectPool
    Visitors,    \* connections to the public port that have a permit
    MaxSignals,  \* bound: signals and offers that wait for a client's loop, of each sort
    MaxFaults    \* bound on broken connections and failed dials together

Conns == 1 .. MaxConns
Slots == 1 .. MaxSlots

ASSUME KindAssumption == Kinds \subseteq {"carriers", "public", "vhost"}
ASSUME SizeAssumption ==
    /\ Extra \in Nat \ {0} /\ Target \in Nat \ {0} /\ DirectCap \in Nat
    /\ MaxSignals \in Nat /\ MaxConns \in Nat /\ MaxSlots \in Nat /\ MaxFaults \in Nat
ASSUME ClientAssumption == "none" \notin Clients

VARIABLES
    kind, main,                      \* options; control connections that are up
    cli, srv, bound,                 \* both ends of a tunnel; who has the port
    token, con, alive, queue, pool,  \* pending_carriers and the carrier pools
    live, loaded, need, inflight,    \* maybe_redial_carriers
    reg, nonce, quic,                \* public_udp_registry, pending_public_udp; QUIC
    dlive, renews, ups, sleep, offers,   \* the client's direct carriers
    vis, faults

end_vars  == <<cli, srv, bound>>
pool_vars == <<token, con, alive, queue, pool>>
dial_vars == <<live, loaded, need, inflight>>
quic_vars == <<reg, nonce, quic>>
dir_vars  == <<dlive, renews, ups, sleep, offers>>
vars == <<kind, main, end_vars, pool_vars, dial_vars, quic_vars, dir_vars, vis, faults>>

Main     == 0           \* the control connection as a member of its pool
FreeConn == [of |-> "none", net |-> FALSE, pump |-> "off", task |-> "off"]
FreeQuic == [cl |-> "off", sv |-> "off", at |-> "none", late |-> FALSE]
NoVisit  == [st |-> "none", of |-> "none", entry |-> "none", to |-> "none", late |-> FALSE]
Direct   == kind # "carriers"

\* A connection whose two tasks have ended.
Reaped(r) == IF r.pump = "off" /\ r.task = "off" THEN FreeConn ELSE r

Init ==
    /\ kind \in Kinds /\ main = Clients
    /\ cli = [c \in Clients |-> "new"] /\ srv = [c \in Clients |-> "new"] /\ bound = "none"
    /\ token = {} /\ con = [k \in Conns |-> FreeConn] /\ alive = {}
    /\ queue = [c \in Clients |-> <<>>] /\ pool = [c \in Clients |-> {}]
    /\ live = [c \in Clients |-> 0] /\ loaded = [c \in Clients |-> -1]
    /\ need = [c \in Clients |-> 0] /\ inflight = [c \in Clients |-> FALSE]
    /\ reg = "none" /\ nonce = "none" /\ quic = [c \in Clients |-> [d \in Slots |-> FreeQuic]]
    /\ dlive = [c \in Clients |-> 0] /\ renews = [c \in Clients |-> 0]
    /\ ups = [c \in Clients |-> 0] /\ sleep = [c \in Clients |-> FALSE]
    /\ offers = [c \in Clients |-> 0]
    /\ vis = [v \in Visitors |-> NoVisit] /\ faults = 0

Fault == faults < MaxFaults /\ faults' = faults + 1

-----------------------------------------------------------------------------
(* The server's end: serve_tunnel.                                         *)

\* Mutant of SrvBind: the port of a client that is gone is shared with its tunnel.
BugRebind(c) ==
    /\ srv[c] = "new" /\ c \in main /\ bound \notin main
    /\ bound' = c /\ srv' = [srv EXCEPT ![c] = "hello"]
    /\ UNCHANGED <<kind, main, cli, pool_vars, dial_vars, quic_vars, dir_vars, vis, faults>>

\* create_listener binds the port asked for.
PortFree == bound = "none"

\* create_listener, then Hello; a port in use is answered with an Error.
SrvBind(c) ==
    /\ srv[c] = "new"
    /\ IF PortFree /\ c \in main
       THEN bound' = c /\ srv' = [srv EXCEPT ![c] = "hello"] /\ UNCHANGED <<main, cli>>
       ELSE /\ srv' = [srv EXCEPT ![c] = "gone"] /\ cli' = [cli EXCEPT ![c] = "gone"]
            /\ main' = main \ {c} /\ UNCHANGED bound
    /\ UNCHANGED <<kind, pool_vars, dial_vars, quic_vars, dir_vars, vis, faults>>

\* The token goes into pending_carriers, ...
SrvToken(c) ==
    /\ srv[c] = "hello" /\ ~Direct
    /\ token' = token \cup {c} /\ srv' = [srv EXCEPT ![c] = "token"]
    /\ pool' = [pool EXCEPT ![c] = {Main}]
    /\ UNCHANGED <<kind, main, cli, bound, con, alive, queue, dial_vars, quic_vars, dir_vars, vis,
                   faults>>

\* ... and then to the client.  Its guard is made after that: when the send fails
\* the token stays.
SrvOffer(c) ==
    /\ srv[c] = "token"
    /\ srv' = [srv EXCEPT ![c] = IF c \in main THEN "serve" ELSE "left"]
    /\ pool' = [pool EXCEPT ![c] = IF c \in main THEN @ ELSE {}]
    /\ UNCHANGED <<kind, main, cli, bound, token, con, alive, queue, dial_vars, quic_vars, dir_vars,
                   vis, faults>>

\* The direct path: an entry and a nonce under the port, and the offer.
SrvRegister(c) ==
    /\ srv[c] = "hello" /\ Direct
    /\ reg' = c /\ nonce' = c
    /\ offers' = [offers EXCEPT ![c] = IF c \in main THEN @ + 1 ELSE @]
    /\ pool' = [pool EXCEPT ![c] = {Main}]
    /\ srv' = [srv EXCEPT ![c] = "serve"]
    /\ UNCHANGED <<kind, main, cli, bound, token, con, alive, queue, dial_vars, quic,
                   dlive, renews, ups, sleep, vis, faults>>

\* A carrier that joined: push, up to the effective size, dead members counted.
SrvPush(c) ==
    /\ srv[c] = "serve" /\ queue[c] # <<>>
    /\ queue' = [queue EXCEPT ![c] = Tail(@)]
    /\ pool' = [pool EXCEPT ![c] = IF Cardinality(@) < Extra + 1 THEN @ \cup {Head(queue[c])} ELSE @]
    /\ UNCHANGED <<kind, main, end_vars, token, con, alive, dial_vars, quic_vars, dir_vars, vis,
                   faults>>

\* Mutant of SrvLeave: the tunnel lives as long as one of its carriers.
BugLeaveIdle(c) ==
    /\ srv[c] = "serve" /\ c \notin main /\ pool[c] \cap alive = {}
    /\ srv' = [srv EXCEPT ![c] = "left"]
    /\ reg' = "none" /\ nonce' = "none" /\ token' = token \ {c}
    /\ queue' = [queue EXCEPT ![c] = <<>>] /\ pool' = [pool EXCEPT ![c] = {}]
    /\ UNCHANGED <<kind, main, cli, bound, con, alive, quic, dial_vars, dir_vars, vis, faults>>

\* A heartbeat cannot be sent: the guards go first, PublicDeregister and then
\* TokenGuard; a handshake that has passed its check is still under way.
SrvLeave(c) ==
    /\ srv[c] = "serve" /\ c \notin main
    /\ srv' = [srv EXCEPT ![c] = "left"]
    /\ IF Direct THEN reg' = "none" /\ nonce' = "none" ELSE UNCHANGED <<reg, nonce>>
    /\ token' = token \ {c}
    /\ quic' = [quic EXCEPT ![c] =
                  [d \in Slots |-> [quic[c][d] EXCEPT !.late = @ \/ quic[c][d].sv = "checked"]]]
    /\ queue' = [queue EXCEPT ![c] = <<>>] /\ pool' = [pool EXCEPT ![c] = {}]
    /\ UNCHANGED <<kind, main, cli, bound, con, alive, dial_vars, dir_vars, vis, faults>>

\* ... and last the listener, which frees the port.
SrvClosePort(c) ==
    /\ srv[c] = "left"
    /\ srv' = [srv EXCEPT ![c] = "gone"] /\ bound' = "none"
    /\ UNCHANGED <<kind, main, cli, pool_vars, dial_vars, quic_vars, dir_vars, vis, faults>>

-----------------------------------------------------------------------------
(* serve_carrier: the server's end of an extra connection.                 *)

\* The token is known and its tunnel takes carriers: deliver and hold.
SrvJoin(k) ==
    /\ con[k].task = "asked"
    /\ LET c == con[k].of IN
       IF c \in token /\ srv[c] \in {"token", "serve"}
       THEN /\ con' = [con EXCEPT ![k].task = "held"] /\ alive' = alive \cup {k}
            /\ queue' = [queue EXCEPT ![c] = Append(@, k)]
       ELSE /\ con' = [con EXCEPT ![k] = Reaped([@ EXCEPT !.task = "off", !.net = FALSE])] /\ UNCHANGED <<alive, queue>>
    /\ UNCHANGED <<kind, main, end_vars, token, pool, dial_vars, quic_vars, dir_vars, vis, faults>>

\* The connection, or the client's end of its control substream, is gone: alive is
\* cleared, the pool finds out at its next pick.
SrvCarrierEnds(k) ==
    /\ con[k].task = "held" /\ (~con[k].net \/ con[k].pump = "off")
    /\ con' = [con EXCEPT ![k] = Reaped([@ EXCEPT !.task = "off"])] /\ alive' = alive \ {k}
    /\ UNCHANGED <<kind, main, end_vars, token, queue, pool, dial_vars, quic_vars, dir_vars, vis,
                   faults>>

-----------------------------------------------------------------------------
(* The client's end: Client::new, Client::listen, maybe_redial_carriers.   *)

\* Hello and, with carriers, the token.
CliStart(c) ==
    /\ cli[c] = "new" /\ srv[c] = "serve" /\ c \in main
    /\ cli' = [cli EXCEPT ![c] = IF Direct THEN "listen" ELSE "open"]
    /\ need' = [need EXCEPT ![c] = IF Direct THEN 0 ELSE Extra]
    /\ UNCHANGED <<kind, main, srv, bound, pool_vars, live, loaded, inflight, quic_vars, dir_vars,
                   vis, faults>>

InUse(k) == con[k] # FreeConn \/ k \in alive
            \/ (\E c \in Clients : k \in pool[c] \/ \E i \in 1 .. Len(queue[c]) : queue[c][i] = k)

\* open_carrier: dial the server and send JoinCarrier.
Dial(c, pump) ==
    \E k \in Conns :
        /\ ~InUse(k) /\ \A x \in 1 .. k - 1 : InUse(x)
        /\ con' = [con EXCEPT ![k] = [of |-> c, net |-> TRUE, pump |-> pump, task |-> "asked"]]

\* The extra carriers one after the other; one that fails is left out.
CliOpen(c) ==
    /\ cli[c] = "open" /\ need[c] > 0
    /\ need' = [need EXCEPT ![c] = @ - 1]
    /\ \/ Dial(c, "held") /\ UNCHANGED faults
       \/ Fault /\ UNCHANGED con
    /\ UNCHANGED <<kind, main, end_vars, token, alive, queue, pool, live, loaded, inflight, quic_vars,
                   dir_vars, vis>>

\* listen: a pump for every carrier that is open.
CliListen(c) ==
    /\ cli[c] = "open" /\ need[c] = 0
    /\ LET held == {k \in Conns : con[k].of = c /\ con[k].pump = "held"} IN
       /\ live' = [live EXCEPT ![c] = Cardinality(held)]
       /\ con' = [k \in Conns |-> IF k \in held THEN [con[k] EXCEPT !.pump = "run"] ELSE con[k]]
    /\ cli' = [cli EXCEPT ![c] = "listen"]
    /\ UNCHANGED <<kind, main, srv, bound, token, alive, queue, pool, loaded, need, inflight,
                   quic_vars, dir_vars, vis, faults>>

\* The control connection ended: listen returns.  Pumps, re-dials and direct
\* carriers are tasks of their own and go on.
CliEnds(c) ==
    /\ cli[c] \in {"new", "listen"} /\ c \notin main
    /\ cli' = [cli EXCEPT ![c] = "gone"] /\ loaded' = [loaded EXCEPT ![c] = -1]
    /\ renews' = [renews EXCEPT ![c] = 0] /\ ups' = [ups EXCEPT ![c] = 0]
    /\ sleep' = [sleep EXCEPT ![c] = FALSE] /\ offers' = [offers EXCEPT ![c] = 0]
    /\ UNCHANGED <<kind, main, srv, bound, pool_vars, live, need, inflight, quic_vars, dlive, vis,
                   faults>>

\* Mutant of PumpStops: the counter keeps a pump that has ended.
BugUncounted(k) ==
    /\ con' = [con EXCEPT ![k] = Reaped([@ EXCEPT !.pump = "off"])]
    /\ UNCHANGED <<kind, main, end_vars, token, alive, queue, pool, dial_vars, quic_vars,
                   dir_vars, vis, faults>>

PumpStops(k) ==
    /\ con' = [con EXCEPT ![k] = Reaped([@ EXCEPT !.pump = "off"])]
    /\ live' = [live EXCEPT ![con[k].of] = @ - 1]
    /\ UNCHANGED <<kind, main, end_vars, token, alive, queue, pool, loaded, need, inflight, quic_vars,
                   dir_vars, vis, faults>>

\* The pump of a connection that is gone ...
PumpEnds(k) == con[k].pump = "run" /\ ~con[k].net /\ PumpStops(k)

\* ... or on which a visitor's substream comes in after listen, which would take it,
\* has returned.
PumpUnheard(k) ==
    /\ con[k].pump = "run" /\ con[k].task = "held" /\ cli[con[k].of] = "gone"
    /\ PumpStops(k)

\* carrier_redial ticks: the counter is read, ...
RedialLoad(c) ==
    /\ cli[c] = "listen" /\ ~Direct /\ loaded[c] = -1 /\ live[c] < Extra
    /\ loaded' = [loaded EXCEPT ![c] = live[c]]
    /\ UNCHANGED <<kind, main, end_vars, pool_vars, live, need, inflight, quic_vars, dir_vars, vis,
                   faults>>

\* Mutant of RedialSwap: batches are stacked.
BugRedialStacks(c) ==
    /\ loaded[c] >= 0
    /\ need' = [need EXCEPT ![c] = @ + Extra - loaded[c]]
    /\ inflight' = [inflight EXCEPT ![c] = TRUE]
    /\ loaded' = [loaded EXCEPT ![c] = -1]
    /\ UNCHANGED <<kind, main, end_vars, pool_vars, live, quic_vars, dir_vars, vis, faults>>

\* ... and then inflight is taken, unless a batch is under way.
RedialSwap(c) ==
    /\ loaded[c] >= 0
    /\ need' = [need EXCEPT ![c] = IF inflight[c] THEN @ ELSE Extra - loaded[c]]
    /\ inflight' = [inflight EXCEPT ![c] = TRUE]
    /\ loaded' = [loaded EXCEPT ![c] = -1]
    /\ UNCHANGED <<kind, main, end_vars, pool_vars, live, quic_vars, dir_vars, vis, faults>>

\* The batch: a dial that fails ends it.
RedialDial(c) ==
    /\ inflight[c] /\ need[c] > 0
    /\ \/ /\ Dial(c, "run") /\ UNCHANGED faults
          /\ live' = [live EXCEPT ![c] = @ + 1] /\ need' = [need EXCEPT ![c] = @ - 1]
       \/ Fault /\ need' = [need EXCEPT ![c] = 0] /\ UNCHANGED <<con, live>>
    /\ UNCHANGED <<kind, main, end_vars, token, alive, queue, pool, loaded, inflight, quic_vars,
                   dir_vars, vis>>

RedialDone(c) ==
    /\ inflight[c] /\ need[c] = 0
    /\ inflight' = [inflight EXCEPT ![c] = FALSE]
    /\ UNCHANGED <<kind, main, end_vars, pool_vars, live, loaded, need, quic_vars, dir_vars, vis,
                   faults>>

-----------------------------------------------------------------------------
(* Direct carriers: spawn_direct, vhost_connect and the renewals on the     *)
(* client, the QUIC endpoint of Server::listen and vhost_server_handshake.  *)

\* The slots for the shortfall: those not in use, from the lowest.
Shortfall(c) ==
    {d \in Slots : /\ quic[c][d] = FreeQuic
                   /\ Cardinality({x \in 1 .. d : quic[c][x] = FreeQuic}) <= Target - dlive[c]}

\* An offer: reserve what is missing and dial, or ask again when the server's
\* name cannot be resolved.
DirOffer(c) ==
    /\ cli[c] = "listen" /\ offers[c] > 0
    /\ offers' = [offers EXCEPT ![c] = @ - 1]
    /\ \/ LET D == Shortfall(c) IN
             /\ quic' = [quic EXCEPT ![c] =
                           [d \in Slots |-> IF d \in D THEN [FreeQuic EXCEPT !.cl = "dial"] ELSE @[d]]]
             /\ dlive' = [dlive EXCEPT ![c] = @ + Cardinality(D)]
             /\ UNCHANGED <<renews, faults>>
       \/ Fault /\ renews[c] < MaxSignals /\ renews' = [renews EXCEPT ![c] = @ + 1] /\ UNCHANGED <<quic, dlive>>
    /\ UNCHANGED <<kind, main, end_vars, pool_vars, dial_vars, reg, nonce, ups, sleep, vis>>

\* The slot is released and a renewal asked for.
Release(c, d) ==
    /\ quic' = [quic EXCEPT ![c][d].cl = "off"]
    /\ dlive' = [dlive EXCEPT ![c] = @ - 1]
    /\ renews[c] < MaxSignals
    /\ renews' = [renews EXCEPT ![c] = IF cli[c] = "listen" THEN @ + 1 ELSE @]

\* Mutant of DirCheck: any nonce under the port will do.
BugAnyNonce(c, d) ==
    /\ quic[c][d].cl = "dial" /\ quic[c][d].sv = "off" /\ nonce # "none"
    /\ quic' = [quic EXCEPT ![c][d].sv = "checked"]
    /\ UNCHANGED <<kind, main, end_vars, pool_vars, dial_vars, reg, nonce, dir_vars, vis, faults>>

\* The server compares the token with that of the nonce under the port now.
DirCheck(c, d) ==
    /\ quic[c][d].cl = "dial" /\ quic[c][d].sv = "off" /\ nonce = c
    /\ quic' = [quic EXCEPT ![c][d].sv = "checked"]
    /\ UNCHANGED <<kind, main, end_vars, pool_vars, dial_vars, reg, nonce, dir_vars, vis, faults>>

\* Rejected, timed out, or broken.
DirFails(c, d) ==
    /\ quic[c][d].cl = "dial" /\ ((quic[c][d].sv = "off" /\ nonce # c) \/ faults < MaxFaults)
    /\ faults' = IF quic[c][d].sv = "off" /\ nonce # c THEN faults ELSE faults + 1
    /\ Release(c, d)
    /\ UNCHANGED <<kind, main, end_vars, pool_vars, dial_vars, reg, nonce, ups, sleep, offers, vis>>

\* Mutant of DirUp: the slot is released after the dial, not after the accept loop.
BugReleaseEarly(c, d) ==
    /\ quic[c][d].cl = "dial" /\ quic[c][d].sv # "off" /\ renews[c] < MaxSignals
    /\ quic' = [quic EXCEPT ![c][d].cl = "up"]
    /\ dlive' = [dlive EXCEPT ![c] = @ - 1] /\ renews' = [renews EXCEPT ![c] = @ + 1]
    /\ UNCHANGED <<kind, main, end_vars, pool_vars, dial_vars, reg, nonce, ups, sleep, offers,
                   vis, faults>>

\* The server's reply is in: the carrier is up.
DirUp(c, d) ==
    /\ quic[c][d].cl = "dial" /\ quic[c][d].sv # "off" /\ ups[c] < MaxSignals
    /\ quic' = [quic EXCEPT ![c][d].cl = "up"]
    /\ ups' = [ups EXCEPT ![c] = IF cli[c] = "listen" THEN @ + 1 ELSE @]
    /\ UNCHANGED <<kind, main, end_vars, pool_vars, dial_vars, reg, nonce, dlive, renews, sleep,
                   offers, vis, faults>>

InPool(e) == {x \in Clients \X Slots : quic[x[1]][x[2]].sv = "in" /\ quic[x[1]][x[2]].at = e}

\* The server looks the entry up again, after the handshake, and installs the
\* connection there; without an entry, or with a full pool, it is closed.
DirInstall(c, d) ==
    /\ quic[c][d].sv = "checked"
    /\ quic' = [quic EXCEPT ![c][d] =
                  IF reg # "none" /\ Cardinality(InPool(reg)) < DirectCap
                  THEN [@ EXCEPT !.sv = "in", !.at = reg]
                  ELSE [@ EXCEPT !.sv = "off", !.late = FALSE]]
    /\ UNCHANGED <<kind, main, end_vars, pool_vars, dial_vars, reg, nonce, dir_vars, vis, faults>>

\* An established carrier ends: closed by the server, or broken.
DirEnds(c, d) ==
    /\ quic[c][d].cl = "up" /\ (quic[c][d].sv = "off" \/ faults < MaxFaults)
    /\ faults' = IF quic[c][d].sv = "off" THEN faults ELSE faults + 1
    /\ Release(c, d)
    /\ UNCHANGED <<kind, main, end_vars, pool_vars, dial_vars, reg, nonce, ups, sleep, offers, vis>>

\* ... and the server's monitor looks the entry up once more and removes the id from
\* the pool that is there now.  In the pool of a later tunnel the same id may be
\* another connection: that one stays open, but in no pool.
DirRemove(c, d) ==
    /\ quic[c][d].cl = "off" /\ quic[c][d].sv \in {"in", "out"}
    /\ \/ quic' = [quic EXCEPT ![c][d] = FreeQuic]
       \/ /\ reg \notin {"none", quic[c][d].at}
          /\ \E x \in InPool(reg) :
                quic' = [quic EXCEPT ![c][d] = FreeQuic, ![x[1]][x[2]].sv = "out"]
    /\ UNCHANGED <<kind, main, end_vars, pool_vars, dial_vars, reg, nonce, dir_vars, vis, faults>>

\* listen: a renewal signal starts the backoff sleep, ...
LoopRenew(c) ==
    /\ cli[c] = "listen" /\ renews[c] > 0
    /\ renews' = [renews EXCEPT ![c] = @ - 1] /\ sleep' = [sleep EXCEPT ![c] = TRUE]
    /\ UNCHANGED <<kind, main, end_vars, pool_vars, dial_vars, quic_vars, dlive, ups, offers, vis,
                   faults>>

\* ... a carrier that came up cancels it, with every signal that waits, ...
LoopUp(c) ==
    /\ cli[c] = "listen" /\ ups[c] > 0
    /\ ups' = [ups EXCEPT ![c] = @ - 1]
    /\ sleep' = [sleep EXCEPT ![c] = FALSE] /\ renews' = [renews EXCEPT ![c] = 0]
    /\ UNCHANGED <<kind, main, end_vars, pool_vars, dial_vars, quic_vars, dlive, offers, vis, faults>>

\* ... and at its end the renewal is sent.  serve_tunnel does not read it; the
\* vhost server answers with an offer.
LoopSleep(c) ==
    /\ cli[c] = "listen" /\ sleep[c] /\ offers[c] < MaxSignals
    /\ sleep' = [sleep EXCEPT ![c] = FALSE]
    /\ offers' = [offers EXCEPT ![c] = IF kind = "vhost" /\ c \in main /\ srv[c] = "serve"
                                       THEN @ + 1 ELSE @]
    /\ UNCHANGED <<kind, main, end_vars, pool_vars, dial_vars, quic_vars, dlive, renews, ups, vis,
                   faults>>

-----------------------------------------------------------------------------
(* A visitor: accept in serve_tunnel and the task it spawns.               *)

\* A permit (without one nothing happens) and a live carrier of the pool, which
\* is pruned.  Without a direct path the visit ends as a relayed one.
VisAccept(v) ==
    /\ vis[v] = NoVisit
    /\ \E c \in Clients :
          /\ bound = c /\ srv[c] = "serve"
          /\ pool' = [pool EXCEPT ![c] = @ \cap (alive \cup {Main})]
          /\ vis' = [vis EXCEPT ![v] = IF Direct THEN [NoVisit EXCEPT !.st = "edge", !.of = c, !.entry = reg]
                                       ELSE NoVisit]
    /\ UNCHANGED <<kind, main, end_vars, token, con, alive, queue, dial_vars, quic_vars, dir_vars,
                   faults>>

\* The entry's direct pool first, ...
VisDirect(v) ==
    /\ vis[v].st = "edge" /\ vis[v].entry # "none"
    /\ \E x \in InPool(vis[v].entry) :
          /\ quic[x[1]][x[2]].cl # "off"
          /\ vis' = [vis EXCEPT ![v].st = "direct", ![v].to = x[1],
                                ![v].late = quic[x[1]][x[2]].late]
    /\ UNCHANGED <<kind, main, end_vars, pool_vars, dial_vars, quic_vars, dir_vars, faults>>

\* ... the relay when there is none or its stream cannot be opened; the picked
\* carrier may be gone by now.  Either way the visit changes nothing here.
VisRelay(v) ==
    /\ vis[v].st = "edge"
    /\ \/ InPool(vis[v].entry) = {}
       \/ \E x \in InPool(vis[v].entry) : quic[x[1]][x[2]].cl = "off"
    /\ vis' = [vis EXCEPT ![v] = NoVisit]
    /\ UNCHANGED <<kind, main, end_vars, pool_vars, dial_vars, quic_vars, dir_vars, faults>>

\* The direct copy ends.
VisEnds(v) ==
    /\ vis[v].st = "direct"
    /\ vis' = [vis EXCEPT ![v] = NoVisit]
    /\ UNCHANGED <<kind, main, end_vars, pool_vars, dial_vars, quic_vars, dir_vars, faults>>

-----------------------------------------------------------------------------
(* The network.                                                            *)

BreakMain(c) ==
    /\ c \in main /\ Fault /\ main' = main \ {c}
    /\ UNCHANGED <<kind, end_vars, pool_vars, dial_vars, quic_vars, dir_vars, vis>>

BreakConn(k) ==
    /\ con[k].net /\ Fault /\ con' = [con EXCEPT ![k].net = FALSE]
    /\ UNCHANGED <<kind, main, end_vars, token, alive, queue, pool, dial_vars, quic_vars, dir_vars,
                   vis>>

-----------------------------------------------------------------------------
SrvStep(c) == SrvBind(c) \/ SrvToken(c) \/ SrvOffer(c) \/ SrvRegister(c) \/ SrvPush(c)
              \/ SrvLeave(c) \/ SrvClosePort(c)
CarrierStep(k) == SrvJoin(k) \/ SrvCarrierEnds(k) \/ PumpEnds(k)
CliStep(c) == CliStart(c) \/ CliOpen(c) \/ CliListen(c) \/ CliEnds(c)
RedialTick(c) == RedialLoad(c) \/ RedialSwap(c)
RedialBatch(c) == RedialDial(c) \/ RedialDone(c)
DirStep(c) == DirOffer(c) \/ \E d \in Slots : DirCheck(c, d) \/ DirFails(c, d) \/ DirUp(c, d)
                                            \/ DirInstall(c, d) \/ DirEnds(c, d) \/ DirRemove(c, d)
LoopStep(c) == LoopRenew(c) \/ LoopUp(c) \/ LoopSleep(c)
VisStep(v) == VisAccept(v) \/ VisDirect(v) \/ VisRelay(v) \/ VisEnds(v)

Next ==
    \/ \E c \in Clients : \/ SrvStep(c) \/ CliStep(c) \/ RedialTick(c) \/ RedialBatch(c)
                          \/ DirStep(c) \/ LoopStep(c) \/ BreakMain(c)
    \/ \E k \in Conns : CarrierStep(k) \/ PumpUnheard(k) \/ BreakConn(k)
    \/ \E v \in Visitors : VisStep(v)

Spec == Init /\ [][Next]_vars

\* Every task runs when it can; visitors and the network promise nothing.  An
\* interval's tick is never late for ever, whatever else the select! has ready.
Fairness ==
    /\ \A c \in Clients : WF_vars(SrvStep(c)) /\ WF_vars(CliStep(c)) /\ WF_vars(RedialTick(c))
                           /\ WF_vars(RedialBatch(c))
    /\ \A k \in Conns : WF_vars(CarrierStep(k))

FairSpec == Spec /\ Fairness

-----------------------------------------------------------------------------
(* Properties.                                                             *)

\* While a tunnel with a direct path serves, the entry and the nonce under its
\* port are its own: no end of an earlier tunnel on the port (PublicDeregister
\* removes by key) takes them away.
OwnEntry == \A c \in Clients : srv[c] = "serve" /\ Direct => reg = c /\ nonce = c

\* A client never has more direct carriers established or being established
\* than direct_udp_carriers, over any sequence of offers, drops and renewals.
DirectBounded ==
    \A c \in Clients : Cardinality({d \in Slots : quic[c][d].cl # "off"}) <= Target

\* A visitor that uses the direct path reaches the client whose port it came to.
\* The one exception: a connection whose tunnel was deregistered between its
\* token check and its installation (the registry is looked up by key again).
DirectOwner ==
    \A v \in Visitors : vis[v].st = "direct" => vis[v].to = vis[v].of \/ vis[v].late

Pumps(c) == {k \in Conns : con[k].of = c /\ con[k].pump = "run"}

\* A client never has more than twice the extra carriers it asked for, although the
\* counter is read before inflight is taken and a batch may end in between.
DialsBounded == \A c \in Clients : Cardinality(Pumps(c)) <= 2 * Extra

\* The carriers of a client that visitors are given, and those that push refused,
\* which serve_carrier holds open beside the pool.
Waiting(c) == {queue[c][i] : i \in 1 .. Len(queue[c])}
Usable(c)  == pool[c] \cap {k \in alive : con[k].of = c /\ con[k].net}
Refused(c) == {k \in alive : con[k].of = c /\ con[k].net} \ (pool[c] \cup Waiting(c))

\* As long as the control connection lasts, every carrier that was lost is replaced
\* at the server by one that visitors are given or that found the pool full: no failed
\* dial, late pump, batch in flight or join ends the re-dialing.
Redialed ==
    \A c \in Clients :
        cli[c] = "listen" /\ ~Direct ~>
            Cardinality(Usable(c) \cup Refused(c)) >= Extra \/ cli[c] = "gone"

\* The port of a client that is gone becomes free, carriers it still has or not.
PortFreed == \A c \in Clients : c \notin main ~> bound # c
=============================================================================
