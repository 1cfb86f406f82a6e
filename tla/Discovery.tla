----------------------------- MODULE Discovery ------------------------------
(***************************************************************************)
(* How a peer of vendored-from-bore/holepunch.rs learns the addresses it     *)
(* offers for a direct path: the chain of STUN servers, the probes, the     *)
(* candidates, and the diagnosis of `bore test-udp`.                        *)
(*                                                                         *)
(* A STUN server is its configured name.  nat gives the address each server *)
(* sees for the peer's socket.  A binding request carries the transaction   *)
(* id of its probe; its answer may come at any later time, twice or never.  *)
(***************************************************************************)
EXTENDS Integers, Sequences, FiniteSets, SequencesExt

CONSTANTS
    PublicStun,    \* PUBLIC_STUN
    OwnStun,       \* bore_stun_target of the server's endpoint
    Lookup,        \* the addresses DNS has for a name, [ip, v6], in its order
    Nats,          \* what the NATs in front of the peer may do
    Overrides,     \* values of --stun-server; "none"
    Hints,         \* servers the other peer may have selected; "none"
    Local,         \* primary_local_ip and the socket's port
    Routers,       \* addresses a UPnP router may map
    PredictRange,  \* PREDICT_RANGE
    MaxPort,       \* 65535
    Attempts       \* requests of a discover_reflexive

Servers  == DOMAIN Lookup
StunSpec == [name : Servers, src : {"override", "hint", "public", "own"}]
Address  == [ip : STRING, port : 0 .. MaxPort]

ASSUME StunAssumption ==
    /\ PredictRange \in Nat /\ MaxPort \in Nat /\ Attempts \in Nat \ {0}
    /\ PublicStun \in Seq(Servers) /\ OwnStun \in Servers \ Range(PublicStun)
    /\ Overrides \subseteq Servers \cup {"none"} /\ Hints \subseteq Servers \cup {"none"}
    /\ Nats \subseteq [Servers -> Address] /\ Local \in Address /\ Routers \subseteq Address

VARIABLES
    smode, sphase,        \* "live" or "diagnose"; where the discovery is
    specs, targets,       \* names to resolve; StunTargets to probe
    att, tx, waiting,     \* discover_reflexive: attempt, txid, whether in recv_from
    nat, net,             \* the NATs; answers that may still arrive
    sel, cands,           \* SelectedStun; candidates with their kinds
    obs, verdict          \* diagnose: StunObservations, NatClass

stun_vars == <<smode, sphase, specs, targets, att, tx, waiting, nat, net, sel, cands, obs, verdict>>

NoSel == [name |-> "none", addr |-> Local]

StunInit ==
    /\ smode = "live" /\ sphase = "idle" /\ specs = <<>> /\ targets = <<>>
    /\ att = 0 /\ tx = 0 /\ waiting = FALSE /\ nat = <<>> /\ net = {}
    /\ sel = NoSel /\ cands = <<>> /\ obs = <<>> /\ verdict = "none"

-----------------------------------------------------------------------------
(* The chain. *)

PushUnique(s, spec) == IF \E i \in DOMAIN s : s[i].name = spec.name THEN s ELSE Append(s, spec)

Given(name, src) == IF name = "none" THEN <<>> ELSE <<[name |-> name, src |-> src]>>
PublicSpecs == [i \in DOMAIN PublicStun |-> [name |-> PublicStun[i], src |-> "public"]]

\* live_stun_target_specs_with_hint: an override stands alone; else the other peer's
\* choice, the public servers, and the bore server's own last.
LiveSpecs(over, hint) ==
    LET all == Given(hint, "hint") \o PublicSpecs \o Given(OwnStun, "own")
        chain[n \in 0 .. Len(all)] ==
          IF n = 0 THEN <<>> ELSE PushUnique(chain[n - 1], all[n])
    IN IF over # "none" THEN Given(over, "override") ELSE chain[Len(all)]

\* diagnose: the public servers, --stun-server, the responder of the --to server.
DiagnoseSpecs(over, to) == PublicSpecs \o Given(over, "override") \o Given(to, "own")

\* resolve_stun_target takes the first IPv4 address, else the last.
PreferV4(all) ==
    LET v4 == SelectSeq(all, LAMBDA a : ~a.v6) IN IF v4 # <<>> THEN Head(v4) ELSE Last(all)

\* probe_one takes the first address.
Resolved(spec) ==
    IF smode = "diagnose" /\ spec.src # "own" THEN Head(Lookup[spec.name])
                                              ELSE PreferV4(Lookup[spec.name])

StunBegin(mode) ==
    /\ sphase = "idle"
    /\ smode' = mode /\ sphase' = "resolve"
    /\ nat' \in Nats
    /\ \E over \in Overrides, hint \in Hints, to \in {"none", OwnStun} :
         specs' = IF mode = "live" THEN LiveSpecs(over, hint) ELSE DiagnoseSpecs(over, to)
    /\ UNCHANGED <<targets, att, tx, waiting, net, sel, cands, obs, verdict>>

\* A live discovery resolves the whole chain and then probes, a diagnosis one name at a
\* time.  A name that does not resolve is passed over.
StunResolve ==
    /\ sphase = "resolve" /\ specs # <<>>
    /\ specs' = Tail(specs)
    /\ \E found \in BOOLEAN :
         /\ targets' = IF found
                       THEN Append(targets, [spec |-> Head(specs), addr |-> Resolved(Head(specs))])
                       ELSE targets
         /\ sphase' = IF specs' = <<>> \/ (smode = "diagnose" /\ found) THEN "probe" ELSE "resolve"
    /\ UNCHANGED <<smode, att, tx, waiting, nat, net, sel, cands, obs, verdict>>

-----------------------------------------------------------------------------
(* discover_reflexive. *)

\* On to the next target, or the next name.
NextTarget ==
    /\ targets' = Tail(targets) /\ att' = 0 /\ waiting' = FALSE
    /\ sphase' = IF targets' = <<>> /\ specs # <<>> THEN "resolve" ELSE sphase

\* binding_response: the request's transaction id and the address it came from.
Response(t, target) == [tx |-> t, name |-> target.spec.name, ip |-> target.addr.ip]

\* send_to: the first attempt draws a transaction id; an IPv6 target cannot be sent to
\* from the IPv4 socket.
StunSend ==
    /\ sphase = "probe" /\ targets # <<>> /\ ~waiting
    /\ IF Head(targets).addr.v6
       THEN NextTarget /\ UNCHANGED <<tx, net>>
       ELSE /\ tx' = IF att = 0 THEN tx + 1 ELSE tx
            /\ net' = net \cup {Response(tx', Head(targets))}
            /\ waiting' = TRUE
            /\ UNCHANGED <<sphase, targets, att>>
    /\ UNCHANGED <<smode, specs, nat, sel, cands, obs, verdict>>

\* This attempt brought nothing.
Missed ==
    IF att + 1 < Attempts
    THEN att' = att + 1 /\ waiting' = FALSE /\ UNCHANGED <<sphase, targets>>
    ELSE NextTarget

\* Only the address is looked at (mutant).
BugAnswers(m) == m.ip = Head(targets).addr.ip

\* from.ip() == stun.ip(), and parse_response finds this probe's transaction id.
Answers(m) == m.ip = Head(targets).addr.ip /\ m.tx = tx

\* base.checked_add(delta), for every delta up to PREDICT_RANGE
Predicted(addr) ==
    LET room == IF addr.port + PredictRange <= MaxPort THEN PredictRange ELSE MaxPort - addr.port
    IN [d \in 1 .. room |-> [kind |-> "predicted", addr |-> [addr EXCEPT !.port = @ + d]]]

\* recv_from returns a datagram: an answer to this probe ends it, and a live discovery
\* with it; a late answer to an earlier probe uses up the attempt.
StunRecv(m, predict) ==
    /\ waiting
    /\ LET refl == nat[m.name]
           spec == Head(targets).spec
       IN IF ~Answers(m) THEN Missed /\ UNCHANGED <<sel, cands, obs>>
          ELSE IF smode = "live"
          THEN /\ sel' = [name |-> spec.name, addr |-> refl]
               /\ cands' = <<[kind |-> "reflexive", addr |-> refl]>>
                             \o (IF predict THEN Predicted(refl) ELSE <<>>)
               /\ targets' = <<>> /\ att' = 0 /\ waiting' = FALSE
               /\ UNCHANGED <<sphase, obs>>
          ELSE /\ NextTarget
               /\ obs' = IF spec.src = "public"
                         THEN Append(obs, [name |-> spec.name, addr |-> refl]) ELSE obs
               /\ UNCHANGED <<sel, cands>>
    /\ UNCHANGED <<smode, specs, tx, nat, net, verdict>>

\* A second without a datagram, a datagram from elsewhere, or one that is no answer.
StunMiss ==
    /\ waiting
    /\ Missed
    /\ UNCHANGED <<smode, specs, tx, nat, net, sel, cands, obs, verdict>>

\* recv_from fails: the target is given up at once.
StunRecvFails ==
    /\ waiting
    /\ NextTarget
    /\ UNCHANGED <<smode, specs, tx, nat, net, sel, cands, obs, verdict>>

-----------------------------------------------------------------------------
(* The outcome. *)

\* candidates.contains: an address is offered once.
With(cs, kind, addr) ==
    IF \E i \in DOMAIN cs : cs[i].addr = addr THEN cs ELSE Append(cs, [kind |-> kind, addr |-> addr])

\* upnp_candidate: a router may map the port, to the same or to another one, or not.
RouterMappings(upnp) == {<<>>} \cup (IF upnp THEN {<<a>> : a \in Routers} ELSE {})

\* The router's mapping and the local address; without a local address there is neither.
StunOffer(upnp) ==
    /\ smode = "live" /\ sphase = "probe" /\ targets = <<>>
    /\ \E local \in BOOLEAN, router \in RouterMappings(upnp) :
         LET routed == IF router # <<>> /\ local THEN With(cands, "router", router[1]) ELSE cands
         IN /\ cands' = IF local THEN With(routed, "local", Local) ELSE routed
            /\ sphase' = IF cands' = <<>> THEN "none" ELSE "offered"
    /\ UNCHANGED <<smode, specs, targets, att, tx, waiting, nat, net, sel, obs, verdict>>

SameMapping(seen) == \A a, b \in seen : a = b

\* classify_nat; whether the ports look sequential is left out.
ClassifyNat(o) ==
    LET seen == {o[i].addr : i \in DOMAIN o}
    IN IF o = <<>> THEN "blocked"
       ELSE IF \E a \in seen : a.ip = Local.ip THEN "open"
       ELSE IF Len(o) = 1 THEN "inconclusive"
       ELSE IF SameMapping(seen) THEN "cone" ELSE "symmetric"

StunVerdict ==
    /\ smode = "diagnose" /\ sphase = "probe" /\ targets = <<>>
    /\ verdict' = ClassifyNat(obs)
    /\ sphase' = "judged"
    /\ UNCHANGED <<smode, specs, targets, att, tx, waiting, nat, net, sel, cands, obs>>

StunNext(upnp, predict) ==
    \/ StunResolve \/ StunSend \/ StunMiss \/ StunRecvFails
    \/ \E m \in net : StunRecv(m, predict)
    \/ StunOffer(upnp) \/ StunVerdict

-----------------------------------------------------------------------------
(* Properties. *)

\* The reflexive address offered, and every observation, is what the server it is put
\* down to has seen itself, although answers of servers given up before keep arriving
\* and two servers may share an address; and so the diagnosis is true of the NATs for the
\* servers that answered: a cone maps the socket alike for all of them, a symmetric NAT
\* does not.
ReflexiveIsOwn ==
    LET seen == {nat[obs[i].name] : i \in DOMAIN obs}
    IN /\ sel # NoSel => sel.addr = nat[sel.name] /\ cands[1].addr = sel.addr
       /\ \A i \in DOMAIN obs : obs[i].addr = nat[obs[i].name]
       /\ verdict = "cone" => Cardinality(seen) = 1 /\ Len(obs) > 1
       /\ verdict = "symmetric" => Cardinality(seen) > 1
=============================================================================
