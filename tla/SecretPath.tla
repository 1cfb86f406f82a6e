----------------------------- MODULE SecretPath -----------------------------
(***************************************************************************)
(* The direct path of a secret tunnel of vendored-from-bore: providers that *)
(* register one after the other under one id and offer UDP candidates,      *)
(* consumers that ask for a direct path when they start and upgrade to one  *)
(* later, and the server that brokers between them (serve_provider,        *)
(* serve_consumer, broker_udp; Proxy::new, Proxy::listen, upgrade_task;    *)
(* Client::listen, provider_direct).                                       *)
(*                                                                         *)
(* Candidates are known by whose they are, a nonce by the provider for      *)
(* whose offer it was drawn, an offer by the number of its attempt.        *)
(***************************************************************************)
EXTENDS Naturals, Sequences

CONSTANTS
    Providers,    \* provider connections; a provider that reconnects is another one
    Consumers,
    ChanCap,      \* the capacity of the channel of offers to a provider
    MaxAttempts,  \* bound on the upgrade attempts of a consumer
    MaxFaults     \* bound on broken connections, expired timeouts and failed listeners

ASSUME BoundAssumption == ChanCap \in Nat \ {0} /\ MaxAttempts \in Nat /\ MaxFaults \in Nat
ASSUME NameAssumption == "none" \notin Providers \cup Consumers

VARIABLES
    reg, udp,                        \* Registry and UdpRegistry at the id
    pup, psrv, offered, pending, rx, chan,    \* a provider's control connection and serve_provider
    pcli, inbox, sock, lis, ltok, punches, acc,   \* its Client::listen and provider_direct
    cup, requests, replies, broker,  \* a consumer's control connection and serve_consumer
    con, watch, faults,              \* its Proxy; direct_closed_rx
    overlap                          \* history: providers that registered between the two
                                     \* removals of an earlier one's Deregister

srvp_vars == <<psrv, offered, pending, rx, chan>>
prov_vars == <<pcli, inbox, sock, lis, ltok, punches, acc>>
link_vars == <<requests, replies, broker>>
vars == <<reg, udp, pup, srvp_vars, prov_vars, cup, link_vars, con, watch, faults, overlap>>

None     == "none"
NoAnswer == [to |-> 0, nonce |-> None, prov |-> None]
NoBroker == [n |-> 0, nonce |-> None, chan |-> None, prov |-> None]

\* A Proxy: where it is, the attempt (1 is the one of Proxy::new), its task and
\* the loop's ends of the task's channels, the answer given to it, the data path.
NewCon == [st |-> "hint", n |-> 1, waiting |-> FALSE, task |-> "off", cand |-> "none",
           punch |-> FALSE, done |-> FALSE, got |-> NoAnswer, late |-> FALSE, path |-> None,
           cut |-> FALSE]

Init ==
    /\ reg = None /\ udp = NoBroker
    /\ pup = Providers /\ psrv = [p \in Providers |-> "new"]
    /\ offered = [p \in Providers |-> FALSE] /\ pending = [p \in Providers |-> NoBroker]
    /\ rx = {} /\ chan = [p \in Providers |-> <<>>]
    /\ pcli = [p \in Providers |-> "new"] /\ inbox = [p \in Providers |-> <<>>]
    /\ sock = [p \in Providers |-> "none"] /\ lis = [p \in Providers |-> "none"]
    /\ ltok = [p \in Providers |-> None] /\ punches = [p \in Providers |-> 0]
    /\ acc = [p \in Providers |-> None]
    /\ cup = Consumers /\ requests = [c \in Consumers |-> <<[k |-> "hint", n |-> 1]>>]
    /\ replies = [c \in Consumers |-> <<>>] /\ broker = [c \in Consumers |-> NoBroker]
    /\ con = [c \in Consumers |-> NewCon] /\ watch = {} /\ faults = 0
    /\ overlap = {}

Fault == faults < MaxFaults /\ faults' = faults + 1

-----------------------------------------------------------------------------
(* serve_provider.                                                         *)

\* The id is free: registered.  In use: an Error, and the provider tries again.
SrvRegister(p) ==
    /\ psrv[p] = "new" /\ p \in pup /\ reg = None
    /\ reg' = p /\ psrv' = [psrv EXCEPT ![p] = "serve"] /\ pcli' = [pcli EXCEPT ![p] = "run"]
    /\ overlap' = IF \E q \in Providers : psrv[q] = "left" THEN overlap \cup {p} ELSE overlap
    /\ UNCHANGED <<udp, pup, offered, pending, rx, chan, inbox, sock, lis, ltok, punches, acc,
                   cup, link_vars, con, watch, faults>>

\* Mutant of SrvOfferChan: a channel of its own beside the nonce that is there.
BugFreshChan(p) ==
    /\ psrv[p] = "serve" /\ offered[p] /\ pending[p] = NoBroker
    /\ offered' = [offered EXCEPT ![p] = FALSE]
    /\ pending' = [pending EXCEPT ![p] = [NoBroker EXCEPT !.prov = p, !.chan = p]]
    /\ UNCHANGED <<reg, udp, pup, psrv, rx, chan, prov_vars, cup, link_vars, con, watch, faults, overlap>>

\* register_provider_udp_offer: the channel of the entry there is, or a new one, ...
SrvOfferChan(p) ==
    /\ psrv[p] = "serve" /\ offered[p] /\ pending[p] = NoBroker
    /\ offered' = [offered EXCEPT ![p] = FALSE]
    /\ pending' = [pending EXCEPT ![p] =
                     [n |-> 0, nonce |-> None, chan |-> IF udp = NoBroker THEN p ELSE udp.chan, prov |-> p]]
    /\ UNCHANGED <<reg, udp, pup, psrv, rx, chan, prov_vars, cup, link_vars, con, watch, faults, overlap>>

\* ... its nonce, or a new one, ...
SrvOfferNonce(p) ==
    /\ pending[p].chan # None /\ pending[p].nonce = None
    /\ pending' = [pending EXCEPT ![p].nonce = IF udp = NoBroker THEN p ELSE udp.nonce]
    /\ UNCHANGED <<reg, udp, pup, psrv, offered, rx, chan, prov_vars, cup, link_vars, con, watch, faults, overlap>>

\* ... and the new entry.
SrvOfferInsert(p) ==
    /\ pending[p].nonce # None
    /\ udp' = pending[p]
    /\ rx' = IF pending[p].chan = p THEN rx \cup {p} ELSE rx
    /\ pending' = [pending EXCEPT ![p] = NoBroker]
    /\ UNCHANGED <<reg, pup, psrv, offered, chan, prov_vars, cup, link_vars, con, watch, faults, overlap>>

\* An offer of a consumer: UdpPunch to the provider.
SrvForward(p) ==
    /\ psrv[p] = "serve" /\ pending[p] = NoBroker /\ p \in pup /\ chan[p] # <<>>
    /\ chan' = [chan EXCEPT ![p] = Tail(@)]
    /\ inbox' = [inbox EXCEPT ![p] = Append(@, Head(chan[p]))]
    /\ UNCHANGED <<reg, udp, pup, psrv, offered, pending, rx, pcli, sock, lis, ltok, punches, acc,
                   cup, link_vars, con, watch, faults, overlap>>

\* The connection is gone: the receiver is dropped, then Deregister removes the id ...
SrvLeave(p) ==
    /\ psrv[p] = "serve" /\ pending[p] = NoBroker /\ p \notin pup
    /\ psrv' = [psrv EXCEPT ![p] = "left"] /\ reg' = None
    /\ rx' = rx \ {p} /\ chan' = [chan EXCEPT ![p] = <<>>]
    /\ UNCHANGED <<udp, pup, offered, pending, prov_vars, cup, link_vars, con, watch, faults, overlap>>

\* Mutant of SrvDropUdp: only the id is removed.
BugKeepsUdp(p) ==
    /\ psrv[p] = "left" /\ psrv' = [psrv EXCEPT ![p] = "gone"]
    /\ UNCHANGED <<reg, udp, pup, offered, pending, rx, chan, prov_vars, cup, link_vars, con, watch,
                   faults, overlap>>

\* ... and then whatever UDP entry is under it.
SrvDropUdp(p) ==
    /\ psrv[p] = "left"
    /\ psrv' = [psrv EXCEPT ![p] = "gone"] /\ udp' = NoBroker
    /\ UNCHANGED <<reg, pup, offered, pending, rx, chan, prov_vars, cup, link_vars, con, watch, faults, overlap>>

-----------------------------------------------------------------------------
(* serve_consumer and broker_udp.                                          *)

Reply(c, k, n, nonce, prov) ==
    replies' = [replies EXCEPT ![c] = Append(@, [k |-> k, to |-> n, nonce |-> nonce, prov |-> prov])]

SrvHint(c) ==
    /\ c \in cup /\ broker[c] = NoBroker /\ requests[c] # <<>> /\ Head(requests[c]).k = "hint"
    /\ requests' = [requests EXCEPT ![c] = Tail(@)]
    /\ Reply(c, "hint", Head(requests[c]).n, None, None)
    /\ UNCHANGED <<reg, udp, pup, srvp_vars, prov_vars, cup, broker, con, watch, faults, overlap>>

\* The entry is copied; without one the consumer is told so.
SrvBroker(c) ==
    /\ c \in cup /\ broker[c] = NoBroker /\ requests[c] # <<>> /\ Head(requests[c]).k = "offer"
    /\ requests' = [requests EXCEPT ![c] = Tail(@)]
    /\ IF udp = NoBroker
       THEN Reply(c, "unavailable", Head(requests[c]).n, None, None) /\ UNCHANGED broker
       ELSE broker' = [broker EXCEPT ![c] = [udp EXCEPT !.n = Head(requests[c]).n]] /\ UNCHANGED replies
    /\ UNCHANGED <<reg, udp, pup, srvp_vars, prov_vars, cup, con, watch, faults, overlap>>

\* Mutant of SrvTell: a consumer whose provider vanished hears nothing.
BugTellSilent(c) ==
    /\ broker[c] # NoBroker
    /\ LET b == broker[c] IN
       IF b.chan \in rx
       THEN /\ Len(chan[b.chan]) < ChanCap
            /\ chan' = [chan EXCEPT ![b.chan] = Append(@, [nonce |-> b.nonce, peer |-> c])]
            /\ Reply(c, "punch", b.n, b.nonce, b.prov)
       ELSE UNCHANGED <<chan, replies>>
    /\ broker' = [broker EXCEPT ![c] = NoBroker]
    /\ UNCHANGED <<reg, udp, pup, psrv, offered, pending, rx, prov_vars, cup, requests, con, watch,
                   faults, overlap>>

\* The provider is told first, as soon as its channel has room; then the consumer.
SrvTell(c) ==
    /\ broker[c] # NoBroker
    /\ LET b == broker[c] IN
       IF b.chan \in rx
       THEN /\ Len(chan[b.chan]) < ChanCap
            /\ chan' = [chan EXCEPT ![b.chan] = Append(@, [nonce |-> b.nonce, peer |-> c])]
            /\ Reply(c, "punch", b.n, b.nonce, b.prov)
       ELSE Reply(c, "unavailable", b.n, None, None) /\ UNCHANGED chan
    /\ broker' = [broker EXCEPT ![c] = NoBroker]
    /\ UNCHANGED <<reg, udp, pup, psrv, offered, pending, rx, prov_vars, cup, requests, con, watch, faults, overlap>>

-----------------------------------------------------------------------------
(* The provider: new_secret_provider, Client::listen, provider_direct.     *)

\* At the start and at every udp_retry tick, until there is a socket.
PrvOffer(p) ==
    /\ pcli[p] = "run" /\ sock[p] = "none" /\ p \in pup
    /\ sock' = [sock EXCEPT ![p] = "ready"] /\ offered' = [offered EXCEPT ![p] = TRUE]
    /\ UNCHANGED <<reg, udp, pup, psrv, pending, rx, chan, pcli, inbox, lis, ltok, punches, acc,
                   cup, link_vars, con, watch, faults, overlap>>

\* UdpPunch: the first starts provider_direct, the others go to it.
PrvPunch(p) ==
    /\ pcli[p] = "run" /\ inbox[p] # <<>>
    /\ inbox' = [inbox EXCEPT ![p] = Tail(@)]
    /\ IF sock[p] = "ready"
       THEN /\ sock' = [sock EXCEPT ![p] = "taken"] /\ lis' = [lis EXCEPT ![p] = "start"]
            /\ ltok' = [ltok EXCEPT ![p] = Head(inbox[p]).nonce] /\ UNCHANGED punches
       ELSE punches' = [punches EXCEPT ![p] = IF lis[p] = "failed" THEN @ ELSE @ + 1]
            /\ UNCHANGED <<sock, lis, ltok>>
    /\ UNCHANGED <<reg, udp, pup, srvp_vars, pcli, acc, cup, link_vars, con, watch, faults, overlap>>

\* DirectListener::new; when it fails nothing offers again.
PrvListens(p) ==
    /\ lis[p] = "start"
    /\ \/ lis' = [lis EXCEPT ![p] = "up"] /\ UNCHANGED <<punches, faults>>
       \/ Fault /\ lis' = [lis EXCEPT ![p] = "failed"] /\ punches' = [punches EXCEPT ![p] = 0]
    /\ UNCHANGED <<reg, udp, pup, srvp_vars, pcli, inbox, sock, ltok, acc, cup, link_vars, con, watch, overlap>>

\* The attempt of c has failed: upgrade_task drops its channels, Proxy::new goes on.
Failed(r) == IF r.st = "dial" THEN [r EXCEPT !.st = "listen", !.got = NoAnswer]
             ELSE [r EXCEPT !.task = "ended", !.got = NoAnswer]

Dialing(c) == con[c].st = "dial" \/ con[c].task = "dial"

\* A dial reaches the listener, which handles one connection at a time, ...
PrvAccept(p, c) ==
    /\ lis[p] = "up" /\ acc[p] = None /\ Dialing(c) /\ con[c].got.prov = p
    /\ acc' = [acc EXCEPT ![p] = c]
    /\ UNCHANGED <<reg, udp, pup, srvp_vars, pcli, inbox, sock, lis, ltok, punches, cup, link_vars,
                   con, watch, faults, overlap>>

\* ... and is taken when the tokens match.
PrvAdmit(p) ==
    /\ lis[p] = "up" /\ acc[p] # None
    /\ LET c == acc[p]  r == con[c] IN
       IF r.got.nonce = ltok[p]
       THEN IF r.st = "dial"
            THEN /\ con' = [con EXCEPT ![c] = [r EXCEPT !.st = "listen", !.path = p, !.got = NoAnswer]]
                 /\ watch' = watch \cup {c}
            ELSE con' = [con EXCEPT ![c].task = "won"] /\ UNCHANGED watch
       ELSE con' = [con EXCEPT ![c] = Failed(r)] /\ UNCHANGED watch
    /\ acc' = [acc EXCEPT ![p] = None]
    /\ UNCHANGED <<reg, udp, pup, srvp_vars, pcli, inbox, sock, lis, ltok, punches, cup, link_vars, faults, overlap>>

\* Another consumer's candidates: select! drops the accept that is under way.
PrvRepunch(p) ==
    /\ lis[p] = "up" /\ punches[p] > 0
    /\ punches' = [punches EXCEPT ![p] = @ - 1]
    /\ acc' = [acc EXCEPT ![p] = None]
    /\ con' = [c \in Consumers |-> IF acc[p] = c THEN Failed(con[c]) ELSE con[c]]
    /\ UNCHANGED <<reg, udp, pup, srvp_vars, pcli, inbox, sock, lis, ltok, cup, link_vars, watch, faults, overlap>>

\* The control connection is gone: listen returns, provider_direct closes its
\* endpoint and every connection of it.
PrvEnds(p) ==
    /\ pcli[p] = "run" /\ p \notin pup
    /\ pcli' = [pcli EXCEPT ![p] = "gone"] /\ lis' = [lis EXCEPT ![p] = "closed"]
    /\ inbox' = [inbox EXCEPT ![p] = <<>>] /\ punches' = [punches EXCEPT ![p] = 0]
    /\ acc' = [acc EXCEPT ![p] = None]
    /\ con' = [c \in Consumers |-> IF acc[p] = c THEN Failed(con[c]) ELSE con[c]]
    /\ UNCHANGED <<reg, udp, pup, srvp_vars, sock, ltok, cup, link_vars, watch, faults, overlap>>

-----------------------------------------------------------------------------
(* The consumer: Proxy::new.                                               *)

Ask(c, k, n) == requests' = [requests EXCEPT ![c] = Append(@, [k |-> k, n |-> n])]
others_vars == <<reg, udp, pup, srvp_vars, pcli, inbox, sock, lis, ltok, punches, overlap>>

\* A hint, a decision of the broker, or something else that is skipped.
ConRecv(c) ==
    /\ con[c].st \in {"hint", "reply"} /\ replies[c] # <<>>
    /\ replies' = [replies EXCEPT ![c] = Tail(@)]
    /\ LET m == Head(replies[c])  r == con[c] IN
       con' = [con EXCEPT ![c] =
                 CASE r.st = "hint" /\ m.k = "hint"         -> [r EXCEPT !.st = "gather"]
                   [] r.st = "reply" /\ m.k = "unavailable" -> [r EXCEPT !.st = "listen"]
                   [] r.st = "reply" /\ m.k = "punch"       ->
                        [r EXCEPT !.st = "dial", !.got = [to |-> m.to, nonce |-> m.nonce, prov |-> m.prov]]
                   [] OTHER -> r]
    /\ UNCHANGED <<others_vars, acc, cup, requests, broker, watch, faults>>

\* No answer in time, or no connection: the relay.  The answer may still come.
ConGivesUp(c) ==
    /\ con[c].st \in {"hint", "reply"}
    /\ IF c \in cup THEN Fault ELSE UNCHANGED faults
    /\ con' = [con EXCEPT ![c].st = "listen", ![c].late = con[c].st = "reply"]
    /\ UNCHANGED <<others_vars, acc, cup, link_vars, watch>>

\* gather_consumer_candidates, with candidates or without.
ConGather(c) ==
    /\ con[c].st = "gather"
    /\ \/ con' = [con EXCEPT ![c].st = "reply"] /\ Ask(c, "offer", 1)
       \/ con' = [con EXCEPT ![c].st = "listen"] /\ UNCHANGED requests
    /\ UNCHANGED <<others_vars, acc, cup, replies, broker, watch, faults>>

\* connect_direct: the budget is exhausted, or every candidate failed.
DialFails(c) ==
    /\ Dialing(c)
    /\ con' = [con EXCEPT ![c] = Failed(@)]
    /\ acc' = [p \in Providers |-> IF acc[p] = c THEN None ELSE acc[p]]
    /\ UNCHANGED <<others_vars, cup, link_vars, watch, faults>>

-----------------------------------------------------------------------------
(* Proxy::listen and upgrade_task.                                         *)

\* Mutant of ConKick: an attempt starts while another is under way.
BugKickAgain(c) ==
    /\ con[c].st = "listen" /\ con[c].path = None /\ ~con[c].waiting
    /\ c \in cup /\ con[c].n <= MaxAttempts
    /\ con' = [con EXCEPT ![c].n = @ + 1, ![c].waiting = TRUE] /\ Ask(c, "hint", con[c].n + 1)
    /\ UNCHANGED <<others_vars, acc, cup, replies, broker, watch, faults>>

\* The upgrade backoff has elapsed: ask for the provider's hint.
ConKick(c) ==
    /\ con[c].st = "listen" /\ con[c].path = None /\ ~con[c].done /\ ~con[c].waiting
    /\ c \in cup /\ con[c].n <= MaxAttempts
    /\ con' = [con EXCEPT ![c].n = @ + 1, ![c].waiting = TRUE] /\ Ask(c, "hint", con[c].n + 1)
    /\ UNCHANGED <<others_vars, acc, cup, replies, broker, watch, faults>>

\* A message: the hint starts the task, the broker's decision goes to it.
ConMessage(c) ==
    /\ con[c].st = "listen" /\ replies[c] # <<>>
    /\ replies' = [replies EXCEPT ![c] = Tail(@)]
    /\ LET m == Head(replies[c])  r == con[c] IN
       con' = [con EXCEPT ![c] =
                 IF m.k = "hint"
                 THEN IF r.waiting
                      THEN [r EXCEPT !.waiting = FALSE, !.task = "gather", !.cand = "empty",
                                     !.punch = TRUE, !.done = TRUE]
                      ELSE r
                 ELSE IF r.punch
                      THEN [r EXCEPT !.punch = FALSE,
                                     !.got = [to |-> m.to, nonce |-> m.nonce, prov |-> m.prov]]
                      ELSE r]
    /\ UNCHANGED <<others_vars, acc, cup, requests, broker, watch, faults>>

\* The task: candidates for the loop, or none; then the decision.
TaskGather(c) ==
    /\ con[c].task = "gather"
    /\ \/ con' = [con EXCEPT ![c].task = "wait", ![c].cand = "full"]
       \/ con' = [con EXCEPT ![c].task = "ended"]
    /\ UNCHANGED <<others_vars, acc, cup, link_vars, watch, faults>>

TaskTakes(c) ==
    /\ con[c].task = "wait" /\ con[c].got # NoAnswer
    /\ con' = [con EXCEPT ![c].task = IF con[c].got.prov = None THEN "ended" ELSE "dial"]
    /\ UNCHANGED <<others_vars, acc, cup, link_vars, watch, faults>>

\* The loop sends the candidates, ...
ConSendsOffer(c) ==
    /\ con[c].st = "listen" /\ con[c].cand = "full" /\ c \in cup
    /\ con' = [con EXCEPT ![c].cand = "none"] /\ Ask(c, "offer", con[c].n)
    /\ UNCHANGED <<others_vars, acc, cup, replies, broker, watch, faults>>

\* ... gives the attempt up without them, ...
ConNoOffer(c) ==
    /\ con[c].st = "listen" /\ con[c].cand = "empty" /\ con[c].task = "ended"
    /\ con' = [con EXCEPT ![c].cand = "none", ![c].punch = FALSE, ![c].done = FALSE, ![c].task = "off",
                          ![c].got = NoAnswer]
    /\ UNCHANGED <<others_vars, acc, cup, link_vars, watch, faults>>

\* Mutant of ConDone: nobody watches the new path.
BugUnwatched(c) ==
    /\ con[c].st = "listen" /\ con[c].done /\ con[c].task \in {"won", "ended"}
    /\ con' = [con EXCEPT ![c].cand = "none", ![c].punch = FALSE, ![c].done = FALSE,
                          ![c].task = "off", ![c].got = NoAnswer,
                          ![c].path = IF con[c].task = "won" THEN con[c].got.prov ELSE @]
    /\ UNCHANGED <<others_vars, acc, cup, link_vars, watch, faults>>

\* ... and swaps the data path when the task has a connection.
ConDone(c) ==
    /\ con[c].st = "listen" /\ con[c].done /\ con[c].task \in {"won", "ended"}
    /\ LET won == con[c].task = "won" IN
       /\ con' = [con EXCEPT ![c].cand = "none", ![c].punch = FALSE, ![c].done = FALSE,
                             ![c].task = "off", ![c].got = NoAnswer,
                             ![c].path = IF won THEN con[c].got.prov ELSE @]
       /\ watch' = IF won THEN watch \cup {c} ELSE watch
    /\ UNCHANGED <<others_vars, acc, cup, link_vars, faults>>

Closed(c) == con[c].path # None /\ (con[c].cut \/ lis[con[c].path] = "closed")

\* The proxy ends: its control connection is gone, or its direct path.
ConEnds(c) ==
    /\ con[c].st = "listen" /\ (c \notin cup \/ (c \in watch /\ Closed(c)))
    /\ con' = [con EXCEPT ![c] = [NewCon EXCEPT !.st = "gone"]]
    /\ cup' = cup \ {c} /\ watch' = watch \ {c}
    /\ requests' = [requests EXCEPT ![c] = <<>>] /\ replies' = [replies EXCEPT ![c] = <<>>]
    /\ acc' = [p \in Providers |-> IF acc[p] = c THEN None ELSE acc[p]]
    /\ UNCHANGED <<others_vars, broker, faults>>

-----------------------------------------------------------------------------
(* The network.                                                            *)

BreakProvider(p) ==
    /\ p \in pup /\ pcli[p] = "run" /\ Fault /\ pup' = pup \ {p}
    /\ UNCHANGED <<reg, udp, srvp_vars, prov_vars, cup, link_vars, con, watch, overlap>>

BreakConsumer(c) ==
    /\ c \in cup /\ Fault /\ cup' = cup \ {c}
    /\ UNCHANGED <<others_vars, acc, link_vars, con, watch>>

BreakPath(c) ==
    /\ con[c].path # None /\ ~con[c].cut /\ Fault /\ con' = [con EXCEPT ![c].cut = TRUE]
    /\ UNCHANGED <<others_vars, acc, cup, link_vars, watch>>

-----------------------------------------------------------------------------
SrvProvider(p) == SrvRegister(p) \/ SrvOfferChan(p) \/ SrvOfferNonce(p) \/ SrvOfferInsert(p)
                  \/ SrvForward(p) \/ SrvLeave(p) \/ SrvDropUdp(p)
SrvConsumer(c) == SrvHint(c) \/ SrvBroker(c) \/ SrvTell(c)
Provider(p) == PrvOffer(p) \/ PrvPunch(p) \/ PrvListens(p) \/ PrvAdmit(p) \/ PrvRepunch(p)
               \/ PrvEnds(p) \/ \E c \in Consumers : PrvAccept(p, c)
Proxy(c) == ConRecv(c) \/ ConGather(c) \/ ConKick(c) \/ ConMessage(c) \/ ConSendsOffer(c)
            \/ ConNoOffer(c) \/ ConDone(c) \/ ConEnds(c)
Task(c) == TaskGather(c) \/ TaskTakes(c) \/ DialFails(c)

Next ==
    \/ \E p \in Providers : SrvProvider(p) \/ Provider(p) \/ BreakProvider(p)
    \/ \E c \in Consumers : SrvConsumer(c) \/ Proxy(c) \/ ConGivesUp(c) \/ Task(c)
                             \/ BreakConsumer(c) \/ BreakPath(c)

Spec == Init /\ [][Next]_vars

\* The server's loops, the provider's, the proxy's and its task run when they can,
\* and a select! does not pass over a closed path for ever.
Fairness ==
    /\ \A p \in Providers : WF_vars(SrvProvider(p)) /\ WF_vars(Provider(p))
    /\ \A c \in Consumers : /\ WF_vars(SrvConsumer(c)) /\ WF_vars(Proxy(c)) /\ WF_vars(Task(c))
                             /\ WF_vars(ConEnds(c))

FairSpec == Spec /\ Fairness

-----------------------------------------------------------------------------
(* Properties.                                                             *)

\* The answer an attempt acts on is the answer to its own candidates, unless the
\* first negotiation gave up after its offer: its late answer is then taken by a
\* later attempt, for nothing in UdpPunch names the offer it answers.
AnswersOwnOffer ==
    \A c \in Consumers : con[c].got # NoAnswer => con[c].got.to = con[c].n \/ con[c].late

\* A provider whose candidates the server has taken is the one that consumers are
\* brokered to, with its own nonce and over its own channel, unless it registered
\* while Deregister of the provider before it had removed the id and not yet the
\* UDP entry (register_provider_udp_offer keeps the nonce and channel it finds).
Brokered ==
    \A p \in Providers \ overlap :
        psrv[p] = "serve" /\ sock[p] # "none" /\ ~offered[p] /\ pending[p] = NoBroker
            => udp = [n |-> 0, nonce |-> p, chan |-> p, prov |-> p] /\ p \in rx

\* No provider accepts a token made from the nonce of another provider, not even
\* one that took over a half-removed entry.
TokenIsOwn == \A p \in Providers : ltok[p] \in {None, p}

\* Every upgrade attempt comes to an end, so that the next one can start: the server
\* answers every offer, whether the provider stays, leaves or is slow.
AttemptEnds == \A c \in Consumers : con[c].done ~> ~con[c].done

\* A consumer does not stay on a direct path that is closed, also on one that it
\* got by an upgrade.
LeavesClosed == \A c \in Consumers : Closed(c) ~> con[c].st = "gone"
=============================================================================
