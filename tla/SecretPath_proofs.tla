-------------------------- MODULE SecretPath_proofs --------------------------
(***************************************************************************)
(* For any number of providers and consumers: a provider derives the token   *)
(* it accepts from its own nonce, although register_provider_udp_offer may   *)
(* pick up channel and nonce of an entry that is being removed; a provider   *)
(* whose candidates were taken is the one that is brokered; and an attempt   *)
(* of a consumer acts on the answer to its own candidates.                  *)
(***************************************************************************)
EXTENDS SecretPath, TLAPS

PsrvStates == {"new", "serve", "left", "gone"}
OwnMsg(p) == [nonce : {p}, peer : Consumers]

\* A copy of a broker's entry, with any number of an attempt.
IsEntry(b) == b = [n |-> b.n, nonce |-> b.nonce, chan |-> b.chan, prov |-> b.prov]

\* An entry that leads to a provider that is registered carries its nonce.
Matched(b) ==
    /\ b.chan \in Providers /\ psrv[b.chan] # "new"
    /\ b.nonce \in Providers
    /\ psrv[b.chan] = "serve" => b.nonce = b.chan

\* One provider at a time is registered, and only its channel can be written to.
OneServes ==
    /\ psrv \in [Providers -> PsrvStates]
    /\ \A p \in Providers : psrv[p] = "serve" => reg = p
    /\ \A p \in rx : p \in Providers /\ psrv[p] = "serve"

\* The registration under way of p: its channel is read before its nonce.
Registering(p) ==
    LET b == pending[p] IN
    /\ IsEntry(b)
    /\ b # NoBroker =>
         /\ psrv[p] = "serve" /\ b.chan \in Providers /\ psrv[b.chan] # "new"
         /\ b.nonce # None => Matched(b)
         /\ b.nonce = None /\ b.chan = p => udp = NoBroker \/ udp.chan = p

Entries ==
    /\ pending = [p \in Providers |-> pending[p]] /\ broker = [c \in Consumers |-> broker[c]]
    /\ IsEntry(udp) /\ (udp # NoBroker => Matched(udp))
    /\ \A p \in Providers : Registering(p)
    /\ \A c \in Consumers : IsEntry(broker[c]) /\ (broker[c] # NoBroker => Matched(broker[c]))

\* What is on its way to a provider carries its nonce.
Messages ==
    /\ chan = [p \in Providers |-> chan[p]] /\ inbox = [p \in Providers |-> inbox[p]]
    /\ ltok = [p \in Providers |-> ltok[p]]
    /\ \A p \in Providers : chan[p] \in Seq(OwnMsg(p)) /\ inbox[p] \in Seq(OwnMsg(p))

TokenInv == OneServes /\ Entries /\ Messages /\ TokenIsOwn

\* Before any provider registers there is no entry and no message.
LEMMA TokenInit == Init => TokenInv
BY NameAssumption DEF Init, TokenInv, OneServes, Entries, Registering, Messages, TokenIsOwn, IsEntry,
   NoBroker, None, PsrvStates

\* The steps of the proxies, and those of the network.
LEMMA TokenUntouched ==
    ASSUME TokenInv, UNCHANGED <<reg, udp, psrv, pending, rx, chan, inbox, ltok, broker>>
    PROVE  TokenInv'
BY DEF TokenInv, OneServes, Entries, Registering, Matched, Messages, TokenIsOwn, IsEntry, OwnMsg

\* An id is given to a provider only while no other one has it.
LEMMA TokenRegister ==
    ASSUME TokenInv, NEW p \in Providers, SrvRegister(p)
    PROVE  TokenInv'
<1>1. /\ psrv[p] = "new" /\ reg = None /\ reg' = p /\ psrv' = [psrv EXCEPT ![p] = "serve"]
      /\ UNCHANGED <<udp, pending, rx, chan, inbox, ltok, broker>>
  BY DEF SrvRegister, link_vars
<1>2. \A q \in Providers : psrv[q] # "serve"
  BY <1>1, NameAssumption DEF TokenInv, OneServes, None
<1>3. OneServes'
  BY <1>1, <1>2 DEF TokenInv, OneServes, PsrvStates
<1>4. \A b : Matched(b) => Matched(b)'
  BY <1>1 DEF Matched, TokenInv, OneServes
<1>5. Entries'
  BY <1>1, <1>2, <1>4, Zenon DEF TokenInv, Entries, Registering, IsEntry
<1> QED BY <1>1, <1>3, <1>5 DEF TokenInv, Messages, TokenIsOwn, OwnMsg

\* The end of a registration: no channel of a provider that is gone is written to.
LEMMA TokenLeave ==
    ASSUME TokenInv, NEW p \in Providers, SrvLeave(p) \/ SrvDropUdp(p)
    PROVE  TokenInv'
<1>1. CASE SrvLeave(p)
  <2>1. /\ psrv[p] = "serve" /\ psrv' = [psrv EXCEPT ![p] = "left"] /\ reg' = None
        /\ pending[p] = NoBroker /\ rx' = rx \ {p} /\ chan' = [chan EXCEPT ![p] = <<>>]
        /\ UNCHANGED <<udp, pending, inbox, ltok, broker>>
    BY <1>1 DEF SrvLeave, prov_vars, link_vars
  <2>2. \A q \in Providers : psrv[q] = "serve" => q = p
    BY <2>1 DEF TokenInv, OneServes
  <2>3. OneServes'
    BY <2>1, <2>2 DEF TokenInv, OneServes, PsrvStates
  <2>4. \A b : Matched(b) => Matched(b)'
    BY <2>1 DEF Matched, TokenInv, OneServes
  <2>5. \A q \in Providers : pending[q] = NoBroker
    BY <2>1, <2>2 DEF TokenInv, Entries, Registering
  <2>6. Entries'
    BY <2>1, <2>4, <2>5 DEF TokenInv, Entries, Registering, IsEntry
  <2>7. Messages'
    BY <2>1 DEF TokenInv, Messages, OwnMsg
  <2> QED BY <2>1, <2>3, <2>6, <2>7 DEF TokenInv, TokenIsOwn
<1>2. CASE SrvDropUdp(p)
  <2>1. /\ psrv[p] = "left" /\ psrv' = [psrv EXCEPT ![p] = "gone"] /\ udp' = NoBroker
        /\ UNCHANGED <<reg, pending, rx, chan, inbox, ltok, broker>>
    BY <1>2 DEF SrvDropUdp, prov_vars, link_vars
  <2>2. OneServes'
    BY <2>1 DEF TokenInv, OneServes, PsrvStates
  <2>3. \A b : Matched(b) => Matched(b)'
    BY <2>1 DEF Matched, TokenInv, OneServes
  <2>4. IsEntry(NoBroker)
    BY DEF IsEntry, NoBroker
  <2>5. ASSUME NEW q \in Providers PROVE Registering(q)'
    <3>1. psrv[q] = "serve" => psrv'[q] = "serve"
      BY <2>1 DEF TokenInv, OneServes
    <3>2. \A r \in Providers : psrv[r] # "new" => psrv'[r] # "new"
      BY <2>1 DEF TokenInv, OneServes
    <3> QED BY <2>1, <2>3, <3>1, <3>2 DEF TokenInv, Entries, Registering, IsEntry
  <2>6. Entries'
    BY <2>1, <2>3, <2>4, <2>5 DEF TokenInv, Entries, IsEntry
  <2> QED BY <2>1, <2>2, <2>6 DEF TokenInv, Messages, TokenIsOwn, OwnMsg
<1> QED BY <1>1, <1>2

\* register_provider_udp_offer, step by step.
LEMMA TokenOffer ==
    ASSUME TokenInv, NEW p \in Providers, SrvOfferChan(p) \/ SrvOfferNonce(p) \/ SrvOfferInsert(p)
    PROVE  TokenInv'
<1>0. None \notin Providers
  BY NameAssumption DEF None
<1>a. ASSUME psrv[p] = "serve" PROVE \A q \in Providers : psrv[q] = "serve" => q = p
  BY <1>a DEF TokenInv, OneServes
<1>1. CASE SrvOfferChan(p)
  <2> DEFINE b == [n |-> 0, nonce |-> None, prov |-> p,
                   chan |-> IF udp = NoBroker THEN p ELSE udp.chan]
  <2>1. /\ psrv[p] = "serve" /\ pending' = [pending EXCEPT ![p] = b]
        /\ UNCHANGED <<reg, udp, psrv, rx, chan, inbox, ltok, broker>>
    BY <1>1 DEF SrvOfferChan, prov_vars, link_vars
  <2>2. b.chan = (IF udp = NoBroker THEN p ELSE udp.chan) /\ b.nonce = None
    OBVIOUS
  <2>3. IsEntry(b)
    BY DEF IsEntry
  <2> HIDE DEF b
  <2>4. pending' = [q \in Providers |-> IF q = p THEN b ELSE pending[q]]
    BY <2>1 DEF TokenInv, Entries
  <2>5. ASSUME NEW q \in Providers PROVE Registering(q)'
    <3>1. CASE q = p
      <4>1. pending'[q] = b
        BY <2>4, <3>1
      <4>2. b.chan \in Providers /\ psrv[b.chan] # "new"
        BY <2>1, <2>2 DEF TokenInv, Entries, Matched
      <4>3. b.chan = p => udp = NoBroker \/ udp.chan = p
        BY <2>2
      <4> QED BY <2>1, <2>2, <2>3, <3>1, <4>1, <4>2, <4>3 DEF Registering, IsEntry
    <3>2. CASE q # p
      BY <2>1, <2>4, <3>2 DEF TokenInv, Entries, Registering, Matched, IsEntry
    <3> QED BY <3>1, <3>2
  <2>6. Entries'
    BY <2>1, <2>4, <2>5 DEF TokenInv, Entries, Matched, IsEntry
  <2> QED BY <2>1, <2>6 DEF TokenInv, OneServes, Messages, TokenIsOwn, OwnMsg
<1>2. CASE SrvOfferNonce(p)
  <2> DEFINE m == IF udp = NoBroker THEN p ELSE udp.nonce
             b == [n |-> pending[p].n, nonce |-> m, chan |-> pending[p].chan, prov |-> pending[p].prov]
  <2>1. /\ pending[p].chan # None /\ pending[p].nonce = None
        /\ pending' = [pending EXCEPT ![p].nonce = m]
        /\ UNCHANGED <<reg, udp, psrv, rx, chan, inbox, ltok, broker>>
    BY <1>2 DEF SrvOfferNonce, prov_vars, link_vars
  <2>2. pending[p] # NoBroker
    BY <2>1 DEF NoBroker
  <2>3. IsEntry(pending[p]) /\ pending = [q \in Providers |-> pending[q]]
    BY DEF TokenInv, Entries, Registering
  <2>4. [pending[p] EXCEPT !.nonce = m] = b
    BY <2>3 DEF IsEntry
  <2>5. pending' = [q \in Providers |-> IF q = p THEN b ELSE pending[q]]
    BY <2>1, <2>3, <2>4
  <2>6. psrv[p] = "serve" /\ b.chan \in Providers /\ psrv[b.chan] # "new"
    BY <2>2 DEF TokenInv, Entries, Registering
  <2>7. b.nonce \in Providers /\ (psrv[b.chan] = "serve" => b.nonce = b.chan)
    <3>1. psrv[b.chan] = "serve" => b.chan = p
      BY <1>a, <2>6
    <3>2. b.chan = p => udp = NoBroker \/ udp.chan = p
      BY <2>1, <2>2 DEF TokenInv, Entries, Registering
    <3>3. udp # NoBroker => Matched(udp)
      BY DEF TokenInv, Entries
    <3> QED BY <2>6, <3>1, <3>2, <3>3 DEF Matched
  <2>8. Matched(b) /\ IsEntry(b) /\ b.nonce # None
    BY <1>0, <2>6, <2>7 DEF Matched, IsEntry
  <2> HIDE DEF b
  <2>9. ASSUME NEW q \in Providers PROVE Registering(q)'
    <3>1. CASE q = p
      <4>1. pending'[q] = b
        BY <2>5, <3>1
      <4> QED BY <2>1, <2>6, <2>8, <3>1, <4>1 DEF Registering, IsEntry, Matched
    <3>2. CASE q # p
      BY <2>1, <2>5, <3>2 DEF TokenInv, Entries, Registering, Matched, IsEntry
    <3> QED BY <3>1, <3>2
  <2>10. Entries'
    BY <2>1, <2>5, <2>9 DEF TokenInv, Entries, Matched, IsEntry
  <2> QED BY <2>1, <2>10 DEF TokenInv, OneServes, Messages, TokenIsOwn, OwnMsg
<1>3. CASE SrvOfferInsert(p)
  <2>1. /\ pending[p].nonce # None /\ udp' = pending[p]
        /\ rx' = IF pending[p].chan = p THEN rx \cup {p} ELSE rx
        /\ pending' = [pending EXCEPT ![p] = NoBroker]
        /\ UNCHANGED <<reg, psrv, chan, inbox, ltok, broker>>
    BY <1>3 DEF SrvOfferInsert, prov_vars, link_vars
  <2>2. pending[p] # NoBroker
    BY <2>1 DEF NoBroker
  <2>3. psrv[p] = "serve" /\ Matched(pending[p]) /\ IsEntry(pending[p])
    BY <2>1, <2>2 DEF TokenInv, Entries, Registering
  <2>4. pending' = [q \in Providers |-> IF q = p THEN NoBroker ELSE pending[q]]
    BY <2>1 DEF TokenInv, Entries
  <2>5. \A q \in Providers : pending'[q] = NoBroker
    BY <1>a, <2>3, <2>4 DEF TokenInv, Entries, Registering
  <2>6. IsEntry(NoBroker)
    BY DEF IsEntry, NoBroker
  <2>7. \A q \in Providers : Registering(q)'
    BY <2>5, <2>6 DEF Registering, IsEntry
  <2>8. Entries'
    BY <2>1, <2>3, <2>4, <2>7 DEF TokenInv, Entries, Matched, IsEntry
  <2>9. OneServes'
    BY <2>1, <2>3 DEF TokenInv, OneServes
  <2> QED BY <2>1, <2>8, <2>9 DEF TokenInv, Messages, TokenIsOwn, OwnMsg
<1> QED BY <1>1, <1>2, <1>3

\* The broker: a copy of the entry, and an offer to the provider that is still there.
LEMMA TokenBroker ==
    ASSUME TokenInv, NEW c \in Consumers, SrvConsumer(c)
    PROVE  TokenInv'
<1>1. CASE SrvHint(c)
  BY <1>1, TokenUntouched DEF SrvHint, srvp_vars, prov_vars
<1>2. CASE SrvBroker(c)
  <2>1. UNCHANGED <<reg, udp, psrv, pending, rx, chan, inbox, ltok>>
    BY <1>2 DEF SrvBroker, srvp_vars, prov_vars
  <2>2. CASE udp = NoBroker
    BY <1>2, <2>1, <2>2, TokenUntouched DEF SrvBroker
  <2>3. CASE udp # NoBroker
    <3> DEFINE b == [udp EXCEPT !.n = Head(requests[c]).n]
    <3>1. broker' = [broker EXCEPT ![c] = b]
      BY <1>2, <2>3 DEF SrvBroker
    <3>2. IsEntry(udp) /\ Matched(udp)
      BY <2>3 DEF TokenInv, Entries
    <3>3. b = [n |-> Head(requests[c]).n, nonce |-> udp.nonce, chan |-> udp.chan, prov |-> udp.prov]
      BY <3>2 DEF IsEntry
    <3>4. IsEntry(b) /\ Matched(b)
      BY <3>2, <3>3 DEF IsEntry, Matched
    <3> HIDE DEF b
    <3>5. broker' = [d \in Consumers |-> IF d = c THEN b ELSE broker[d]]
      BY <3>1 DEF TokenInv, Entries
    <3>6. Entries'
      BY <2>1, <3>4, <3>5 DEF TokenInv, Entries, Registering, Matched, IsEntry
    <3> QED BY <2>1, <3>6 DEF TokenInv, OneServes, Messages, TokenIsOwn, OwnMsg
  <2> QED BY <2>2, <2>3
<1>3. CASE SrvTell(c)
  <2>1. /\ broker[c] # NoBroker /\ broker' = [broker EXCEPT ![c] = NoBroker]
        /\ UNCHANGED <<reg, udp, psrv, pending, rx, inbox, ltok>>
    BY <1>3 DEF SrvTell, prov_vars
  <2>2. broker' = [d \in Consumers |-> IF d = c THEN NoBroker ELSE broker[d]]
    BY <2>1 DEF TokenInv, Entries
  <2>3. IsEntry(NoBroker)
    BY DEF IsEntry, NoBroker
  <2>4. Entries'
    BY <2>1, <2>2, <2>3 DEF TokenInv, Entries, Registering, Matched, IsEntry
  <2>5. Messages'
    <3>1. CASE broker[c].chan \notin rx
      BY <1>3, <2>1, <3>1 DEF SrvTell, TokenInv, Messages, OwnMsg
    <3>2. CASE broker[c].chan \in rx
      <4> DEFINE q == broker[c].chan
                 msg == [nonce |-> broker[c].nonce, peer |-> c]
      <4>1. chan' = [chan EXCEPT ![q] = Append(chan[q], msg)]
        BY <1>3, <3>2 DEF SrvTell
      <4>2. q \in Providers /\ broker[c].nonce = q
        BY <2>1, <3>2 DEF TokenInv, Entries, Matched, OneServes
      <4>3. msg \in OwnMsg(q)
        BY <4>2 DEF OwnMsg
      <4>4. chan[q] \in Seq(OwnMsg(q)) /\ chan = [p \in Providers |-> chan[p]]
        BY <4>2 DEF TokenInv, Messages
      <4> HIDE DEF q, msg
      <4>5. chan' = [p \in Providers |-> IF p = q THEN Append(chan[q], msg) ELSE chan[p]]
        BY <4>1, <4>4
      <4>6. Append(chan[q], msg) \in Seq(OwnMsg(q))
        BY <4>3, <4>4
      <4>7. \A p \in Providers : chan'[p] \in Seq(OwnMsg(p))
        BY <4>2, <4>5, <4>6 DEF TokenInv, Messages
      <4> QED BY <2>1, <4>5, <4>7 DEF TokenInv, Messages, OwnMsg
    <3> QED BY <3>1, <3>2
  <2> QED BY <2>1, <2>4, <2>5 DEF TokenInv, OneServes, TokenIsOwn
<1> QED BY <1>1, <1>2, <1>3 DEF SrvConsumer

\* From the channel to the provider's loop, and to the token of its listener.
LEMMA TokenProvider ==
    ASSUME TokenInv, NEW p \in Providers, SrvForward(p) \/ Provider(p)
    PROVE  TokenInv'
<1>1. CASE SrvForward(p)
  <2>1. /\ chan[p] # <<>> /\ chan' = [chan EXCEPT ![p] = Tail(chan[p])]
        /\ inbox' = [inbox EXCEPT ![p] = Append(inbox[p], Head(chan[p]))]
        /\ UNCHANGED <<reg, udp, psrv, pending, rx, ltok, broker>>
    BY <1>1 DEF SrvForward, link_vars
  <2>2. chan[p] \in Seq(OwnMsg(p)) /\ inbox[p] \in Seq(OwnMsg(p))
    BY DEF TokenInv, Messages
  <2>3. Tail(chan[p]) \in Seq(OwnMsg(p)) /\ Append(inbox[p], Head(chan[p])) \in Seq(OwnMsg(p))
    BY <2>1, <2>2
  <2>4. Messages'
    BY <2>1, <2>3 DEF TokenInv, Messages, OwnMsg
  <2> QED BY <2>1, <2>4 DEF TokenInv, OneServes, Entries, Registering, Matched, IsEntry, TokenIsOwn
<1>2. CASE PrvPunch(p)
  <2>1. /\ inbox[p] # <<>> /\ inbox' = [inbox EXCEPT ![p] = Tail(inbox[p])]
        /\ ltok' = [ltok EXCEPT ![p] = Head(inbox[p]).nonce] \/ ltok' = ltok
        /\ UNCHANGED <<reg, udp, psrv, pending, rx, chan, broker>>
    BY <1>2 DEF PrvPunch, srvp_vars, link_vars
  <2>2. inbox[p] \in Seq(OwnMsg(p)) /\ ltok = [q \in Providers |-> ltok[q]]
    BY DEF TokenInv, Messages
  <2>3. Tail(inbox[p]) \in Seq(OwnMsg(p)) /\ Head(inbox[p]) \in OwnMsg(p)
    BY <2>1, <2>2
  <2>4. Head(inbox[p]).nonce = p
    BY <2>3 DEF OwnMsg
  <2>5. Messages'
    BY <2>1, <2>2, <2>3 DEF TokenInv, Messages, OwnMsg
  <2>6. TokenIsOwn'
    BY <2>1, <2>2, <2>4 DEF TokenInv, TokenIsOwn
  <2> QED BY <2>1, <2>5, <2>6 DEF TokenInv, OneServes, Entries, Registering, Matched, IsEntry
<1>3. CASE PrvEnds(p)
  <2>1. /\ inbox' = [inbox EXCEPT ![p] = <<>>]
        /\ UNCHANGED <<reg, udp, psrv, pending, rx, chan, ltok, broker>>
    BY <1>3 DEF PrvEnds, srvp_vars, link_vars
  <2>2. Messages'
    BY <2>1 DEF TokenInv, Messages, OwnMsg
  <2> QED BY <2>1, <2>2 DEF TokenInv, OneServes, Entries, Registering, Matched, IsEntry, TokenIsOwn
<1>4. CASE \/ PrvOffer(p) \/ PrvListens(p) \/ PrvAdmit(p) \/ PrvRepunch(p)
           \/ \E c \in Consumers : PrvAccept(p, c)
  <2>1. UNCHANGED <<reg, udp, psrv, pending, rx, chan, inbox, ltok, broker>>
    BY <1>4, Zenon DEF PrvOffer, PrvListens, PrvAdmit, PrvRepunch, PrvAccept, srvp_vars, link_vars
  <2> QED BY <2>1, TokenUntouched
<1> QED BY <1>1, <1>2, <1>3, <1>4 DEF Provider

\* Every step of providers, broker, proxies and network keeps the invariant.
LEMMA TokenStep == TokenInv /\ [Next]_vars => TokenInv'
<1> SUFFICES ASSUME TokenInv, [Next]_vars PROVE TokenInv'
  OBVIOUS
<1>1. CASE UNCHANGED vars
  BY <1>1, TokenUntouched DEF vars, srvp_vars, prov_vars, link_vars
<1>2. ASSUME NEW p \in Providers, SrvProvider(p) PROVE TokenInv'
  BY <1>2, TokenRegister, TokenLeave, TokenOffer, TokenProvider DEF SrvProvider
<1>3. ASSUME NEW p \in Providers, Provider(p) PROVE TokenInv'
  BY <1>3, TokenProvider
<1>4. ASSUME NEW p \in Providers, BreakProvider(p) PROVE TokenInv'
  BY <1>4, TokenUntouched DEF BreakProvider, srvp_vars, prov_vars, link_vars
<1>5. ASSUME NEW c \in Consumers, SrvConsumer(c) PROVE TokenInv'
  BY <1>5, TokenBroker
<1>6. ASSUME NEW c \in Consumers,
             Proxy(c) \/ ConGivesUp(c) \/ Task(c) \/ BreakConsumer(c) \/ BreakPath(c)
      PROVE  TokenInv'
  <2>1. UNCHANGED others_vars /\ UNCHANGED broker
    BY <1>6, Zenon DEF Proxy, Task, ConRecv, ConGather, ConKick, ConMessage, ConSendsOffer, ConNoOffer,
       ConDone, ConEnds, ConGivesUp, TaskGather, TaskTakes, DialFails, BreakConsumer, BreakPath, link_vars
  <2> QED BY <2>1, TokenUntouched DEF others_vars, srvp_vars
<1> QED BY <1>1, <1>2, <1>3, <1>4, <1>5, <1>6 DEF Next

\* No provider accepts a token made from the nonce of another one, for any number of
\* providers that follow each other under an id and however their registrations overlap.
THEOREM TokensAreOwn == Spec => []TokenIsOwn
<1>1. TokenInv => TokenIsOwn
  BY DEF TokenInv
<1> QED BY <1>1, TokenInit, TokenStep, PTL DEF Spec

-----------------------------------------------------------------------------
(* A provider whose candidates were taken is the one that is brokered.     *)

OwnEntryOf(p) == [n |-> 0, nonce |-> p, chan |-> p, prov |-> p]
HalfEntryOf(p) == [n |-> 0, nonce |-> None, chan |-> p, prov |-> p]

\* Before it registers, a provider has offered nothing.
Fresh ==
    /\ sock = [p \in Providers |-> sock[p]] /\ offered = [p \in Providers |-> offered[p]]
    /\ pcli = [p \in Providers |-> pcli[p]]
    /\ \A p \in Providers : psrv[p] = "new" => pcli[p] = "new" /\ sock[p] = "none"

\* An entry is there only as long as a provider is registered or is being removed.
EntryHasCause == udp # NoBroker => \E p \in Providers : psrv[p] \in {"serve", "left"}

\* The entry of a provider that registered when nobody was being removed: its own
\* registration, from its offer to the entry.
Alone(p) ==
    /\ \A q \in Providers : psrv[q] # "left"
    /\ udp \in {NoBroker, OwnEntryOf(p)} /\ (udp # NoBroker => p \in rx)
    /\ pending[p] \in {NoBroker, HalfEntryOf(p), OwnEntryOf(p)}
    /\ sock[p] # "none" /\ ~offered[p] /\ pending[p] = NoBroker => udp = OwnEntryOf(p)

BrokeredInv ==
    /\ TokenInv /\ Fresh /\ EntryHasCause
    /\ \A p \in Providers \ overlap : psrv[p] = "serve" => Alone(p)

\* Before any provider registers there is no entry.
LEMMA BrokeredInit == Init => BrokeredInv
BY TokenInit DEF Init, BrokeredInv, Fresh, EntryHasCause

\* Steps that touch neither the registry nor the offers of a provider.
LEMMA BrokeredUntouched ==
    ASSUME BrokeredInv, TokenInv', UNCHANGED <<udp, psrv, pending, rx, sock, offered, pcli, overlap>>
    PROVE  BrokeredInv'
BY DEF BrokeredInv, Fresh, EntryHasCause, Alone

\* The id is given to p: nobody is registered, and p is alone unless somebody is
\* being removed.
LEMMA BrokeredRegister ==
    ASSUME BrokeredInv, TokenInv', NEW p \in Providers, SrvRegister(p)
    PROVE  BrokeredInv'
<1>1. /\ psrv[p] = "new" /\ reg = None /\ psrv' = [psrv EXCEPT ![p] = "serve"]
      /\ pcli' = [pcli EXCEPT ![p] = "run"]
      /\ overlap' = IF \E q \in Providers : psrv[q] = "left" THEN overlap \cup {p} ELSE overlap
      /\ UNCHANGED <<udp, pending, rx, sock, offered>>
  BY DEF SrvRegister
<1>2. psrv \in [Providers -> PsrvStates] /\ \A q \in Providers : psrv[q] # "serve"
  BY <1>1, NameAssumption DEF BrokeredInv, TokenInv, OneServes, None
<1>3. Fresh' /\ EntryHasCause'
  BY <1>1, <1>2 DEF BrokeredInv, Fresh, EntryHasCause, PsrvStates
<1>4. ASSUME NEW q \in Providers \ overlap', psrv'[q] = "serve" PROVE Alone(q)'
  <2>1. q = p
    BY <1>1, <1>2, <1>4
  <2>2. \A o \in Providers : psrv[o] # "left"
    BY <1>1, <1>4, <2>1
  <2>3. udp = NoBroker
    BY <1>2, <2>2 DEF BrokeredInv, EntryHasCause
  <2>4. pending[p] = NoBroker
    BY <1>1 DEF BrokeredInv, TokenInv, Entries, Registering
  <2>5. sock[p] = "none"
    BY <1>1 DEF BrokeredInv, Fresh
  <2> QED BY <1>1, <1>2, <2>1, <2>2, <2>3, <2>4, <2>5 DEF Alone
<1> QED BY <1>3, <1>4 DEF BrokeredInv

\* The end of a registration: an entry that stays belongs to a provider that is
\* being removed, and with the last of these it is gone.
LEMMA BrokeredLeave ==
    ASSUME BrokeredInv, TokenInv', NEW p \in Providers, SrvLeave(p) \/ SrvDropUdp(p)
    PROVE  BrokeredInv'
<1>0. psrv \in [Providers -> PsrvStates]
  BY DEF BrokeredInv, TokenInv, OneServes
<1>1. CASE SrvLeave(p)
  <2>1. /\ psrv[p] = "serve" /\ psrv' = [psrv EXCEPT ![p] = "left"]
        /\ UNCHANGED <<udp, sock, offered, pcli, overlap>>
    BY <1>1 DEF SrvLeave, prov_vars
  <2>2. \A q \in Providers : psrv'[q] # "serve"
    BY <1>0, <2>1 DEF BrokeredInv, TokenInv, OneServes
  <2>3. Fresh' /\ EntryHasCause'
    BY <1>0, <2>1 DEF BrokeredInv, Fresh, EntryHasCause
  <2> QED BY <2>2, <2>3 DEF BrokeredInv
<1>2. CASE SrvDropUdp(p)
  <2>1. /\ psrv[p] = "left" /\ psrv' = [psrv EXCEPT ![p] = "gone"] /\ udp' = NoBroker
        /\ UNCHANGED <<sock, offered, pcli, overlap>>
    BY <1>2 DEF SrvDropUdp, prov_vars
  <2>2. \A q \in Providers \ overlap : psrv[q] # "serve"
    BY <2>1 DEF BrokeredInv, Alone
  <2>3. \A q \in Providers \ overlap' : psrv'[q] # "serve"
    BY <1>0, <2>1, <2>2
  <2>4. Fresh' /\ EntryHasCause'
    BY <1>0, <2>1 DEF BrokeredInv, Fresh, EntryHasCause
  <2> QED BY <2>3, <2>4 DEF BrokeredInv
<1> QED BY <1>1, <1>2

\* register_provider_udp_offer: a provider that is alone finds no channel and no
\* nonce but its own.
LEMMA BrokeredOffer ==
    ASSUME BrokeredInv, TokenInv', NEW p \in Providers,
           SrvOfferChan(p) \/ SrvOfferNonce(p) \/ SrvOfferInsert(p)
    PROVE  BrokeredInv'
<1>0. None \notin Providers
  BY NameAssumption DEF None
<1>1. UNCHANGED <<psrv, sock, pcli, overlap>> /\ pending = [q \in Providers |-> pending[q]]
  BY DEF SrvOfferChan, SrvOfferNonce, SrvOfferInsert, prov_vars, BrokeredInv, TokenInv, Entries
<1>2. psrv[p] = "serve"
  <2>1. CASE SrvOfferChan(p)
    BY <2>1 DEF SrvOfferChan
  <2>2. CASE SrvOfferNonce(p) \/ SrvOfferInsert(p)
    <3>1. pending[p] # NoBroker
      BY <2>2 DEF SrvOfferNonce, SrvOfferInsert, NoBroker
    <3> QED BY <3>1 DEF BrokeredInv, TokenInv, Entries, Registering
  <2> QED BY <2>1, <2>2
<1>3. \A q \in Providers : psrv[q] = "serve" => q = p
  BY <1>2 DEF BrokeredInv, TokenInv, OneServes
<1>4. OwnEntryOf(p) # NoBroker /\ HalfEntryOf(p) # NoBroker /\ OwnEntryOf(p) # HalfEntryOf(p)
  <2>1. OwnEntryOf(p).nonce = p /\ HalfEntryOf(p).nonce = None /\ HalfEntryOf(p).chan = p
    BY DEF OwnEntryOf, HalfEntryOf
  <2>2. NoBroker.nonce = None /\ NoBroker.chan = None
    BY DEF NoBroker
  <2> QED BY <1>0, <2>1, <2>2
<1>5. Fresh' /\ EntryHasCause'
  <2>1. offered' = [q \in Providers |-> offered'[q]]
    BY DEF SrvOfferChan, SrvOfferNonce, SrvOfferInsert, BrokeredInv, Fresh
  <2> QED BY <1>1, <1>2, <2>1 DEF BrokeredInv, Fresh, EntryHasCause
<1>6. ASSUME p \notin overlap PROVE Alone(p)'
  <2>1. Alone(p)
    BY <1>2, <1>6 DEF BrokeredInv
  <2>2. CASE SrvOfferChan(p)
    <3>1. udp = NoBroker \/ udp.chan = p
      BY <2>1 DEF Alone, OwnEntryOf
    <3>2. pending' = [pending EXCEPT ![p] = HalfEntryOf(p)] /\ UNCHANGED <<udp, rx>>
      BY <2>2, <3>1 DEF SrvOfferChan, HalfEntryOf
    <3>3. pending'[p] = HalfEntryOf(p)
      BY <1>1, <3>2
    <3> QED BY <1>1, <1>4, <2>1, <3>2, <3>3 DEF Alone, OwnEntryOf, HalfEntryOf
  <2>3. CASE SrvOfferNonce(p)
    <3>1. /\ pending[p].chan # None /\ pending[p].nonce = None
          /\ UNCHANGED <<udp, rx, offered>>
      BY <2>3 DEF SrvOfferNonce
    <3>2. pending[p] = HalfEntryOf(p)
      BY <1>0, <2>1, <3>1 DEF Alone, OwnEntryOf, NoBroker
    <3>3. (IF udp = NoBroker THEN p ELSE udp.nonce) = p
      BY <2>1 DEF Alone, OwnEntryOf
    <3>4. pending' = [pending EXCEPT ![p].nonce = p]
      BY <2>3, <3>3 DEF SrvOfferNonce
    <3>5. [HalfEntryOf(p) EXCEPT !.nonce = p] = OwnEntryOf(p)
      BY DEF HalfEntryOf, OwnEntryOf
    <3>6. pending'[p] = OwnEntryOf(p)
      BY <1>1, <3>2, <3>4, <3>5
    <3> QED BY <1>1, <1>4, <2>1, <3>1, <3>6 DEF Alone, OwnEntryOf, HalfEntryOf
  <2>4. CASE SrvOfferInsert(p)
    <3>1. /\ pending[p].nonce # None /\ udp' = pending[p]
          /\ rx' = IF pending[p].chan = p THEN rx \cup {p} ELSE rx
          /\ pending' = [pending EXCEPT ![p] = NoBroker] /\ UNCHANGED offered
      BY <2>4 DEF SrvOfferInsert
    <3>2. pending[p] = OwnEntryOf(p)
      BY <2>1, <3>1 DEF Alone, HalfEntryOf, NoBroker
    <3>3. pending[p].chan = p
      BY <3>2 DEF OwnEntryOf
    <3>4. p \in rx' /\ pending'[p] = NoBroker /\ udp' = OwnEntryOf(p)
      BY <1>1, <3>1, <3>2, <3>3
    <3> QED BY <1>1, <1>4, <2>1, <3>4 DEF Alone, OwnEntryOf, HalfEntryOf
  <2> QED BY <2>2, <2>3, <2>4
<1> QED BY <1>1, <1>3, <1>5, <1>6 DEF BrokeredInv

\* A provider offers its candidates once it is registered.
LEMMA BrokeredProvider ==
    ASSUME BrokeredInv, TokenInv', NEW p \in Providers, PrvOffer(p) \/ PrvPunch(p) \/ PrvEnds(p)
    PROVE  BrokeredInv'
<1>1. UNCHANGED <<udp, psrv, pending, rx, overlap>> /\ psrv[p] # "new"
  BY DEF PrvOffer, PrvPunch, PrvEnds, srvp_vars, BrokeredInv, Fresh
<1>2. Fresh
  BY DEF BrokeredInv
<1>3. /\ sock' = [q \in Providers |-> sock'[q]] /\ offered' = [q \in Providers |-> offered'[q]]
      /\ pcli' = [q \in Providers |-> pcli'[q]]
      /\ \A q \in Providers : q # p => sock'[q] = sock[q] /\ pcli'[q] = pcli[q]
  BY <1>2 DEF PrvOffer, PrvPunch, PrvEnds, srvp_vars, Fresh
<1>4. Fresh' /\ EntryHasCause'
  BY <1>1, <1>3 DEF BrokeredInv, Fresh, EntryHasCause
<1>5. ASSUME NEW q \in Providers, ~offered'[q] PROVE ~offered[q] /\ (sock[q] = "none" => sock'[q] = "none")
  BY <1>2, <1>5 DEF PrvOffer, PrvPunch, PrvEnds, srvp_vars, Fresh
<1>6. ASSUME NEW q \in Providers \ overlap', psrv'[q] = "serve" PROVE Alone(q)'
  BY <1>1, <1>5, <1>6, Zenon DEF BrokeredInv, Alone, OwnEntryOf, HalfEntryOf
<1> QED BY <1>4, <1>6 DEF BrokeredInv

\* Every step keeps the invariant.
LEMMA BrokeredStep == BrokeredInv /\ [Next]_vars => BrokeredInv'
<1> SUFFICES ASSUME BrokeredInv, [Next]_vars PROVE BrokeredInv'
  OBVIOUS
<1>0. TokenInv'
  BY TokenStep DEF BrokeredInv
<1>1. CASE UNCHANGED vars
  BY <1>0, <1>1, BrokeredUntouched DEF vars, srvp_vars, prov_vars
<1>2. ASSUME NEW p \in Providers, SrvProvider(p) PROVE BrokeredInv'
  <2>1. CASE SrvForward(p)
    BY <1>0, <2>1, BrokeredUntouched DEF SrvForward
  <2> QED BY <1>0, <1>2, <2>1, BrokeredRegister, BrokeredLeave, BrokeredOffer DEF SrvProvider
<1>3. ASSUME NEW p \in Providers, Provider(p) PROVE BrokeredInv'
  <2>1. CASE PrvListens(p) \/ PrvAdmit(p) \/ PrvRepunch(p) \/ \E c \in Consumers : PrvAccept(p, c)
    <3>1. UNCHANGED <<udp, psrv, pending, rx, sock, offered, pcli, overlap>>
      BY <2>1, Zenon DEF PrvListens, PrvAdmit, PrvRepunch, PrvAccept, srvp_vars
    <3> QED BY <1>0, <3>1, BrokeredUntouched
  <2> QED BY <1>0, <1>3, <2>1, BrokeredProvider DEF Provider
<1>4. ASSUME NEW p \in Providers, BreakProvider(p) PROVE BrokeredInv'
  BY <1>0, <1>4, BrokeredUntouched DEF BreakProvider, srvp_vars, prov_vars
<1>5. ASSUME NEW c \in Consumers, SrvConsumer(c) PROVE BrokeredInv'
  <2>1. UNCHANGED <<udp, psrv, pending, rx, sock, offered, pcli, overlap>>
    BY <1>5, Zenon DEF SrvConsumer, SrvHint, SrvBroker, SrvTell, srvp_vars, prov_vars
  <2> QED BY <1>0, <2>1, BrokeredUntouched
<1>6. ASSUME NEW c \in Consumers,
             Proxy(c) \/ ConGivesUp(c) \/ Task(c) \/ BreakConsumer(c) \/ BreakPath(c)
      PROVE  BrokeredInv'
  <2>1. UNCHANGED others_vars
    BY <1>6, Zenon DEF Proxy, Task, ConRecv, ConGather, ConKick, ConMessage, ConSendsOffer, ConNoOffer,
       ConDone, ConEnds, ConGivesUp, TaskGather, TaskTakes, DialFails, BreakConsumer, BreakPath
  <2> QED BY <1>0, <2>1, BrokeredUntouched DEF others_vars, srvp_vars
<1> QED BY <1>1, <1>2, <1>3, <1>4, <1>5, <1>6 DEF Next

\* Consumers are brokered to the provider whose candidates the server has taken, with
\* its nonce and over its channel, for any number of providers that follow each other,
\* unless it came while Deregister of another was between its two removals.
THEOREM ProvidersAreBrokered == Spec => []Brokered
<1>1. BrokeredInv => Brokered
  <2> SUFFICES ASSUME BrokeredInv, NEW p \in Providers \ overlap, psrv[p] = "serve",
                      sock[p] # "none" /\ ~offered[p] /\ pending[p] = NoBroker
               PROVE  udp = OwnEntryOf(p) /\ p \in rx
    BY DEF Brokered, OwnEntryOf
  <2>1. Alone(p)
    BY DEF BrokeredInv
  <2>2. OwnEntryOf(p).nonce # NoBroker.nonce
    BY NameAssumption DEF OwnEntryOf, NoBroker, None
  <2> QED BY <2>1, <2>2 DEF Alone
<1> QED BY <1>1, BrokeredInit, BrokeredStep, PTL DEF Spec

-----------------------------------------------------------------------------
(* An attempt acts on the answer to its own candidates.                    *)

Names   == Providers \cup {None}
Request == [k : {"hint", "offer"}, n : Nat]
Answer  == [k : {"hint", "unavailable", "punch"}, to : Nat, nonce : Names, prov : Names]
Given   == [to : Nat, nonce : Names, prov : Names]

Offers(q)    == {i \in 1 .. Len(q) : q[i].k = "offer"}
Decisions(m) == {i \in 1 .. Len(m) : m[i].k # "hint"}

\* No offer and no decision of the broker is under way between a consumer and the server.
Silent(q, b, m) == Offers(q) = {} /\ b = NoBroker /\ Decisions(m) = {}

\* One at most is, and it is that of the attempt n.
OneUnderWay(q, b, m, n) ==
    /\ \A i \in Offers(q) : q[i].n = n /\ b = NoBroker /\ Decisions(m) = {} /\ Offers(q) = {i}
    /\ b # NoBroker => b.n = n /\ Decisions(m) = {}
    /\ \A i \in Decisions(m) : m[i].to = n /\ Decisions(m) = {i}

ConRecord ==
    [st : {"hint", "gather", "reply", "dial", "listen", "gone"}, n : Nat \ {0}, waiting : BOOLEAN,
     task : {"off", "gather", "wait", "dial", "won", "ended"}, cand : {"none", "empty", "full"},
     punch : BOOLEAN, done : BOOLEAN, got : Given, late : BOOLEAN, path : Names, cut : BOOLEAN]

\* The Proxy and its task, whatever answers come late.
Shape(r) ==
    /\ r \in ConRecord
    /\ r.task = "off" => ~r.punch /\ r.cand = "none" /\ ~r.done
    /\ r.task # "off" => r.done
    /\ r.waiting => r.task = "off" /\ r.st = "listen"
    /\ r.task \in {"dial", "won"} => ~r.punch
    /\ r.st # "listen" => r.task = "off" /\ r.n = 1 /\ ~r.late
    /\ r.got # NoAnswer => r.st = "dial" \/ (~r.punch /\ r.task # "off")

\* Its offer is out and its answer is not in.
Awaiting(r) == r.st = "reply" \/ (r.task = "wait" /\ r.cand = "none" /\ r.punch)

\* Where the candidates and the answer of an attempt are at each step.
InStep(r) ==
    /\ r.task = "gather" => r.punch /\ r.cand = "empty"
    /\ r.task = "wait" => \/ r.cand = "full" /\ r.punch
                          \/ r.cand = "none" /\ (r.punch \/ r.got # NoAnswer)
    /\ r.task \in {"dial", "won"} => r.cand = "none"
    /\ r.task = "ended" => (r.cand = "empty" /\ r.punch) \/ (r.cand = "none" /\ ~r.punch)
    /\ r.got # NoAnswer => r.got.to = r.n

\* Unless the first negotiation gave its answer up.
Attempt(r, q, b, m) ==
    /\ Shape(r) /\ q \in Seq(Request) /\ m \in Seq(Answer)
    /\ ~r.late /\ r.st # "gone" =>
         /\ InStep(r)
         /\ Awaiting(r) => OneUnderWay(q, b, m, r.n)
         /\ ~Awaiting(r) => Silent(q, b, m)

\* A message that is not an offer, at either end of the requests.
LEMMA HintAsked ==
    ASSUME NEW q \in Seq(Request), NEW b, NEW m, NEW n, NEW x \in Request, x.k = "hint"
    PROVE  /\ Append(q, x) \in Seq(Request)
           /\ Silent(q, b, m) => Silent(Append(q, x), b, m)
           /\ OneUnderWay(q, b, m, n) => OneUnderWay(Append(q, x), b, m, n)
<1> DEFINE s == Append(q, x)
<1>1. s \in Seq(Request) /\ Len(s) = Len(q) + 1 /\ (\A i \in 1 .. Len(q) : s[i] = q[i]) /\ s[Len(q) + 1] = x
  OBVIOUS
<1> HIDE DEF s
<1>2. Offers(s) = Offers(q) /\ \A i \in Offers(q) : s[i] = q[i]
  BY <1>1 DEF Offers
<1> QED BY <1>1, <1>2, Zenon DEF Silent, OneUnderWay, s

\* Taking a hint off the requests changes nothing about the offers under way.
LEMMA HintTaken ==
    ASSUME NEW q \in Seq(Request), NEW b, NEW m, NEW n, q # <<>>, Head(q).k = "hint"
    PROVE  /\ Tail(q) \in Seq(Request)
           /\ Silent(q, b, m) => Silent(Tail(q), b, m)
           /\ OneUnderWay(q, b, m, n) => OneUnderWay(Tail(q), b, m, n)
<1> DEFINE s == Tail(q)
<1>1. /\ s \in Seq(Request) /\ Len(q) \in Nat /\ Len(q) = Len(s) + 1 /\ q[1].k = "hint"
      /\ \A i \in 1 .. Len(s) : s[i] = q[i + 1]
  OBVIOUS
<1> HIDE DEF s
<1>2. \A i \in Offers(s) : i + 1 \in Offers(q) /\ s[i] = q[i + 1]
  BY <1>1 DEF Offers
<1>3. Offers(s) \subseteq Nat
  BY DEF Offers
<1>5. ASSUME OneUnderWay(q, b, m, n) PROVE OneUnderWay(s, b, m, n)
  <2>1. ASSUME NEW i \in Offers(s)
        PROVE  s[i].n = n /\ b = NoBroker /\ Decisions(m) = {} /\ Offers(s) = {i}
    <3>1. q[i + 1].n = n /\ b = NoBroker /\ Decisions(m) = {} /\ Offers(q) = {i + 1}
      BY <1>2, <1>5, <2>1 DEF OneUnderWay
    <3>2. \A j \in Offers(s) : j = i
      BY <1>2, <1>3, <2>1, <3>1
    <3> QED BY <1>2, <2>1, <3>1, <3>2
  <2> QED BY <1>5, <2>1 DEF OneUnderWay
<1>6. Silent(q, b, m) => Silent(s, b, m)
  BY <1>2 DEF Silent
<1> QED BY <1>1, <1>5, <1>6 DEF s

\* The same for the answers.
LEMMA HintAnswered ==
    ASSUME NEW m \in Seq(Answer), NEW b, NEW q, NEW n, NEW x \in Answer, x.k = "hint"
    PROVE  /\ Append(m, x) \in Seq(Answer)
           /\ Silent(q, b, m) => Silent(q, b, Append(m, x))
           /\ OneUnderWay(q, b, m, n) => OneUnderWay(q, b, Append(m, x), n)
<1> DEFINE s == Append(m, x)
<1>1. s \in Seq(Answer) /\ Len(s) = Len(m) + 1 /\ (\A i \in 1 .. Len(m) : s[i] = m[i]) /\ s[Len(m) + 1] = x
  OBVIOUS
<1> HIDE DEF s
<1>2. Decisions(s) = Decisions(m) /\ \A i \in Decisions(m) : s[i] = m[i]
  BY <1>1 DEF Decisions
<1> QED BY <1>1, <1>2, Zenon DEF Silent, OneUnderWay, s

\* Reading a hint changes nothing about the decisions on their way.
LEMMA HintRead ==
    ASSUME NEW m \in Seq(Answer), NEW b, NEW q, NEW n, m # <<>>, Head(m).k = "hint"
    PROVE  /\ Tail(m) \in Seq(Answer)
           /\ Silent(q, b, m) => Silent(q, b, Tail(m))
           /\ OneUnderWay(q, b, m, n) => OneUnderWay(q, b, Tail(m), n)
<1> DEFINE s == Tail(m)
<1>1. /\ s \in Seq(Answer) /\ Len(m) \in Nat /\ Len(m) = Len(s) + 1 /\ m[1].k = "hint"
      /\ \A i \in 1 .. Len(s) : s[i] = m[i + 1]
  OBVIOUS
<1> HIDE DEF s
<1>2. \A i \in Decisions(s) : i + 1 \in Decisions(m) /\ s[i] = m[i + 1]
  BY <1>1 DEF Decisions
<1>3. Decisions(s) \subseteq Nat
  BY DEF Decisions
<1>5. ASSUME OneUnderWay(q, b, m, n) PROVE OneUnderWay(q, b, s, n)
  <2>1. ASSUME NEW i \in Decisions(s) PROVE s[i].to = n /\ Decisions(s) = {i}
    <3>1. m[i + 1].to = n /\ Decisions(m) = {i + 1}
      BY <1>2, <1>5, <2>1 DEF OneUnderWay
    <3>2. \A j \in Decisions(s) : j = i
      BY <1>2, <1>3, <2>1, <3>1
    <3> QED BY <1>2, <2>1, <3>1, <3>2
  <2>2. Decisions(m) = {} => Decisions(s) = {}
    BY <1>2
  <2> QED BY <1>5, <2>1, <2>2 DEF OneUnderWay
<1>6. Silent(q, b, m) => Silent(q, b, s)
  BY <1>2 DEF Silent
<1> QED BY <1>1, <1>5, <1>6 DEF s

\* An offer is sent when nothing is under way.
LEMMA OfferSent ==
    ASSUME NEW q \in Seq(Request), NEW b, NEW m, Silent(q, b, m), NEW x \in Request, x.k = "offer"
    PROVE  OneUnderWay(Append(q, x), b, m, x.n)
<1> DEFINE s == Append(q, x)
<1>1. s \in Seq(Request) /\ Len(s) = Len(q) + 1 /\ (\A i \in 1 .. Len(q) : s[i] = q[i]) /\ s[Len(q) + 1] = x
  OBVIOUS
<1> HIDE DEF s
<1>2. Offers(s) = {Len(q) + 1}
  BY <1>1 DEF Offers, Silent
<1> QED BY <1>1, <1>2 DEF OneUnderWay, Silent, s

\* The broker takes the offer that is under way.
LEMMA OfferTaken ==
    ASSUME NEW q \in Seq(Request), NEW m, NEW n, q # <<>>, Head(q).k = "offer"
    PROVE  /\ ~Silent(q, NoBroker, m) /\ Tail(q) \in Seq(Request)
           /\ OneUnderWay(q, NoBroker, m, n) => Head(q).n = n /\ Silent(Tail(q), NoBroker, m)
<1> DEFINE s == Tail(q)
<1>1. /\ s \in Seq(Request) /\ Len(q) \in Nat /\ Len(q) = Len(s) + 1 /\ q[1].k = "offer"
      /\ q[1] = Head(q) /\ \A i \in 1 .. Len(s) : s[i] = q[i + 1]
  OBVIOUS
<1> HIDE DEF s
<1>2. 1 \in Offers(q)
  BY <1>1 DEF Offers
<1>3. \A i \in Offers(s) : i \in Nat /\ i + 1 \in Offers(q) /\ i + 1 # 1
  BY <1>1 DEF Offers
<1>4. ASSUME OneUnderWay(q, NoBroker, m, n) PROVE Head(q).n = n /\ Silent(s, NoBroker, m)
  <2>1. Head(q).n = n /\ Decisions(m) = {} /\ Offers(q) = {1}
    BY <1>1, <1>2, <1>4 DEF OneUnderWay
  <2>2. Offers(s) = {}
    BY <1>3, <2>1
  <2> QED BY <2>1, <2>2 DEF Silent
<1> QED BY <1>1, <1>2, <1>4 DEF Silent, s

\* The broker's decision is sent when it is all that is under way.
LEMMA DecisionSent ==
    ASSUME NEW q, NEW m \in Seq(Answer), Silent(q, NoBroker, m), NEW x \in Answer, x.k # "hint"
    PROVE  OneUnderWay(q, NoBroker, Append(m, x), x.to)
<1> DEFINE s == Append(m, x)
<1>1. s \in Seq(Answer) /\ Len(s) = Len(m) + 1 /\ (\A i \in 1 .. Len(m) : s[i] = m[i]) /\ s[Len(m) + 1] = x
  OBVIOUS
<1> HIDE DEF s
<1>2. Decisions(s) = {Len(m) + 1}
  BY <1>1 DEF Decisions, Silent
<1> QED BY <1>1, <1>2 DEF OneUnderWay, Silent, s

\* The decision that is under way arrives.
LEMMA DecisionRead ==
    ASSUME NEW q, NEW b, NEW m \in Seq(Answer), NEW n, m # <<>>, Head(m).k # "hint"
    PROVE  /\ ~Silent(q, b, m) /\ Tail(m) \in Seq(Answer)
           /\ OneUnderWay(q, b, m, n) => Head(m).to = n /\ Silent(q, b, Tail(m))
<1> DEFINE s == Tail(m)
<1>1. /\ s \in Seq(Answer) /\ Len(m) \in Nat /\ Len(m) = Len(s) + 1 /\ m[1].k # "hint"
      /\ m[1] = Head(m) /\ \A i \in 1 .. Len(s) : s[i] = m[i + 1]
  OBVIOUS
<1> HIDE DEF s
<1>2. 1 \in Decisions(m)
  BY <1>1 DEF Decisions
<1>3. \A i \in Decisions(s) : i \in Nat /\ i + 1 \in Decisions(m) /\ i + 1 # 1
  BY <1>1 DEF Decisions
<1>4. ASSUME OneUnderWay(q, b, m, n) PROVE Head(m).to = n /\ Silent(q, b, s)
  <2>1. Head(m).to = n /\ Decisions(m) = {1} /\ b = NoBroker /\ Offers(q) = {}
    BY <1>1, <1>2, <1>4 DEF OneUnderWay
  <2>2. Decisions(s) = {}
    BY <1>3, <2>1
  <2> QED BY <2>1, <2>2 DEF Silent
<1> QED BY <1>1, <1>2, <1>4 DEF Silent, s

\* An answer that names an attempt is an answer.
LEMMA AnswerNames ==
    ASSUME NEW x \in Answer
    PROVE  /\ [to |-> x.to, nonce |-> x.nonce, prov |-> x.prov] \in Given
           /\ x.to # 0 => [to |-> x.to, nonce |-> x.nonce, prov |-> x.prov] # NoAnswer
BY DEF Answer, Given, NoAnswer

\* A proxy that starts, and one that is gone.
LEMMA NewAttempt ==
    /\ NoAnswer \in Given
    /\ Shape(NewCon) /\ InStep(NewCon) /\ ~Awaiting(NewCon)
    /\ Shape([NewCon EXCEPT !.st = "gone"])
<1>1. NoAnswer \in Given
  BY DEF NoAnswer, Given, Names
<1>2. NewCon \in ConRecord
  BY <1>1 DEF NewCon, ConRecord, Names
<1>3. /\ NewCon.st = "hint" /\ NewCon.task = "off" /\ NewCon.cand = "none" /\ NewCon.got = NoAnswer
      /\ NewCon.n = 1 /\ ~NewCon.punch /\ ~NewCon.done /\ ~NewCon.waiting /\ ~NewCon.late
  BY DEF NewCon
<1> DEFINE r == [NewCon EXCEPT !.st = "gone"]
<1> HIDE DEF NewCon
<1>4. /\ r \in ConRecord /\ r.st = "gone" /\ r.task = "off" /\ r.cand = "none" /\ r.got = NoAnswer /\ r.n = 1
      /\ (r.punch => NewCon.punch) /\ (r.done => NewCon.done) /\ (r.waiting => NewCon.waiting)
      /\ (r.late => NewCon.late)
  BY <1>2, <1>3 DEF ConRecord
<1> HIDE DEF r
<1>5. Shape(r)
  BY <1>3, <1>4 DEF Shape
<1> QED BY <1>1, <1>2, <1>3, <1>5 DEF Shape, InStep, Awaiting, r

\* A message while Proxy::new waits for the hint, then for the decision.
LEMMA AttemptRecv ==
    ASSUME NEW r, NEW q, NEW b, NEW m, Attempt(r, q, b, m), r.st \in {"hint", "reply"}, m # <<>>
    PROVE  LET x == Head(m) IN
           Attempt(CASE r.st = "hint" /\ x.k = "hint"         -> [r EXCEPT !.st = "gather"]
                     [] r.st = "reply" /\ x.k = "unavailable" -> [r EXCEPT !.st = "listen"]
                     [] r.st = "reply" /\ x.k = "punch"       ->
                        [r EXCEPT !.st = "dial", !.got = [to |-> x.to, nonce |-> x.nonce, prov |-> x.prov]]
                     [] OTHER -> r, q, b, Tail(m))
<1> DEFINE x == Head(m)
           a == [to |-> x.to, nonce |-> x.nonce, prov |-> x.prov]
           s == CASE r.st = "hint" /\ x.k = "hint"         -> [r EXCEPT !.st = "gather"]
                  [] r.st = "reply" /\ x.k = "unavailable" -> [r EXCEPT !.st = "listen"]
                  [] r.st = "reply" /\ x.k = "punch"       -> [r EXCEPT !.st = "dial", !.got = a]
                  [] OTHER -> r
<1> SUFFICES Attempt(s, q, b, Tail(m))
  OBVIOUS
<1>1. /\ Shape(r) /\ r \in ConRecord /\ q \in Seq(Request)
      /\ m \in Seq(Answer) /\ Tail(m) \in Seq(Answer) /\ x \in Answer
  BY DEF Attempt, Shape
<1>2. x.k # "hint" => x.k \in {"unavailable", "punch"}
  BY <1>1 DEF Answer
<1>3. a \in Given /\ a.to = x.to
  BY <1>1, AnswerNames
<1>4. r.task = "off" /\ r.n = 1 /\ r.got = NoAnswer
  BY <1>1 DEF Shape
<1>5. ASSUME ~r.late PROVE IF r.st = "reply" THEN OneUnderWay(q, b, m, 1) ELSE Silent(q, b, m)
  BY <1>4, <1>5 DEF Attempt, Awaiting
<1> HIDE DEF x, a
<1>6. CASE r.st = "hint" /\ x.k = "hint"
  <2>1. s = [r EXCEPT !.st = "gather"]
    BY <1>6
  <2>2. s \in ConRecord /\ s.st = "gather" /\ s.task = r.task /\ s.n = r.n /\ s.got = r.got /\ s.cand = r.cand
    BY <1>1, <2>1 DEF ConRecord
  <2>3. (s.punch => r.punch) /\ (s.done => r.done) /\ (s.waiting => r.waiting) /\ (s.late => r.late) /\ (r.late => s.late)
    BY <1>1, <2>1 DEF ConRecord
  <2>4. Shape(s) /\ InStep(s) /\ ~Awaiting(s)
    BY <1>1, <1>4, <1>6, <2>2, <2>3 DEF Shape, InStep, Awaiting
  <2>5. ~s.late => Silent(q, b, Tail(m))
    BY <1>1, <1>5, <1>6, <2>3, HintRead DEF x
  <2> QED BY <1>1, <2>4, <2>5 DEF Attempt, x, a
<1>7. CASE r.st = "reply" /\ x.k = "unavailable"
  <2>1. s = [r EXCEPT !.st = "listen"]
    BY <1>7
  <2>2. s \in ConRecord /\ s.st = "listen" /\ s.task = r.task /\ s.n = r.n /\ s.got = r.got /\ s.cand = r.cand
    BY <1>1, <2>1 DEF ConRecord
  <2>3. (s.punch => r.punch) /\ (s.done => r.done) /\ (s.waiting => r.waiting) /\ (s.late => r.late) /\ (r.late => s.late)
    BY <1>1, <2>1 DEF ConRecord
  <2>4. Shape(s) /\ InStep(s) /\ ~Awaiting(s)
    BY <1>1, <1>4, <1>7, <2>2, <2>3 DEF Shape, InStep, Awaiting
  <2>5. ~s.late => Silent(q, b, Tail(m))
    BY <1>1, <1>5, <1>7, <2>3, DecisionRead DEF x
  <2> QED BY <1>1, <2>4, <2>5 DEF Attempt, x, a
<1>8. CASE r.st = "reply" /\ x.k = "punch"
  <2>1. s = [r EXCEPT !.st = "dial", !.got = a]
    BY <1>8
  <2>2. s \in ConRecord /\ s.st = "dial" /\ s.task = r.task /\ s.n = r.n /\ s.got = a /\ s.cand = r.cand
    BY <1>1, <1>3, <2>1 DEF ConRecord
  <2>3. (s.punch => r.punch) /\ (s.done => r.done) /\ (s.waiting => r.waiting) /\ (s.late => r.late) /\ (r.late => s.late)
    BY <1>1, <2>1 DEF ConRecord
  <2>4. Shape(s) /\ ~Awaiting(s)
    BY <1>1, <1>4, <1>8, <2>2, <2>3 DEF Shape, Awaiting
  <2>5. ASSUME ~s.late PROVE InStep(s) /\ Silent(q, b, Tail(m))
    <3>1. x.to = 1 /\ Silent(q, b, Tail(m))
      BY <1>1, <1>5, <1>8, <2>3, <2>5, DecisionRead DEF x
    <3> QED BY <1>3, <1>4, <2>2, <3>1 DEF InStep
  <2> QED BY <1>1, <2>4, <2>5 DEF Attempt, x, a
<1>9. CASE (x.k # "hint" /\ r.st = "hint") \/ (x.k = "hint" /\ r.st = "reply")
  <2>1. s = r
    BY <1>9
  <2>2. ~r.late => IF r.st = "reply" THEN OneUnderWay(q, b, Tail(m), 1) ELSE Silent(q, b, Tail(m))
    BY <1>1, <1>5, <1>9, HintRead, DecisionRead DEF x
  <2> QED BY <1>1, <1>4, <2>1, <2>2 DEF Attempt, Awaiting, x, a
<1> HIDE DEF s
<1> QED BY <1>2, <1>6, <1>7, <1>8, <1>9

\* Proxy::new gives an answer up, has candidates or has none.
LEMMA AttemptStarts ==
    ASSUME NEW r, NEW q, NEW b, NEW m, Attempt(r, q, b, m)
    PROVE  /\ r.st = "hint" => Attempt([r EXCEPT !.st = "listen", !.late = FALSE], q, b, m)
           /\ r.st = "reply" => Attempt([r EXCEPT !.st = "listen", !.late = TRUE], q, b, m)
           /\ r.st = "gather" => Attempt([r EXCEPT !.st = "listen"], q, b, m)
           /\ r.st = "gather" =>
                Attempt([r EXCEPT !.st = "reply"], Append(q, [k |-> "offer", n |-> 1]), b, m)
<1>1. Shape(r) /\ r \in ConRecord /\ q \in Seq(Request) /\ m \in Seq(Answer)
  BY DEF Attempt, Shape
<1> SUFFICES ASSUME r.st \in {"hint", "reply", "gather"}
             PROVE  /\ r.st = "hint" => Attempt([r EXCEPT !.st = "listen", !.late = FALSE], q, b, m)
                    /\ r.st = "reply" => Attempt([r EXCEPT !.st = "listen", !.late = TRUE], q, b, m)
                    /\ r.st = "gather" => Attempt([r EXCEPT !.st = "listen"], q, b, m)
                    /\ r.st = "gather" =>
                         Attempt([r EXCEPT !.st = "reply"], Append(q, [k |-> "offer", n |-> 1]), b, m)
  OBVIOUS
<1>2. r.task = "off" /\ r.n = 1 /\ r.got = NoAnswer
  BY <1>1 DEF Shape
<1>3. ~r.late /\ r.st # "reply" => Silent(q, b, m)
  BY <1>2 DEF Attempt, Awaiting
<1>4. ASSUME NEW s \in ConRecord, s.st = "listen", s.task = r.task, s.n = r.n, s.got = r.got,
             s.cand = r.cand, s.punch => r.punch, s.done => r.done, s.waiting => r.waiting,
             ~s.late => Silent(q, b, m)
      PROVE  Attempt(s, q, b, m)
  <2>1. Shape(s) /\ InStep(s) /\ ~Awaiting(s)
    BY <1>1, <1>2, <1>4 DEF Shape, InStep, Awaiting
  <2> QED BY <1>1, <1>4, <2>1 DEF Attempt
<1>5. r.st = "hint" => Attempt([r EXCEPT !.st = "listen", !.late = FALSE], q, b, m)
  <2> DEFINE s == [r EXCEPT !.st = "listen", !.late = FALSE]
  <2> SUFFICES ASSUME r.st = "hint" PROVE Attempt(s, q, b, m)
    OBVIOUS
  <2>0. ~r.late
    BY <1>1 DEF Shape
  <2>1. /\ s \in ConRecord /\ s.st = "listen" /\ s.task = r.task /\ s.n = r.n /\ s.got = r.got
        /\ s.cand = r.cand
    BY <1>1 DEF ConRecord
  <2>2. (s.punch => r.punch) /\ (s.done => r.done) /\ (s.waiting => r.waiting)
    BY <1>1 DEF ConRecord
  <2> HIDE DEF s
  <2> QED BY <1>3, <1>4, <2>0, <2>1, <2>2
<1>6. r.st = "reply" => Attempt([r EXCEPT !.st = "listen", !.late = TRUE], q, b, m)
  <2> DEFINE s == [r EXCEPT !.st = "listen", !.late = TRUE]
  <2> SUFFICES ASSUME r.st = "reply" PROVE Attempt(s, q, b, m)
    OBVIOUS
  <2>1. /\ s \in ConRecord /\ s.st = "listen" /\ s.task = r.task /\ s.n = r.n /\ s.got = r.got
        /\ s.cand = r.cand /\ s.late
    BY <1>1 DEF ConRecord
  <2>2. (s.punch => r.punch) /\ (s.done => r.done) /\ (s.waiting => r.waiting)
    BY <1>1 DEF ConRecord
  <2> HIDE DEF s
  <2> QED BY <1>4, <2>1, <2>2
<1>7. r.st = "gather" => Attempt([r EXCEPT !.st = "listen"], q, b, m)
  <2> DEFINE s == [r EXCEPT !.st = "listen"]
  <2> SUFFICES ASSUME r.st = "gather" PROVE Attempt(s, q, b, m)
    OBVIOUS
  <2>1. /\ s \in ConRecord /\ s.st = "listen" /\ s.task = r.task /\ s.n = r.n /\ s.got = r.got
        /\ s.cand = r.cand
    BY <1>1 DEF ConRecord
  <2>2. (s.punch => r.punch) /\ (s.done => r.done) /\ (s.waiting => r.waiting) /\ (s.late => r.late) /\ (r.late => s.late)
    BY <1>1 DEF ConRecord
  <2> HIDE DEF s
  <2> QED BY <1>3, <1>4, <2>1, <2>2
<1>8. r.st = "gather" => Attempt([r EXCEPT !.st = "reply"], Append(q, [k |-> "offer", n |-> 1]), b, m)
  <2> DEFINE s == [r EXCEPT !.st = "reply"]
             o == [k |-> "offer", n |-> 1]
  <2> SUFFICES ASSUME r.st = "gather" PROVE Attempt(s, Append(q, o), b, m)
    OBVIOUS
  <2>1. /\ s \in ConRecord /\ s.st = "reply" /\ s.task = r.task /\ s.n = r.n /\ s.got = r.got
        /\ s.cand = r.cand
    BY <1>1 DEF ConRecord
  <2>2. (s.punch => r.punch) /\ (s.done => r.done) /\ (s.waiting => r.waiting) /\ (s.late => r.late) /\ (r.late => s.late)
    BY <1>1 DEF ConRecord
  <2>3. o \in Request /\ o.k = "offer" /\ o.n = 1
    BY DEF Request
  <2> HIDE DEF s, o
  <2>4. Shape(s) /\ InStep(s) /\ Awaiting(s)
    BY <1>1, <1>2, <2>1, <2>2 DEF Shape, InStep, Awaiting
  <2>5. ~s.late => OneUnderWay(Append(q, o), b, m, 1)
    BY <1>1, <1>3, <2>2, <2>3, OfferSent
  <2>6. Append(q, o) \in Seq(Request)
    BY <1>1, <2>3
  <2> QED BY <1>1, <1>2, <2>1, <2>4, <2>5, <2>6 DEF Attempt
<1> QED BY <1>5, <1>6, <1>7, <1>8

\* A step of a proxy that neither waits for an answer nor sends or takes a message.
LEMMA AttemptQuiet ==
    ASSUME NEW r, NEW s, NEW q, NEW b, NEW m, Attempt(r, q, b, m), Shape(s), ~Awaiting(r),
           ~s.late /\ s.st # "gone" => ~r.late /\ r.st # "gone",
           InStep(r) => InStep(s) /\ ~Awaiting(s)
    PROVE  Attempt(s, q, b, m)
BY DEF Attempt

\* The dial of an attempt fails.
LEMMA AttemptFails ==
    ASSUME NEW r, NEW q, NEW b, NEW m, Attempt(r, q, b, m), r.st = "dial" \/ r.task = "dial"
    PROVE  Attempt(Failed(r), q, b, m)
<1> DEFINE s == Failed(r)
<1>1. Shape(r) /\ r \in ConRecord
  BY DEF Attempt, Shape
<1>2. NoAnswer \in Given
  BY NewAttempt
<1>3. CASE r.st = "dial"
  <2>1. s = [r EXCEPT !.st = "listen", !.got = NoAnswer]
    BY <1>3 DEF Failed
  <2>2. /\ s \in ConRecord /\ s.st = "listen" /\ s.task = r.task /\ s.n = r.n /\ s.got = NoAnswer
        /\ s.cand = r.cand
    BY <1>1, <1>2, <2>1 DEF ConRecord
  <2>3. (s.punch => r.punch) /\ (s.done => r.done) /\ (s.waiting => r.waiting)
        /\ (s.late => r.late) /\ (r.late => s.late)
    BY <1>1, <2>1 DEF ConRecord
  <2> HIDE DEF s
  <2>4. Shape(s) /\ InStep(s) /\ ~Awaiting(s) /\ ~Awaiting(r)
    BY <1>1, <1>3, <2>2, <2>3 DEF Shape, InStep, Awaiting
  <2> QED BY <1>3, <2>3, <2>4, AttemptQuiet DEF s
<1>4. CASE r.st # "dial" /\ r.task = "dial"
  <2>1. s = [r EXCEPT !.task = "ended", !.got = NoAnswer]
    BY <1>4 DEF Failed
  <2>2. /\ s \in ConRecord /\ s.st = r.st /\ s.task = "ended" /\ s.n = r.n /\ s.got = NoAnswer
        /\ s.cand = r.cand
    BY <1>1, <1>2, <2>1 DEF ConRecord
  <2>3. (s.punch => r.punch) /\ (r.done => s.done) /\ (s.waiting => r.waiting)
        /\ (s.late => r.late) /\ (r.late => s.late)
    BY <1>1, <2>1 DEF ConRecord
  <2> HIDE DEF s
  <2>4. Shape(s) /\ ~Awaiting(s) /\ ~Awaiting(r) /\ (InStep(r) => InStep(s))
    BY <1>1, <1>4, <2>2, <2>3 DEF Shape, InStep, Awaiting
  <2> QED BY <2>2, <2>3, <2>4, AttemptQuiet DEF s
<1> QED BY <1>3, <1>4

\* The dial succeeds, for Proxy::new and for the task.
LEMMA AttemptWins ==
    ASSUME NEW r, NEW q, NEW b, NEW m, Attempt(r, q, b, m), NEW p \in Providers
    PROVE  /\ r.st = "dial" => Attempt([r EXCEPT !.st = "listen", !.path = p, !.got = NoAnswer], q, b, m)
           /\ r.task = "dial" => Attempt([r EXCEPT !.task = "won"], q, b, m)
<1>1. Shape(r) /\ r \in ConRecord
  BY DEF Attempt, Shape
<1>2. NoAnswer \in Given /\ p \in Names
  BY NewAttempt DEF Names
<1>3. ASSUME r.st = "dial" PROVE Attempt([r EXCEPT !.st = "listen", !.path = p, !.got = NoAnswer], q, b, m)
  <2> DEFINE s == [r EXCEPT !.st = "listen", !.path = p, !.got = NoAnswer]
  <2>2. /\ s \in ConRecord /\ s.st = "listen" /\ s.task = r.task /\ s.n = r.n /\ s.got = NoAnswer
        /\ s.cand = r.cand
    BY <1>1, <1>2 DEF ConRecord
  <2>3. (s.punch => r.punch) /\ (s.done => r.done) /\ (s.waiting => r.waiting)
        /\ (s.late => r.late) /\ (r.late => s.late)
    BY <1>1 DEF ConRecord
  <2> HIDE DEF s
  <2>4. Shape(s) /\ InStep(s) /\ ~Awaiting(s) /\ ~Awaiting(r)
    BY <1>1, <1>3, <2>2, <2>3 DEF Shape, InStep, Awaiting
  <2> QED BY <1>3, <2>3, <2>4, AttemptQuiet DEF s
<1>4. ASSUME r.task = "dial" PROVE Attempt([r EXCEPT !.task = "won"], q, b, m)
  <2> DEFINE s == [r EXCEPT !.task = "won"]
  <2>2. /\ s \in ConRecord /\ s.st = r.st /\ s.task = "won" /\ s.n = r.n /\ s.got = r.got
        /\ s.cand = r.cand
    BY <1>1, <1>2 DEF ConRecord
  <2>3. (s.punch => r.punch) /\ (r.done => s.done) /\ (s.waiting => r.waiting)
        /\ (s.late => r.late) /\ (r.late => s.late)
    BY <1>1 DEF ConRecord
  <2> HIDE DEF s
  <2>4. Shape(s) /\ ~Awaiting(s) /\ ~Awaiting(r) /\ (InStep(r) => InStep(s))
    BY <1>1, <1>4, <2>2, <2>3 DEF Shape, InStep, Awaiting
  <2> QED BY <2>2, <2>3, <2>4, AttemptQuiet DEF s
<1> QED BY <1>3, <1>4

\* A new attempt asks for the provider's hint.
LEMMA AttemptKick ==
    ASSUME NEW r, NEW q, NEW b, NEW m, Attempt(r, q, b, m), r.st = "listen", ~r.done
    PROVE  Attempt([r EXCEPT !.n = r.n + 1, !.waiting = TRUE], Append(q, [k |-> "hint", n |-> r.n + 1]), b, m)
<1> DEFINE k == r.n + 1
           s == [r EXCEPT !.n = k, !.waiting = TRUE]
           o == [k |-> "hint", n |-> k]
<1>1. Shape(r) /\ r \in ConRecord /\ q \in Seq(Request) /\ k \in Nat \ {0}
  BY DEF Attempt, Shape, ConRecord
<1> HIDE DEF k
<1>2. /\ s \in ConRecord /\ s.st = r.st /\ s.task = r.task /\ s.n = k /\ s.got = r.got
      /\ s.cand = r.cand /\ s.waiting
  BY <1>1 DEF ConRecord
<1>3. (s.punch => r.punch) /\ (s.done => r.done) /\ (s.late => r.late) /\ (r.late => s.late)
  BY <1>1 DEF ConRecord
<1>4. o \in Request /\ o.k = "hint"
  BY <1>1 DEF Request
<1> HIDE DEF s, o
<1>5. Shape(s) /\ InStep(s) /\ ~Awaiting(s) /\ ~Awaiting(r)
  BY <1>1, <1>2, <1>3 DEF Shape, InStep, Awaiting
<1>6. Append(q, o) \in Seq(Request) /\ (~s.late => Silent(Append(q, o), b, m))
  <2>1. ~s.late => Silent(q, b, m)
    BY <1>3, <1>5 DEF Attempt
  <2> QED BY <1>1, <1>4, <2>1, HintAsked
<1>7. Attempt(s, Append(q, o), b, m)
  BY <1>5, <1>6 DEF Attempt
<1> QED BY <1>7 DEF s, o, k

\* A message in Proxy::listen: the hint starts a task, a decision goes to it.
LEMMA AttemptMessage ==
    ASSUME NEW r, NEW q, NEW b, NEW m, Attempt(r, q, b, m), r.st = "listen", m # <<>>
    PROVE  LET x == Head(m) IN
           Attempt(IF x.k = "hint"
                   THEN IF r.waiting
                        THEN [r EXCEPT !.waiting = FALSE, !.task = "gather", !.cand = "empty",
                                       !.punch = TRUE, !.done = TRUE]
                        ELSE r
                   ELSE IF r.punch
                        THEN [r EXCEPT !.punch = FALSE,
                                       !.got = [to |-> x.to, nonce |-> x.nonce, prov |-> x.prov]]
                        ELSE r, q, b, Tail(m))
<1> DEFINE x == Head(m)
           a == [to |-> x.to, nonce |-> x.nonce, prov |-> x.prov]
           s == IF x.k = "hint"
                THEN IF r.waiting
                     THEN [r EXCEPT !.waiting = FALSE, !.task = "gather", !.cand = "empty",
                                    !.punch = TRUE, !.done = TRUE]
                     ELSE r
                ELSE IF r.punch THEN [r EXCEPT !.punch = FALSE, !.got = a] ELSE r
<1> SUFFICES Attempt(s, q, b, Tail(m))
  OBVIOUS
<1>1. /\ Shape(r) /\ r \in ConRecord /\ q \in Seq(Request) /\ r.n # 0
      /\ m \in Seq(Answer) /\ Tail(m) \in Seq(Answer) /\ x \in Answer
  BY DEF Attempt, Shape, ConRecord
<1>2. a \in Given /\ a.to = x.to /\ (x.to # 0 => a # NoAnswer)
  BY <1>1, AnswerNames
<1>3. ASSUME ~r.late PROVE InStep(r) /\ IF Awaiting(r) THEN OneUnderWay(q, b, m, r.n) ELSE Silent(q, b, m)
  BY <1>3 DEF Attempt
<1> HIDE DEF x, a
<1>4. CASE x.k = "hint" /\ r.waiting
  <2>1. s = [r EXCEPT !.waiting = FALSE, !.task = "gather", !.cand = "empty", !.punch = TRUE, !.done = TRUE]
    BY <1>4
  <2>2. /\ s \in ConRecord /\ s.st = r.st /\ s.task = "gather" /\ s.n = r.n /\ s.got = r.got
        /\ s.cand = "empty" /\ ~s.waiting /\ s.punch /\ s.done
    BY <1>1, <2>1 DEF ConRecord
  <2>3. r.late => s.late
    BY <1>1, <2>1 DEF ConRecord
  <2>4. ~Awaiting(r) /\ r.got = NoAnswer
    BY <1>1, <1>4 DEF Shape, Awaiting
  <2> HIDE DEF s
  <2>5. Shape(s) /\ InStep(s) /\ ~Awaiting(s)
    BY <1>1, <1>4, <2>2, <2>3, <2>4 DEF Shape, InStep, Awaiting
  <2>6. ~s.late => Silent(q, b, Tail(m))
    BY <1>1, <1>3, <1>4, <2>3, <2>4, HintRead DEF x
  <2> QED BY <1>1, <2>5, <2>6 DEF Attempt
<1>5. CASE x.k = "hint" /\ ~r.waiting
  <2>1. s = r
    BY <1>5
  <2>2. ~r.late => IF Awaiting(r) THEN OneUnderWay(q, b, Tail(m), r.n) ELSE Silent(q, b, Tail(m))
    BY <1>1, <1>3, <1>5, HintRead DEF x
  <2> HIDE DEF s
  <2> QED BY <1>1, <1>3, <2>1, <2>2 DEF Attempt
<1>6. CASE x.k # "hint" /\ r.punch
  <2>1. s = [r EXCEPT !.punch = FALSE, !.got = a]
    BY <1>6
  <2>2. s \in ConRecord /\ s.st = r.st /\ s.task = r.task /\ s.n = r.n /\ s.got = a /\ s.cand = r.cand /\ ~s.punch
    BY <1>1, <1>2, <2>1 DEF ConRecord
  <2>3. /\ (s.done => r.done) /\ (r.done => s.done) /\ (s.waiting => r.waiting)
        /\ (s.late => r.late) /\ (r.late => s.late)
    BY <1>1, <2>1 DEF ConRecord
  <2> HIDE DEF s
  <2>4. Shape(s) /\ ~Awaiting(s)
    BY <1>1, <1>6, <2>2, <2>3 DEF Shape, Awaiting
  <2>5. ASSUME ~s.late PROVE InStep(s) /\ Silent(q, b, Tail(m))
    <3>1. Awaiting(r) /\ OneUnderWay(q, b, m, r.n)
      BY <1>1, <1>3, <1>6, <2>3, <2>5, DecisionRead DEF x
    <3>2. x.to = r.n /\ Silent(q, b, Tail(m))
      BY <1>1, <1>6, <3>1, DecisionRead DEF x
    <3>3. r.task = "wait" /\ r.cand = "none"
      BY <3>1 DEF Awaiting
    <3> QED BY <1>1, <1>2, <2>2, <3>2, <3>3 DEF InStep
  <2> QED BY <1>1, <2>4, <2>5 DEF Attempt
<1>7. CASE x.k # "hint" /\ ~r.punch
  <2>1. s = r
    BY <1>7
  <2>2. r.late
    <3>1. ~Awaiting(r) /\ ~Silent(q, b, m)
      BY <1>1, <1>7, DecisionRead DEF Awaiting, x
    <3> QED BY <1>3, <3>1
  <2> HIDE DEF s
  <2> QED BY <1>1, <2>1, <2>2 DEF Attempt
<1> HIDE DEF s
<1> QED BY <1>4, <1>5, <1>6, <1>7

\* The task has candidates or none; then it takes the decision.
LEMMA AttemptTask ==
    ASSUME NEW r, NEW q, NEW b, NEW m, Attempt(r, q, b, m)
    PROVE  /\ r.task = "gather" => Attempt([r EXCEPT !.task = "wait", !.cand = "full"], q, b, m)
           /\ r.task = "gather" => Attempt([r EXCEPT !.task = "ended"], q, b, m)
           /\ \A t \in {"ended", "dial"} :
                r.task = "wait" /\ r.got # NoAnswer => Attempt([r EXCEPT !.task = t], q, b, m)
<1>1. Shape(r) /\ r \in ConRecord
  BY DEF Attempt, Shape
<1>2. ASSUME r.task = "gather" PROVE Attempt([r EXCEPT !.task = "wait", !.cand = "full"], q, b, m)
  <2> DEFINE s == [r EXCEPT !.task = "wait", !.cand = "full"]
  <2>1. s \in ConRecord /\ s.st = r.st /\ s.task = "wait" /\ s.n = r.n /\ s.got = r.got /\ s.cand = "full"
    BY <1>1 DEF ConRecord
  <2>2. /\ (s.punch => r.punch) /\ (r.punch => s.punch) /\ (r.done => s.done) /\ (s.waiting => r.waiting)
        /\ (s.late => r.late) /\ (r.late => s.late)
    BY <1>1 DEF ConRecord
  <2> HIDE DEF s
  <2>3. Shape(s) /\ ~Awaiting(s) /\ ~Awaiting(r) /\ (InStep(r) => InStep(s))
    BY <1>1, <1>2, <2>1, <2>2 DEF Shape, InStep, Awaiting
  <2> QED BY <2>1, <2>2, <2>3, AttemptQuiet DEF s
<1>3. ASSUME r.task = "gather" PROVE Attempt([r EXCEPT !.task = "ended"], q, b, m)
  <2> DEFINE s == [r EXCEPT !.task = "ended"]
  <2>1. s \in ConRecord /\ s.st = r.st /\ s.task = "ended" /\ s.n = r.n /\ s.got = r.got /\ s.cand = r.cand
    BY <1>1 DEF ConRecord
  <2>2. /\ (s.punch => r.punch) /\ (r.punch => s.punch) /\ (r.done => s.done) /\ (s.waiting => r.waiting)
        /\ (s.late => r.late) /\ (r.late => s.late)
    BY <1>1 DEF ConRecord
  <2> HIDE DEF s
  <2>3. Shape(s) /\ ~Awaiting(s) /\ ~Awaiting(r) /\ (InStep(r) => InStep(s))
    BY <1>1, <1>3, <2>1, <2>2 DEF Shape, InStep, Awaiting
  <2> QED BY <2>1, <2>2, <2>3, AttemptQuiet DEF s
<1>4. ASSUME NEW t \in {"ended", "dial"}, r.task = "wait", r.got # NoAnswer
      PROVE  Attempt([r EXCEPT !.task = t], q, b, m)
  <2> DEFINE s == [r EXCEPT !.task = t]
  <2>1. s \in ConRecord /\ s.st = r.st /\ s.task = t /\ s.n = r.n /\ s.got = r.got /\ s.cand = r.cand
    BY <1>1 DEF ConRecord
  <2>2. /\ (s.punch => r.punch) /\ (r.punch => s.punch) /\ (r.done => s.done) /\ (s.waiting => r.waiting)
        /\ (s.late => r.late) /\ (r.late => s.late)
    BY <1>1 DEF ConRecord
  <2> HIDE DEF s
  <2>3. ~r.punch /\ r.st = "listen"
    BY <1>1, <1>4 DEF Shape
  <2>4. Shape(s) /\ ~Awaiting(s) /\ ~Awaiting(r) /\ (InStep(r) => InStep(s))
    BY <1>1, <1>4, <2>1, <2>2, <2>3 DEF Shape, InStep, Awaiting
  <2> QED BY <2>1, <2>2, <2>4, AttemptQuiet DEF s
<1> QED BY <1>2, <1>3, <1>4

\* The loop sends the candidates of its task.
LEMMA AttemptOffers ==
    ASSUME NEW r, NEW q, NEW b, NEW m, Attempt(r, q, b, m), r.st = "listen", r.cand = "full"
    PROVE  Attempt([r EXCEPT !.cand = "none"], Append(q, [k |-> "offer", n |-> r.n]), b, m)
<1> DEFINE s == [r EXCEPT !.cand = "none"]
           o == [k |-> "offer", n |-> r.n]
<1>1. Shape(r) /\ r \in ConRecord /\ q \in Seq(Request) /\ m \in Seq(Answer) /\ r.n \in Nat
  BY DEF Attempt, Shape, ConRecord
<1>2. s \in ConRecord /\ s.st = r.st /\ s.task = r.task /\ s.n = r.n /\ s.got = r.got /\ s.cand = "none"
  BY <1>1 DEF ConRecord
<1>3. /\ (s.punch => r.punch) /\ (r.punch => s.punch) /\ (r.done => s.done) /\ (s.done => r.done)
      /\ (s.waiting => r.waiting) /\ (s.late => r.late) /\ (r.late => s.late)
  BY <1>1 DEF ConRecord
<1>4. o \in Request /\ o.k = "offer" /\ o.n = r.n
  BY <1>1 DEF Request
<1> HIDE DEF s, o
<1>5. Shape(s) /\ ~Awaiting(r) /\ Append(q, o) \in Seq(Request)
  BY <1>1, <1>2, <1>3, <1>4 DEF Shape, Awaiting
<1>6. ASSUME ~s.late PROVE InStep(s) /\ Awaiting(s) /\ OneUnderWay(Append(q, o), b, m, s.n)
  <2>1. InStep(r) /\ Silent(q, b, m)
    BY <1>3, <1>5, <1>6 DEF Attempt
  <2>2. r.task = "wait" /\ r.punch /\ r.got = NoAnswer
    BY <1>1, <2>1 DEF Shape, InStep, ConRecord
  <2>3. InStep(s) /\ Awaiting(s)
    BY <1>2, <1>3, <2>1, <2>2 DEF InStep, Awaiting
  <2>4. OneUnderWay(Append(q, o), b, m, o.n)
    BY <1>1, <1>4, <2>1, OfferSent
  <2> QED BY <1>2, <1>4, <2>3, <2>4
<1>7. Attempt(s, Append(q, o), b, m)
  BY <1>1, <1>5, <1>6 DEF Attempt
<1> QED BY <1>7 DEF s, o

\* The loop ends the attempt, with a connection or without.
LEMMA AttemptOver ==
    ASSUME NEW r, NEW q, NEW b, NEW m, Attempt(r, q, b, m), r.st = "listen", r.task \in {"won", "ended"},
           NEW s \in ConRecord, s.st = r.st, s.task = "off", s.n = r.n, s.got = NoAnswer, s.cand = "none",
           ~s.punch, ~s.done, s.waiting => r.waiting, r.late => s.late
    PROVE  Attempt(s, q, b, m)
<1>1. Shape(s) /\ InStep(s) /\ ~Awaiting(s) /\ ~Awaiting(r)
  BY DEF Attempt, Shape, InStep, Awaiting
<1> QED BY <1>1, AttemptQuiet

\* serve_consumer: a hint, an offer that is taken, the decision about it.
LEMMA AttemptHint ==
    ASSUME NEW r, NEW q, NEW m, Attempt(r, q, NoBroker, m), q # <<>>, Head(q).k = "hint"
    PROVE  Attempt(r, Tail(q), NoBroker,
                   Append(m, [k |-> "hint", to |-> Head(q).n, nonce |-> None, prov |-> None]))
<1> DEFINE x == [k |-> "hint", to |-> Head(q).n, nonce |-> None, prov |-> None]
<1>1. q \in Seq(Request) /\ m \in Seq(Answer) /\ Head(q) \in Request
  BY DEF Attempt
<1>2. x \in Answer /\ x.k = "hint"
  BY <1>1 DEF Request, Answer, Names
<1> HIDE DEF x
<1>3. /\ Tail(q) \in Seq(Request) /\ Append(m, x) \in Seq(Answer)
      /\ Silent(q, NoBroker, m) => Silent(Tail(q), NoBroker, Append(m, x))
      /\ OneUnderWay(q, NoBroker, m, r.n) => OneUnderWay(Tail(q), NoBroker, Append(m, x), r.n)
  <2>1. /\ Tail(q) \in Seq(Request)
        /\ Silent(q, NoBroker, m) => Silent(Tail(q), NoBroker, m)
        /\ OneUnderWay(q, NoBroker, m, r.n) => OneUnderWay(Tail(q), NoBroker, m, r.n)
    BY <1>1, HintTaken
  <2>2. /\ Append(m, x) \in Seq(Answer)
        /\ Silent(Tail(q), NoBroker, m) => Silent(Tail(q), NoBroker, Append(m, x))
        /\ OneUnderWay(Tail(q), NoBroker, m, r.n) => OneUnderWay(Tail(q), NoBroker, Append(m, x), r.n)
    BY <1>1, <1>2, HintAnswered
  <2> QED BY <2>1, <2>2
<1>4. Attempt(r, Tail(q), NoBroker, Append(m, x))
  BY <1>3 DEF Attempt
<1> QED BY <1>4 DEF x

\* The server takes an offer: it answers that nobody is there, or puts it before a
\* provider; either way it is still the one under way.
LEMMA AttemptBroker ==
    ASSUME NEW r, NEW q, NEW m, Attempt(r, q, NoBroker, m), q # <<>>, Head(q).k = "offer"
    PROVE  /\ Attempt(r, Tail(q), NoBroker,
                      Append(m, [k |-> "unavailable", to |-> Head(q).n, nonce |-> None, prov |-> None]))
           /\ \A b : b # NoBroker /\ b.n = Head(q).n => Attempt(r, Tail(q), b, m)
<1> DEFINE x == [k |-> "unavailable", to |-> Head(q).n, nonce |-> None, prov |-> None]
<1>1. q \in Seq(Request) /\ m \in Seq(Answer) /\ Head(q) \in Request
  BY DEF Attempt
<1>2. x \in Answer /\ x.k # "hint" /\ x.to = Head(q).n
  BY <1>1 DEF Request, Answer, Names
<1> HIDE DEF x
<1>3. Tail(q) \in Seq(Request) /\ Append(m, x) \in Seq(Answer)
  BY <1>1, <1>2
<1>4. ASSUME ~r.late, r.st # "gone"
      PROVE  Awaiting(r) /\ Head(q).n = r.n /\ Silent(Tail(q), NoBroker, m)
  BY <1>1, <1>4, OfferTaken DEF Attempt
<1>5. Attempt(r, Tail(q), NoBroker, Append(m, x))
  <2>1. ASSUME ~r.late, r.st # "gone" PROVE OneUnderWay(Tail(q), NoBroker, Append(m, x), r.n)
    <3>1. OneUnderWay(Tail(q), NoBroker, Append(m, x), x.to)
      BY <1>1, <1>2, <1>4, <2>1, DecisionSent
    <3> QED BY <1>2, <1>4, <2>1, <3>1
  <2> QED BY <1>3, <1>4, <2>1 DEF Attempt
<1>6. ASSUME NEW b, b # NoBroker, b.n = Head(q).n PROVE Attempt(r, Tail(q), b, m)
  <2>1. ASSUME ~r.late, r.st # "gone" PROVE OneUnderWay(Tail(q), b, m, r.n)
    BY <1>4, <1>6, <2>1 DEF OneUnderWay, Silent
  <2> QED BY <1>1, <1>3, <1>4, <2>1 DEF Attempt
<1> QED BY <1>5, <1>6 DEF x

\* The decision about the brokered offer goes back to the consumer that made it.
LEMMA AttemptTell ==
    ASSUME NEW r, NEW q, NEW b, NEW m, Attempt(r, q, b, m), b # NoBroker,
           NEW x \in Answer, x.k # "hint", x.to = b.n
    PROVE  Attempt(r, q, NoBroker, Append(m, x))
<1>1. q \in Seq(Request) /\ m \in Seq(Answer) /\ Append(m, x) \in Seq(Answer)
  BY DEF Attempt
<1>2. ASSUME ~r.late, r.st # "gone" PROVE Awaiting(r) /\ b.n = r.n /\ Silent(q, NoBroker, m)
  <2>1. Awaiting(r) /\ OneUnderWay(q, b, m, r.n)
    BY <1>2 DEF Attempt, Silent
  <2>2. b.n = r.n /\ Decisions(m) = {} /\ Offers(q) = {}
    BY <2>1 DEF OneUnderWay
  <2> QED BY <2>1, <2>2 DEF Silent
<1>3. ASSUME ~r.late, r.st # "gone" PROVE OneUnderWay(q, NoBroker, Append(m, x), r.n)
  <2>1. OneUnderWay(q, NoBroker, Append(m, x), x.to)
    BY <1>1, <1>2, <1>3, DecisionSent
  <2> QED BY <1>2, <1>3, <2>1
<1> QED BY <1>1, <1>2, <1>3 DEF Attempt

-----------------------------------------------------------------------------
(* The attempts of all consumers.                                          *)

\* The entries of the registry and of the broker name providers.
Named(b) == b.n \in Nat /\ b.nonce \in Names /\ b.prov \in Names
NamedEntries ==
    Named(udp) /\ (\A p \in Providers : Named(pending[p])) /\ \A c \in Consumers : Named(broker[c])

\* The consumer whose dial a listener handles is dialing it.
Dials(r) == r.st = "dial" \/ r.task = "dial"
Handled ==
    /\ acc = [p \in Providers |-> acc[p]]
    /\ \A p \in Providers :
         acc[p] # None => acc[p] \in Consumers /\ Dials(con[acc[p]]) /\ con[acc[p]].got.prov = p

Attempts ==
    /\ con = [c \in Consumers |-> con[c]] /\ requests = [c \in Consumers |-> requests[c]]
    /\ replies = [c \in Consumers |-> replies[c]] /\ broker = [c \in Consumers |-> broker[c]]
    /\ \A c \in Consumers : Attempt(con[c], requests[c], broker[c], replies[c])

AttemptInv == TokenInv /\ NamedEntries /\ Handled /\ Attempts

\* Every proxy starts with the request for a hint.
LEMMA AttemptInit == Init => AttemptInv
<1> SUFFICES ASSUME Init PROVE AttemptInv
  OBVIOUS
<1>1. TokenInv
  BY TokenInit
<1>2. Named(NoBroker)
  BY DEF Named, NoBroker, Names
<1>3. NamedEntries
  BY <1>2 DEF Init, NamedEntries
<1>4. Handled
  BY DEF Init, Handled
<1> DEFINE o == [k |-> "hint", n |-> 1]
<1>5. o \in Request /\ o.k = "hint"
  BY DEF Request
<1>6. con = [c \in Consumers |-> NewCon] /\ requests = [c \in Consumers |-> <<o>>]
      /\ replies = [c \in Consumers |-> <<>>] /\ broker = [c \in Consumers |-> NoBroker]
  BY DEF Init
<1> HIDE DEF o
<1>7. <<o>> \in Seq(Request) /\ Offers(<<o>>) = {}
  BY <1>5 DEF Offers
<1>8. <<>> \in Seq(Answer) /\ Decisions(<<>>) = {}
  BY DEF Decisions
<1>9. Attempt(NewCon, <<o>>, NoBroker, <<>>)
  BY <1>7, <1>8, NewAttempt DEF Attempt, Silent
<1>10. Attempts
  BY <1>6, <1>9 DEF Attempts
<1> QED BY <1>1, <1>3, <1>4, <1>10 DEF AttemptInv

\* A step that changes the state of one consumer and of its connection.
LEMMA OneAttempt ==
    ASSUME Attempts, NEW c \in Consumers, NEW r, NEW q, NEW b, NEW m, Attempt(r, q, b, m),
           con' = [con EXCEPT ![c] = r], requests' = [requests EXCEPT ![c] = q],
           broker' = [broker EXCEPT ![c] = b], replies' = [replies EXCEPT ![c] = m]
    PROVE  Attempts'
<1>1. /\ con' = [d \in Consumers |-> IF d = c THEN r ELSE con[d]]
      /\ requests' = [d \in Consumers |-> IF d = c THEN q ELSE requests[d]]
      /\ broker' = [d \in Consumers |-> IF d = c THEN b ELSE broker[d]]
      /\ replies' = [d \in Consumers |-> IF d = c THEN m ELSE replies[d]]
  BY DEF Attempts
<1>2. \A d \in Consumers : Attempt(con'[d], requests'[d], broker'[d], replies'[d])
  BY <1>1 DEF Attempts
<1> QED BY <1>1, <1>2, Zenon DEF Attempts

\* What a step leaves alone.
LEMMA SameAttempt ==
    ASSUME Attempts, NEW c \in Consumers
    PROVE  /\ con = [con EXCEPT ![c] = con[c]] /\ requests = [requests EXCEPT ![c] = requests[c]]
           /\ broker = [broker EXCEPT ![c] = broker[c]] /\ replies = [replies EXCEPT ![c] = replies[c]]
           /\ Attempt(con[c], requests[c], broker[c], replies[c])
           /\ Shape(con[c]) /\ con[c] \in ConRecord
BY DEF Attempts, Attempt, Shape

\* A step of a consumer that goes on dialing, if it did, and the end of its dial.
LEMMA OneHandled ==
    ASSUME Attempts, Handled, NEW c \in Consumers, NEW r, con' = [con EXCEPT ![c] = r],
           \/ acc' = acc /\ (Dials(con[c]) => Dials(r) /\ r.got = con[c].got)
           \/ acc' = [p \in Providers |-> IF acc[p] = c THEN None ELSE acc[p]]
    PROVE  Handled'
<1>1. \A d \in Consumers : con'[d] = IF d = c THEN r ELSE con[d]
  BY DEF Attempts
<1>2. CASE acc' = acc /\ (Dials(con[c]) => Dials(r) /\ r.got = con[c].got)
  BY <1>1, <1>2 DEF Handled
<1>3. CASE acc' = [p \in Providers |-> IF acc[p] = c THEN None ELSE acc[p]]
  BY <1>1, <1>3 DEF Handled
<1> QED BY <1>2, <1>3

\* A step of the proxy or of its task.
LEMMA OneProxy ==
    ASSUME Attempts, Handled, NEW c \in Consumers, NEW r, NEW q, NEW m, Attempt(r, q, broker[c], m),
           con' = [con EXCEPT ![c] = r],
           requests' = [requests EXCEPT ![c] = q], replies' = [replies EXCEPT ![c] = m], broker' = broker,
           \/ acc' = acc /\ (Dials(con[c]) => Dials(r) /\ r.got = con[c].got)
           \/ acc' = [p \in Providers |-> IF acc[p] = c THEN None ELSE acc[p]]
    PROVE  Attempts' /\ Handled'
<1>1. broker' = [broker EXCEPT ![c] = broker[c]]
  BY SameAttempt
<1>2. Attempts'
  BY <1>1, OneAttempt, Zenon
<1>3. Handled'
  BY OneHandled, Zenon
<1> QED BY <1>2, <1>3

\* Proxy::new.
LEMMA AttemptsStart ==
    ASSUME Attempts, Handled, NEW c \in Consumers, ConRecv(c) \/ ConGivesUp(c) \/ ConGather(c)
    PROVE  Attempts' /\ Handled'
<1> DEFINE r == con[c]
           q == requests[c]
           b == broker[c]
           m == replies[c]
<1>1. /\ con = [con EXCEPT ![c] = r] /\ requests = [requests EXCEPT ![c] = q]
      /\ replies = [replies EXCEPT ![c] = m] /\ Attempt(r, q, b, m) /\ Shape(r) /\ r \in ConRecord
  BY SameAttempt
<1>2. ~Dials(r)
  BY <1>1 DEF ConRecv, ConGivesUp, ConGather, Shape, Dials
<1>3. CASE ConRecv(c)
  <2> DEFINE x == Head(m)
             s == CASE r.st = "hint" /\ x.k = "hint"         -> [r EXCEPT !.st = "gather"]
                    [] r.st = "reply" /\ x.k = "unavailable" -> [r EXCEPT !.st = "listen"]
                    [] r.st = "reply" /\ x.k = "punch"       ->
                        [r EXCEPT !.st = "dial", !.got = [to |-> x.to, nonce |-> x.nonce, prov |-> x.prov]]
                    [] OTHER -> r
  <2>1. /\ r.st \in {"hint", "reply"} /\ m # <<>> /\ con' = [con EXCEPT ![c] = s]
        /\ replies' = [replies EXCEPT ![c] = Tail(m)] /\ UNCHANGED <<requests, broker, acc>>
    BY <1>3, Zenon DEF ConRecv
  <2>0. requests' = [requests EXCEPT ![c] = q]
    BY <1>1, <2>1
  <2>2. Attempt(s, q, b, Tail(m))
    BY <1>1, <2>1, AttemptRecv
  <2> HIDE DEF s
  <2> QED BY <1>2, <2>1, <2>0, <2>2, OneProxy, Zenon
<1>4. CASE ConGivesUp(c)
  <2> DEFINE s == [r EXCEPT !.st = "listen", !.late = r.st = "reply"]
  <2>1. r.st \in {"hint", "reply"} /\ UNCHANGED <<requests, broker, replies, acc>>
    BY <1>4 DEF ConGivesUp, link_vars
  <2>0. requests' = [requests EXCEPT ![c] = q] /\ replies' = [replies EXCEPT ![c] = m]
    BY <1>1, <2>1
  <2>2. con' = [con EXCEPT ![c] = s]
    BY <1>1, <1>4 DEF ConGivesUp
  <2>3. Attempt(s, q, b, m)
    <3>1. CASE r.st = "hint"
      <4>1. s = [r EXCEPT !.st = "listen", !.late = FALSE]
        BY <3>1
      <4> QED BY <1>1, <3>1, <4>1, AttemptStarts
    <3>2. CASE r.st = "reply"
      <4>1. s = [r EXCEPT !.st = "listen", !.late = TRUE]
        BY <3>2
      <4> QED BY <1>1, <3>2, <4>1, AttemptStarts
    <3> QED BY <2>1, <3>1, <3>2
  <2>4. broker' = broker /\ acc' = acc
    BY <2>1
  <2> HIDE DEF s
  <2> QED BY <1>2, <2>0, <2>2, <2>3, <2>4, OneProxy, Zenon
<1>5. CASE ConGather(c)
  <2>1. r.st = "gather" /\ UNCHANGED <<broker, replies, acc>>
    BY <1>5 DEF ConGather
  <2>0. replies' = [replies EXCEPT ![c] = m]
    BY <1>1, <2>1
  <2>2. CASE con' = [con EXCEPT ![c].st = "listen"] /\ UNCHANGED requests
    <3>1. con' = [con EXCEPT ![c] = [r EXCEPT !.st = "listen"]]
      BY <1>1, <2>2
    <3>2. Attempt([r EXCEPT !.st = "listen"], q, b, m)
      BY <1>1, <2>1, AttemptStarts
    <3>3. requests' = [requests EXCEPT ![c] = q]
      BY <1>1, <2>2
    <3> QED BY <1>2, <2>1, <2>0, <3>1, <3>2, <3>3, OneProxy, Zenon
  <2>3. CASE con' = [con EXCEPT ![c].st = "reply"] /\ Ask(c, "offer", 1)
    <3>1. con' = [con EXCEPT ![c] = [r EXCEPT !.st = "reply"]]
      BY <1>1, <2>3
    <3>2. requests' = [requests EXCEPT ![c] = Append(q, [k |-> "offer", n |-> 1])]
      BY <2>3 DEF Ask
    <3>3. Attempt([r EXCEPT !.st = "reply"], Append(q, [k |-> "offer", n |-> 1]), b, m)
      BY <1>1, <2>1, AttemptStarts
    <3> QED BY <1>2, <2>1, <2>0, <3>1, <3>2, <3>3, OneProxy, Zenon
  <2> QED BY <1>5, <2>2, <2>3 DEF ConGather
<1> QED BY <1>3, <1>4, <1>5

\* The task and the end of its dial.
LEMMA AttemptsTask ==
    ASSUME Attempts, Handled, NEW c \in Consumers, Task(c)
    PROVE  Attempts' /\ Handled'
<1> DEFINE r == con[c]
           q == requests[c]
           b == broker[c]
           m == replies[c]
<1>1. /\ con = [con EXCEPT ![c] = r] /\ requests = [requests EXCEPT ![c] = q]
      /\ replies = [replies EXCEPT ![c] = m] /\ Attempt(r, q, b, m) /\ Shape(r) /\ r \in ConRecord
  BY SameAttempt
<1>2. broker' = broker /\ requests' = [requests EXCEPT ![c] = q] /\ replies' = [replies EXCEPT ![c] = m]
  BY <1>1 DEF Task, TaskGather, TaskTakes, DialFails, link_vars
<1>3. CASE TaskGather(c)
  <2>1. r.task = "gather" /\ acc' = acc /\ ~Dials(r)
    BY <1>1, <1>3 DEF TaskGather, Shape, Dials
  <2>2. CASE con' = [con EXCEPT ![c].task = "wait", ![c].cand = "full"]
    <3>1. con' = [con EXCEPT ![c] = [r EXCEPT !.task = "wait", !.cand = "full"]]
      BY <1>1, <2>2
    <3>2. Attempt([r EXCEPT !.task = "wait", !.cand = "full"], q, b, m)
      BY <1>1, <2>1, AttemptTask
    <3> QED BY <1>2, <2>1, <3>1, <3>2, OneProxy, Zenon
  <2>3. CASE con' = [con EXCEPT ![c].task = "ended"]
    <3>1. con' = [con EXCEPT ![c] = [r EXCEPT !.task = "ended"]]
      BY <1>1, <2>3
    <3>2. Attempt([r EXCEPT !.task = "ended"], q, b, m)
      BY <1>1, <2>1, AttemptTask
    <3> QED BY <1>2, <2>1, <3>1, <3>2, OneProxy, Zenon
  <2> QED BY <1>3, <2>2, <2>3 DEF TaskGather
<1>4. CASE TaskTakes(c)
  <2> DEFINE t == IF r.got.prov = None THEN "ended" ELSE "dial"
  <2>1. r.task = "wait" /\ r.got # NoAnswer /\ acc' = acc /\ ~Dials(r) /\ con' = [con EXCEPT ![c].task = t]
    BY <1>1, <1>4 DEF TaskTakes, Shape, Dials
  <2>2. t \in {"ended", "dial"}
    OBVIOUS
  <2> HIDE DEF t
  <2>3. con' = [con EXCEPT ![c] = [r EXCEPT !.task = t]]
    BY <1>1, <2>1
  <2>4. Attempt([r EXCEPT !.task = t], q, b, m)
    BY <1>1, <2>1, <2>2, AttemptTask
  <2> QED BY <1>2, <2>1, <2>3, <2>4, OneProxy, Zenon
<1>5. CASE DialFails(c)
  <2>1. /\ Dials(r) /\ con' = [con EXCEPT ![c] = Failed(r)]
        /\ acc' = [p \in Providers |-> IF acc[p] = c THEN None ELSE acc[p]]
    BY <1>5 DEF DialFails, Dialing, Dials
  <2>2. Attempt(Failed(r), q, b, m)
    BY <1>1, <2>1, AttemptFails DEF Dials
  <2> QED BY <1>2, <2>1, <2>2, OneProxy, Zenon
<1> QED BY <1>3, <1>4, <1>5 DEF Task

\* Proxy::listen.
LEMMA AttemptsListen ==
    ASSUME Attempts, Handled, NEW c \in Consumers,
           ConKick(c) \/ ConMessage(c) \/ ConSendsOffer(c) \/ ConNoOffer(c) \/ ConDone(c)
    PROVE  Attempts' /\ Handled'
<1> DEFINE r == con[c]
           q == requests[c]
           b == broker[c]
           m == replies[c]
<1>1. /\ con = [con EXCEPT ![c] = r] /\ requests = [requests EXCEPT ![c] = q]
      /\ replies = [replies EXCEPT ![c] = m] /\ Attempt(r, q, b, m) /\ Shape(r) /\ r \in ConRecord
  BY SameAttempt
<1>2. r.st = "listen" /\ broker' = broker /\ acc' = acc
  BY DEF ConKick, ConMessage, ConSendsOffer, ConNoOffer, ConDone, link_vars
<1>3. CASE ConKick(c)
  <2> DEFINE s == [r EXCEPT !.n = r.n + 1, !.waiting = TRUE]
  <2>1. ~r.done /\ ~Dials(r)
    BY <1>1, <1>2, <1>3 DEF ConKick, Shape, Dials
  <2>2. con' = [con EXCEPT ![c] = s]
    BY <1>1, <1>3 DEF ConKick
  <2>3. /\ requests' = [requests EXCEPT ![c] = Append(q, [k |-> "hint", n |-> r.n + 1])]
        /\ replies' = [replies EXCEPT ![c] = m]
    BY <1>1, <1>3 DEF ConKick, Ask
  <2>4. Attempt(s, Append(q, [k |-> "hint", n |-> r.n + 1]), b, m)
    BY <1>1, <1>2, <2>1, AttemptKick
  <2> HIDE DEF s
  <2> QED BY <1>2, <2>1, <2>2, <2>3, <2>4, OneProxy, Zenon
<1>4. CASE ConMessage(c)
  <2> DEFINE x == Head(m)
             s == IF x.k = "hint"
                  THEN IF r.waiting
                       THEN [r EXCEPT !.waiting = FALSE, !.task = "gather", !.cand = "empty",
                                      !.punch = TRUE, !.done = TRUE]
                       ELSE r
                  ELSE IF r.punch
                       THEN [r EXCEPT !.punch = FALSE,
                                      !.got = [to |-> x.to, nonce |-> x.nonce, prov |-> x.prov]]
                       ELSE r
  <2>1. m # <<>> /\ con' = [con EXCEPT ![c] = s] /\ replies' = [replies EXCEPT ![c] = Tail(m)]
    BY <1>4, Zenon DEF ConMessage
  <2>2. requests' = [requests EXCEPT ![c] = q]
    BY <1>1, <1>4 DEF ConMessage
  <2>3. Attempt(s, q, b, Tail(m))
    BY <1>1, <1>2, <2>1, AttemptMessage
  <2>4. Dials(r) => Dials(s) /\ s.got = r.got
    BY <1>1, <1>2 DEF Dials, Shape
  <2> HIDE DEF s
  <2> QED BY <1>2, <2>1, <2>2, <2>3, <2>4, OneProxy, Zenon
<1>5. CASE ConSendsOffer(c)
  <2> DEFINE s == [r EXCEPT !.cand = "none"]
  <2>1. r.cand = "full"
    BY <1>5 DEF ConSendsOffer
  <2>2. con' = [con EXCEPT ![c] = s]
    BY <1>1, <1>5 DEF ConSendsOffer
  <2>3. /\ requests' = [requests EXCEPT ![c] = Append(q, [k |-> "offer", n |-> r.n])]
        /\ replies' = [replies EXCEPT ![c] = m]
    BY <1>1, <1>5 DEF ConSendsOffer, Ask
  <2>4. Attempt(s, Append(q, [k |-> "offer", n |-> r.n]), b, m)
    BY <1>1, <1>2, <2>1, AttemptOffers
  <2>5. Dials(r) => Dials(s) /\ s.got = r.got
    BY <1>1 DEF Dials, ConRecord
  <2> HIDE DEF s
  <2> QED BY <1>2, <2>2, <2>3, <2>4, <2>5, OneProxy, Zenon
<1>6. CASE ConNoOffer(c)
  <2> DEFINE s == [r EXCEPT !.cand = "none", !.punch = FALSE, !.done = FALSE, !.task = "off", !.got = NoAnswer]
  <2>1. r.task = "ended" /\ ~Dials(r)
    BY <1>2, <1>6 DEF ConNoOffer, Dials
  <2>2. con' = [con EXCEPT ![c] = s]
    BY <1>1, <1>6 DEF ConNoOffer
  <2>3. requests' = [requests EXCEPT ![c] = q] /\ replies' = [replies EXCEPT ![c] = m]
    BY <1>1, <1>6 DEF ConNoOffer, link_vars
  <2>4. /\ s \in ConRecord /\ s.st = r.st /\ s.task = "off" /\ s.n = r.n /\ s.got = NoAnswer
        /\ s.cand = "none" /\ ~s.punch /\ ~s.done
    BY <1>1, NewAttempt DEF ConRecord
  <2>5. (s.waiting => r.waiting) /\ (r.late => s.late)
    BY <1>1, NewAttempt DEF ConRecord
  <2> HIDE DEF s
  <2>6. Attempt(s, q, b, m)
    BY <1>1, <1>2, <2>1, <2>4, <2>5, AttemptOver
  <2> QED BY <1>2, <2>1, <2>2, <2>3, <2>6, OneProxy, Zenon
<1>7. CASE ConDone(c)
  <2> DEFINE p == IF r.task = "won" THEN r.got.prov ELSE r.path
             s == [r EXCEPT !.cand = "none", !.punch = FALSE, !.done = FALSE, !.task = "off",
                            !.got = NoAnswer, !.path = p]
  <2>1. r.task \in {"won", "ended"} /\ ~Dials(r)
    BY <1>2, <1>7 DEF ConDone, Dials
  <2>2. con' = [con EXCEPT ![c] = s]
    BY <1>1, <1>7 DEF ConDone
  <2>3. requests' = [requests EXCEPT ![c] = q] /\ replies' = [replies EXCEPT ![c] = m]
    BY <1>1, <1>7 DEF ConDone, link_vars
  <2>4. p \in Names
    BY <1>1 DEF ConRecord, Given
  <2> HIDE DEF p
  <2>5. /\ s \in ConRecord /\ s.st = r.st /\ s.task = "off" /\ s.n = r.n /\ s.got = NoAnswer
        /\ s.cand = "none" /\ ~s.punch /\ ~s.done
    BY <1>1, <2>4, NewAttempt DEF ConRecord
  <2>6. (s.waiting => r.waiting) /\ (r.late => s.late)
    BY <1>1, NewAttempt DEF ConRecord
  <2> HIDE DEF s
  <2>7. Attempt(s, q, b, m)
    BY <1>1, <1>2, <2>1, <2>5, <2>6, AttemptOver
  <2> QED BY <1>2, <2>1, <2>2, <2>3, <2>7, OneProxy, Zenon
<1> QED BY <1>3, <1>4, <1>5, <1>6, <1>7

\* A proxy ends, its direct path breaks.
LEMMA AttemptsEnd ==
    ASSUME Attempts, Handled, NEW c \in Consumers, ConEnds(c) \/ BreakPath(c)
    PROVE  Attempts' /\ Handled'
<1> DEFINE r == con[c]
           q == requests[c]
           b == broker[c]
           m == replies[c]
<1>1. /\ con = [con EXCEPT ![c] = r] /\ requests = [requests EXCEPT ![c] = q]
      /\ replies = [replies EXCEPT ![c] = m] /\ Attempt(r, q, b, m) /\ Shape(r) /\ r \in ConRecord
  BY SameAttempt
<1>2. CASE ConEnds(c)
  <2> DEFINE s == [NewCon EXCEPT !.st = "gone"]
  <2>1. /\ con' = [con EXCEPT ![c] = s] /\ broker' = broker
        /\ requests' = [requests EXCEPT ![c] = <<>>] /\ replies' = [replies EXCEPT ![c] = <<>>]
        /\ acc' = [p \in Providers |-> IF acc[p] = c THEN None ELSE acc[p]]
    BY <1>2 DEF ConEnds
  <2>2. Shape(s) /\ <<>> \in Seq(Request) /\ <<>> \in Seq(Answer)
    BY NewAttempt
  <2>3. s.st = "gone"
    BY DEF NewCon
  <2> HIDE DEF s
  <2>4. Attempt(s, <<>>, b, <<>>)
    BY <2>2, <2>3 DEF Attempt
  <2> QED BY <2>1, <2>4, OneProxy, Zenon
<1>3. CASE BreakPath(c)
  <2> DEFINE s == [r EXCEPT !.cut = TRUE]
  <2>1. con' = [con EXCEPT ![c] = s]
    BY <1>1, <1>3 DEF BreakPath
  <2>2. /\ requests' = [requests EXCEPT ![c] = q] /\ replies' = [replies EXCEPT ![c] = m]
        /\ broker' = broker /\ acc' = acc
    BY <1>1, <1>3 DEF BreakPath, link_vars
  <2>3. s \in ConRecord /\ s.st = r.st /\ s.task = r.task /\ s.n = r.n /\ s.got = r.got /\ s.cand = r.cand
    BY <1>1 DEF ConRecord
  <2>4. /\ (s.punch => r.punch) /\ (r.punch => s.punch) /\ (r.done => s.done) /\ (s.done => r.done)
        /\ (s.waiting => r.waiting) /\ (s.late => r.late) /\ (r.late => s.late)
    BY <1>1 DEF ConRecord
  <2> HIDE DEF s
  <2>5. Shape(s) /\ (InStep(r) => InStep(s)) /\ (Awaiting(s) => Awaiting(r)) /\ (Awaiting(r) => Awaiting(s))
    BY <1>1, <2>3, <2>4 DEF Shape, InStep, Awaiting
  <2>6. Attempt(s, q, b, m)
    BY <1>1, <2>3, <2>4, <2>5 DEF Attempt
  <2>7. Dials(r) => Dials(s) /\ s.got = r.got
    BY <2>3 DEF Dials
  <2> QED BY <2>1, <2>2, <2>6, <2>7, OneProxy, Zenon
<1> QED BY <1>2, <1>3

\* A listener lets go of the only consumer whose dial it handles.
LEMMA LetsGo ==
    ASSUME Attempts, Handled, NEW p \in Providers, acc[p] # None
    PROVE  /\ acc[p] \in Consumers /\ Dials(con[acc[p]])
           /\ [acc EXCEPT ![p] = None] = [o \in Providers |-> IF acc[o] = acc[p] THEN None ELSE acc[o]]
<1>1. acc[p] \in Consumers /\ Dials(con[acc[p]]) /\ con[acc[p]].got.prov = p
  BY DEF Handled
<1>2. \A o \in Providers : acc[o] = acc[p] => o = p
  BY <1>1 DEF Handled
<1> QED BY <1>1, <1>2 DEF Handled

\* The listener's steps: it takes a dial up, admits it, drops it.
LEMMA AttemptsDialed ==
    ASSUME Attempts, Handled, NEW p \in Providers,
           \/ \E c \in Consumers : PrvAccept(p, c)
           \/ PrvAdmit(p) \/ PrvRepunch(p) \/ PrvEnds(p)
    PROVE  Attempts' /\ Handled'
<1>1. requests' = requests /\ replies' = replies /\ broker' = broker
  BY DEF PrvAccept, PrvAdmit, PrvRepunch, PrvEnds, link_vars
<1>2. CASE \E c \in Consumers : PrvAccept(p, c)
  <2>1. PICK c \in Consumers : PrvAccept(p, c)
    BY <1>2
  <2>2. /\ Dials(con[c]) /\ con[c].got.prov = p /\ acc' = [acc EXCEPT ![p] = c] /\ con' = con
    BY <2>1 DEF PrvAccept, Dialing, Dials
  <2>3. Handled'
    BY <2>2 DEF Handled
  <2> QED BY <1>1, <2>2, <2>3 DEF Attempts
<1> DEFINE c == acc[p]
           r == con[c]
           q == requests[c]
           m == replies[c]
<1>3. ASSUME c # None, NEW s, con' = [con EXCEPT ![c] = s], acc' = [acc EXCEPT ![p] = None],
             Attempt(s, q, broker[c], m)
      PROVE  Attempts' /\ Handled'
  <2>1. c \in Consumers /\ acc' = [o \in Providers |-> IF acc[o] = c THEN None ELSE acc[o]]
    BY <1>3, LetsGo
  <2>2. requests' = [requests EXCEPT ![c] = q] /\ replies' = [replies EXCEPT ![c] = m]
    BY <1>1, <2>1, SameAttempt
  <2> HIDE DEF c, q, m
  <2>3. broker' = broker
    BY <1>1
  <2> QED BY <1>3, <2>1, <2>2, <2>3, OneProxy, Zenon
<1>4. ASSUME c # None PROVE c \in Consumers /\ Dials(r) /\ Attempt(r, q, broker[c], m)
  BY <1>4, LetsGo, SameAttempt
<1>5. CASE PrvAdmit(p)
  <2>1. c # None /\ acc' = [acc EXCEPT ![p] = None]
    BY <1>5 DEF PrvAdmit
  <2>2. CASE r.got.nonce = ltok[p] /\ r.st = "dial"
    <3>1. con' = [con EXCEPT ![c] = [r EXCEPT !.st = "listen", !.path = p, !.got = NoAnswer]]
      BY <1>5, <2>2 DEF PrvAdmit
    <3>2. Attempt([r EXCEPT !.st = "listen", !.path = p, !.got = NoAnswer], q, broker[c], m)
      BY <1>4, <2>1, <2>2, AttemptWins
    <3> QED BY <1>3, <2>1, <3>1, <3>2
  <2>3. CASE r.got.nonce = ltok[p] /\ r.st # "dial"
    <3>1. con' = [con EXCEPT ![c].task = "won"] /\ con = [con EXCEPT ![c] = r]
      BY <1>4, <1>5, <2>1, <2>3, SameAttempt DEF PrvAdmit
    <3>2. con' = [con EXCEPT ![c] = [r EXCEPT !.task = "won"]]
      BY <3>1
    <3>3. Attempt([r EXCEPT !.task = "won"], q, broker[c], m)
      BY <1>4, <2>1, <2>3, AttemptWins DEF Dials
    <3> QED BY <1>3, <2>1, <3>2, <3>3
  <2>4. CASE r.got.nonce # ltok[p]
    <3>1. con' = [con EXCEPT ![c] = Failed(r)]
      BY <1>5, <2>4 DEF PrvAdmit
    <3>2. Attempt(Failed(r), q, broker[c], m)
      BY <1>4, <2>1, AttemptFails DEF Dials
    <3> QED BY <1>3, <2>1, <3>1, <3>2
  <2> QED BY <2>2, <2>3, <2>4
<1>6. CASE PrvRepunch(p) \/ PrvEnds(p)
  <2>1. /\ acc' = [acc EXCEPT ![p] = None]
        /\ con' = [d \in Consumers |-> IF acc[p] = d THEN Failed(con[d]) ELSE con[d]]
    BY <1>6 DEF PrvRepunch, PrvEnds
  <2>2. CASE c = None
    <3>1. con' = con /\ acc' = acc
      BY <2>1, <2>2, NameAssumption DEF Attempts, Handled, None
    <3> QED BY <1>1, <3>1 DEF Attempts, Handled
  <2>3. CASE c # None
    <3>1. con' = [con EXCEPT ![c] = Failed(r)]
      BY <1>4, <2>1, <2>3 DEF Attempts
    <3>2. Attempt(Failed(r), q, broker[c], m)
      BY <1>4, <2>3, AttemptFails DEF Dials
    <3> QED BY <1>3, <2>1, <2>3, <3>1, <3>2
  <2> QED BY <2>2, <2>3
<1> QED BY <1>2, <1>5, <1>6

\* serve_consumer and broker_udp.
LEMMA AttemptsServed ==
    ASSUME AttemptInv, NEW c \in Consumers, SrvConsumer(c)
    PROVE  Attempts' /\ Handled' /\ NamedEntries'
<1> DEFINE r == con[c]
           q == requests[c]
           b == broker[c]
           m == replies[c]
<1>1. con = [con EXCEPT ![c] = r] /\ broker = [broker EXCEPT ![c] = b] /\ Attempt(r, q, b, m)
      /\ requests = [requests EXCEPT ![c] = q] /\ replies = [replies EXCEPT ![c] = m]
  BY SameAttempt DEF AttemptInv
<1>2. Attempts /\ Handled /\ NamedEntries
  BY DEF AttemptInv
<1>3. con' = con /\ acc' = acc /\ udp' = udp /\ pending' = pending
  BY Zenon DEF SrvConsumer, SrvHint, SrvBroker, SrvTell, srvp_vars, prov_vars
<1>4. Handled'
  BY <1>2, <1>3 DEF Handled
<1>5. con' = [con EXCEPT ![c] = r]
  BY <1>1, <1>3
<1>6. CASE SrvHint(c)
  <2> DEFINE x == [k |-> "hint", to |-> Head(q).n, nonce |-> None, prov |-> None]
  <2>1. /\ b = NoBroker /\ q # <<>> /\ Head(q).k = "hint" /\ broker' = broker
        /\ requests' = [requests EXCEPT ![c] = Tail(q)] /\ replies' = [replies EXCEPT ![c] = Append(m, x)]
    BY <1>6 DEF SrvHint, Reply
  <2>2. Attempt(r, Tail(q), b, Append(m, x))
    BY <1>1, <2>1, AttemptHint
  <2>3. broker' = [broker EXCEPT ![c] = b]
    BY <1>1, <2>1
  <2> HIDE DEF x
  <2>4. Attempts'
    BY <1>2, <1>5, <2>1, <2>2, <2>3, OneAttempt, Zenon
  <2>5. NamedEntries'
    BY <1>2, <1>3, <2>1 DEF NamedEntries
  <2> QED BY <1>4, <2>4, <2>5
<1>7. CASE SrvBroker(c)
  <2>1. b = NoBroker /\ q # <<>> /\ Head(q).k = "offer" /\ requests' = [requests EXCEPT ![c] = Tail(q)]
    BY <1>7 DEF SrvBroker
  <2>2. CASE udp = NoBroker
    <3> DEFINE x == [k |-> "unavailable", to |-> Head(q).n, nonce |-> None, prov |-> None]
    <3>1. replies' = [replies EXCEPT ![c] = Append(m, x)] /\ broker' = broker
      BY <1>7, <2>2 DEF SrvBroker, Reply
    <3>2. Attempt(r, Tail(q), b, Append(m, x))
      BY <1>1, <2>1, AttemptBroker
    <3>3. broker' = [broker EXCEPT ![c] = b]
      BY <1>1, <3>1
    <3> HIDE DEF x
    <3>4. Attempts'
      BY <1>2, <1>5, <2>1, <3>1, <3>2, <3>3, OneAttempt, Zenon
    <3>5. NamedEntries'
      BY <1>2, <1>3, <3>1 DEF NamedEntries
    <3> QED BY <1>4, <3>4, <3>5
  <2>3. CASE udp # NoBroker
    <3> DEFINE e == [udp EXCEPT !.n = Head(q).n]
    <3>1. broker' = [broker EXCEPT ![c] = e] /\ replies' = [replies EXCEPT ![c] = m]
      BY <1>1, <1>7, <2>3 DEF SrvBroker
    <3>2. IsEntry(udp) /\ Matched(udp) /\ Named(udp)
      BY <2>3 DEF AttemptInv, TokenInv, Entries, NamedEntries
    <3>3. e = [n |-> Head(q).n, nonce |-> udp.nonce, chan |-> udp.chan, prov |-> udp.prov]
      BY <3>2 DEF IsEntry
    <3>4. Head(q).n \in Nat
      <4>1. Head(q) \in Request
        BY <1>1, <2>1 DEF Attempt
      <4> QED BY <4>1 DEF Request
    <3>5. e.n = Head(q).n /\ e.nonce \in Providers /\ Named(e)
      BY <3>2, <3>3, <3>4 DEF Matched, Named
    <3>6. e # NoBroker
      BY <3>5, NameAssumption DEF NoBroker, None
    <3> HIDE DEF e
    <3>7. Attempt(r, Tail(q), e, m)
      BY <1>1, <2>1, <3>5, <3>6, AttemptBroker
    <3>8. Attempts'
      BY <1>2, <1>5, <2>1, <3>1, <3>7, OneAttempt, Zenon
    <3>9. \A d \in Consumers : broker'[d] = e \/ broker'[d] = broker[d]
      BY <1>2, <3>1 DEF Attempts
    <3>10. NamedEntries'
      BY <1>2, <1>3, <3>5, <3>9 DEF NamedEntries, Named
    <3> QED BY <1>4, <3>8, <3>10
  <2> QED BY <2>2, <2>3
<1>8. CASE SrvTell(c)
  <2>1. b # NoBroker /\ broker' = [broker EXCEPT ![c] = NoBroker] /\ requests' = requests
    BY <1>8 DEF SrvTell
  <2>2. requests' = [requests EXCEPT ![c] = q]
    BY <1>1, <2>1
  <2> DEFINE x == IF b.chan \in rx THEN [k |-> "punch", to |-> b.n, nonce |-> b.nonce, prov |-> b.prov]
                  ELSE [k |-> "unavailable", to |-> b.n, nonce |-> None, prov |-> None]
  <2>3. replies' = [replies EXCEPT ![c] = Append(m, x)]
    BY <1>8 DEF SrvTell, Reply
  <2>4. Named(b)
    BY <1>2 DEF NamedEntries
  <2>5. x \in Answer /\ x.k # "hint" /\ x.to = b.n
    BY <2>4 DEF Named, Answer, Names
  <2> HIDE DEF x
  <2>6. Attempt(r, q, NoBroker, Append(m, x))
    BY <1>1, <2>1, <2>5, AttemptTell
  <2>7. Attempts'
    BY <1>2, <1>5, <2>1, <2>2, <2>3, <2>6, OneAttempt, Zenon
  <2>8. Named(NoBroker)
    BY DEF Named, NoBroker, Names
  <2>9. \A d \in Consumers : broker'[d] = NoBroker \/ broker'[d] = broker[d]
    BY <1>2, <2>1 DEF Attempts
  <2>10. NamedEntries'
    BY <1>2, <1>3, <2>8, <2>9 DEF NamedEntries, Named
  <2> QED BY <1>4, <2>7, <2>10
<1> QED BY <1>6, <1>7, <1>8 DEF SrvConsumer

\* The server's side of a provider: its entries name it, or what they are made from.
LEMMA AttemptsEntries ==
    ASSUME AttemptInv, NEW p \in Providers, SrvProvider(p)
    PROVE  Attempts' /\ Handled' /\ NamedEntries'
<1>1. UNCHANGED <<con, requests, replies, broker, acc>>
  BY Zenon DEF SrvProvider, SrvRegister, SrvOfferChan, SrvOfferNonce, SrvOfferInsert, SrvForward, SrvLeave,
     SrvDropUdp, prov_vars, link_vars
<1>2. Attempts' /\ Handled'
  BY <1>1 DEF AttemptInv, Attempts, Handled
<1>3. NamedEntries /\ pending = [o \in Providers |-> pending[o]]
  BY DEF AttemptInv, TokenInv, Entries
<1>4. Named(NoBroker)
  BY DEF Named, NoBroker, Names
<1>5. CASE SrvOfferChan(p)
  <2> DEFINE b == [n |-> 0, nonce |-> None, chan |-> IF udp = NoBroker THEN p ELSE udp.chan, prov |-> p]
  <2>1. pending' = [pending EXCEPT ![p] = b] /\ udp' = udp
    BY <1>5 DEF SrvOfferChan
  <2>2. Named(b)
    BY DEF Named, Names
  <2> HIDE DEF b
  <2>3. \A o \in Providers : pending'[o] = b \/ pending'[o] = pending[o]
    BY <1>3, <2>1
  <2> QED BY <1>1, <1>2, <1>3, <2>1, <2>2, <2>3 DEF NamedEntries, Named
<1>6. CASE SrvOfferNonce(p)
  <2> DEFINE e == pending[p]
             k == IF udp = NoBroker THEN p ELSE udp.nonce
             b == [n |-> e.n, nonce |-> k, chan |-> e.chan, prov |-> e.prov]
  <2>1. pending' = [pending EXCEPT ![p].nonce = k] /\ udp' = udp
    BY <1>6 DEF SrvOfferNonce
  <2>2. IsEntry(e) /\ Named(e)
    BY <1>3 DEF AttemptInv, TokenInv, Entries, Registering, NamedEntries
  <2>3. k \in Names
    BY <1>3 DEF NamedEntries, Named, Names
  <2> HIDE DEF k
  <2>4. [e EXCEPT !.nonce = k] = b
    BY <2>2 DEF IsEntry
  <2>5. pending' = [o \in Providers |-> IF o = p THEN b ELSE pending[o]]
    BY <1>3, <2>1, <2>4
  <2>6. Named(b)
    BY <2>2, <2>3 DEF Named
  <2> HIDE DEF b
  <2> QED BY <1>1, <1>2, <1>3, <2>1, <2>5, <2>6 DEF NamedEntries, Named
<1>7. CASE SrvOfferInsert(p)
  <2>1. udp' = pending[p] /\ \A o \in Providers : pending'[o] = NoBroker \/ pending'[o] = pending[o]
    BY <1>3, <1>7 DEF SrvOfferInsert
  <2> QED BY <1>1, <1>2, <1>3, <1>4, <2>1 DEF NamedEntries, Named
<1>8. CASE SrvDropUdp(p)
  <2>1. udp' = NoBroker /\ pending' = pending
    BY <1>8 DEF SrvDropUdp
  <2> QED BY <1>1, <1>2, <1>3, <1>4, <2>1 DEF NamedEntries, Named
<1>9. CASE SrvRegister(p) \/ SrvForward(p) \/ SrvLeave(p)
  <2>1. udp' = udp /\ pending' = pending
    BY <1>9 DEF SrvRegister, SrvForward, SrvLeave
  <2> QED BY <1>1, <1>2, <1>3, <2>1 DEF NamedEntries, Named
<1> QED BY <1>5, <1>6, <1>7, <1>8, <1>9 DEF SrvProvider

\* Every step keeps the invariant.
LEMMA AttemptStep == AttemptInv /\ [Next]_vars => AttemptInv'
<1> SUFFICES ASSUME AttemptInv, [Next]_vars PROVE AttemptInv'
  OBVIOUS
<1>0. TokenInv'
  BY TokenStep DEF AttemptInv
<1>1. Attempts /\ Handled /\ NamedEntries
  BY DEF AttemptInv
<1>2. ASSUME UNCHANGED <<con, requests, replies, broker, acc>> PROVE Attempts' /\ Handled'
  BY <1>1, <1>2 DEF Attempts, Handled
<1>3. ASSUME UNCHANGED <<udp, pending, broker>> PROVE NamedEntries'
  BY <1>1, <1>3 DEF NamedEntries, Named
<1>4. CASE UNCHANGED vars
  BY <1>0, <1>2, <1>3, <1>4 DEF vars, srvp_vars, prov_vars, link_vars, AttemptInv
<1>5. ASSUME NEW p \in Providers, SrvProvider(p) PROVE AttemptInv'
  BY <1>0, <1>5, AttemptsEntries DEF AttemptInv
<1>6. ASSUME NEW p \in Providers, Provider(p) PROVE AttemptInv'
  <2>1. UNCHANGED <<udp, pending, broker>>
    BY <1>6, Zenon DEF Provider, PrvOffer, PrvPunch, PrvListens, PrvAdmit, PrvRepunch, PrvEnds, PrvAccept,
       srvp_vars, link_vars
  <2>2. CASE PrvOffer(p) \/ PrvPunch(p) \/ PrvListens(p)
    <3>1. UNCHANGED <<con, requests, replies, broker, acc>>
      BY <2>2, Zenon DEF PrvOffer, PrvPunch, PrvListens, link_vars
    <3> QED BY <1>0, <1>2, <1>3, <2>1, <3>1 DEF AttemptInv
  <2> QED BY <1>0, <1>1, <1>3, <1>6, <2>1, <2>2, AttemptsDialed DEF Provider, AttemptInv
<1>7. ASSUME NEW p \in Providers, BreakProvider(p) PROVE AttemptInv'
  BY <1>0, <1>2, <1>3, <1>7 DEF BreakProvider, srvp_vars, prov_vars, link_vars, AttemptInv
<1>8. ASSUME NEW c \in Consumers, SrvConsumer(c) PROVE AttemptInv'
  BY <1>0, <1>8, AttemptsServed DEF AttemptInv
<1>9. ASSUME NEW c \in Consumers,
             Proxy(c) \/ ConGivesUp(c) \/ Task(c) \/ BreakConsumer(c) \/ BreakPath(c)
      PROVE  AttemptInv'
  <2>1. UNCHANGED others_vars /\ UNCHANGED broker
    BY <1>9, Zenon DEF Proxy, Task, ConRecv, ConGather, ConKick, ConMessage, ConSendsOffer, ConNoOffer,
       ConDone, ConEnds, ConGivesUp, TaskGather, TaskTakes, DialFails, BreakConsumer, BreakPath, link_vars
  <2>2. NamedEntries'
    BY <1>3, <2>1 DEF others_vars, srvp_vars
  <2>3. CASE BreakConsumer(c)
    BY <1>0, <1>2, <2>2, <2>3 DEF BreakConsumer, link_vars, AttemptInv
  <2>4. CASE Proxy(c) \/ ConGivesUp(c) \/ Task(c) \/ BreakPath(c)
    BY <1>0, <1>1, <2>2, <2>4, AttemptsStart, AttemptsTask, AttemptsListen, AttemptsEnd
       DEF Proxy, AttemptInv
  <2> QED BY <1>9, <2>3, <2>4
<1> QED BY <1>4, <1>5, <1>6, <1>7, <1>8, <1>9 DEF Next

\* An attempt acts on the answer to its own candidates, for any number of consumers,
\* providers, attempts and faults, as long as the first negotiation did not give its
\* answer up.
THEOREM AnswersAreOwn == Spec => []AnswersOwnOffer
<1>1. AttemptInv => AnswersOwnOffer
  <2> SUFFICES ASSUME AttemptInv, NEW c \in Consumers, con[c].got # NoAnswer, ~con[c].late
               PROVE  con[c].got.to = con[c].n
    BY DEF AnswersOwnOffer
  <2>1. Attempt(con[c], requests[c], broker[c], replies[c])
    BY DEF AttemptInv, Attempts
  <2>2. con[c].st # "gone"
    BY <2>1 DEF Attempt, Shape
  <2> QED BY <2>1, <2>2 DEF Attempt, InStep
<1> QED BY <1>1, AttemptInit, AttemptStep, PTL DEF Spec
=============================================================================
