-------------------------------- MODULE Mux --------------------------------
(***************************************************************************)
(* One end of a multiplexed connection (rb-transport/src/mux.rs): the task *)
(* drive, which alone polls the yamux connection, the callers that ask it  *)
(* for substreams through Opener::open, and the owner of the Acceptor that *)
(* takes the substreams the peer opened. Every client and every connection *)
(* of the server runs one.                                                 *)
(***************************************************************************)
EXTENDS Integers, Sequences

CONSTANTS
    Callers,     \* the calls of Opener::open made on this end
    NoCaller,    \* "no request" in pending
    QueueCap,    \* capacity of each of the two queues (32 in spawn_driver)
    AckBacklog,  \* outbound substreams yamux leaves unacknowledged (256)
    Inbound,     \* how many substreams the peer opens
    Accepts      \* how many of them the owner of the Acceptor asks for

ASSUME CallersAssumption == NoCaller \notin Callers
ASSUME CapsAssumption    == QueueCap \in Nat \ {0} /\ AckBacklog \in Nat \ {0}
ASSUME LoadAssumption    == Inbound \in Nat /\ Accepts \in Nat

VARIABLES
    call,      \* the state of each call of open: see CallStates
    handles,   \* is some Opener still held?
    requests,  \* the queue of open requests
    pending,   \* the request poll_new_outbound works on
    noOpeners, \* openers_gone: drive no longer polls the queue of requests
    driver,    \* where drive is: see DriverStates
    hand,      \* the substream drive is delivering, at most one
    inQueue,   \* substreams delivered and not accepted
    acceptor,  \* "held", "dropped", or "ended" once accept has returned None
    accepted,  \* the substreams accept has returned
    connUp,    \* is the TCP connection up?
    arriving,  \* how many substreams the peer has opened
    polled,    \* how many of them poll_next_inbound has returned
    unacked    \* outbound substreams the peer has not acknowledged

opening == <<call, handles, requests, pending, noOpeners>>
inbound == <<hand, inQueue, acceptor, accepted>>
wire    == <<connUp, arriving, polled, unacked>>
vars    == <<opening, driver, inbound, wire>>

CallStates   == {"idle", "sending", "waiting", "stream", "error", "disconnected"}
DriverStates == {"poll", "deliver", "closing", "gone"}
Opening(c)   == call[c] \in {"sending", "waiting"}

CallGoto(c, s) == call' = [call EXCEPT ![c] = s]

----------------------------------------------------------------------------
(* The callers of Opener::open.                                            *)

\* A call starts; it borrows an Opener until it returns.
OpenCall(c) ==
    /\ handles /\ call[c] = "idle"
    /\ CallGoto(c, "sending")
    /\ UNCHANGED <<handles, requests, pending, noOpeners, driver, inbound, wire>>

\* Mutation: the room in the queue is off by one.
BugOpenSendOverfull(c) ==
    /\ call[c] = "sending" /\ driver # "gone"
    /\ Len(requests) <= QueueCap
    /\ requests' = Append(requests, c)
    /\ CallGoto(c, "waiting")
    /\ UNCHANGED <<handles, pending, noOpeners, driver, inbound, wire>>

\* requests.send waits for room in the queue ...
OpenSend(c) ==
    /\ call[c] = "sending" /\ driver # "gone"
    /\ Len(requests) < QueueCap
    /\ requests' = Append(requests, c)
    /\ CallGoto(c, "waiting")
    /\ UNCHANGED <<handles, pending, noOpeners, driver, inbound, wire>>

\* ... and fails once drive has returned.
OpenSendFails(c) ==
    /\ call[c] = "sending" /\ driver = "gone"
    /\ CallGoto(c, "disconnected")
    /\ UNCHANGED <<handles, requests, pending, noOpeners, driver, inbound, wire>>

\* Somebody still owns the sending half of the call's oneshot.
ReplyOwed(c) == pending = c \/ \E i \in 1 .. Len(requests) : requests[i] = c

\* rx.await fails when the sending half was dropped without an answer.
OpenRecvFails(c) ==
    /\ call[c] = "waiting" /\ ~ReplyOwed(c)
    /\ CallGoto(c, "disconnected")
    /\ UNCHANGED <<handles, requests, pending, noOpeners, driver, inbound, wire>>

\* The last Opener goes away (connect_source keeps only the Acceptor).
DropOpeners ==
    /\ handles /\ \A c \in Callers : ~Opening(c)
    /\ handles' = FALSE
    /\ UNCHANGED <<call, requests, pending, noOpeners, driver, inbound, wire>>

----------------------------------------------------------------------------
(* drive.                                                                  *)

\* Mutation: a request is taken while another one is still pending.
BugTakeRequestOverwrites ==
    /\ driver = "poll" /\ ~noOpeners
    /\ requests # <<>>
    /\ pending' = Head(requests) /\ requests' = Tail(requests)
    /\ UNCHANGED <<call, handles, noOpeners, driver, inbound, wire>>

\* poll_recv on the queue of requests, only when none is pending.
TakeRequest ==
    /\ driver = "poll" /\ ~noOpeners
    /\ pending = NoCaller /\ requests # <<>>
    /\ pending' = Head(requests) /\ requests' = Tail(requests)
    /\ UNCHANGED <<call, handles, noOpeners, driver, inbound, wire>>

\* Mutation: drive ends with the last Opener.
BugOpenersGoneEnds ==
    /\ driver = "poll" /\ ~noOpeners
    /\ pending = NoCaller /\ requests = <<>> /\ ~handles
    /\ noOpeners' = TRUE /\ driver' = "closing"
    /\ UNCHANGED <<call, handles, requests, pending, inbound, wire>>

\* The queue is empty and every Opener gone: drive goes on without it.
OpenersGone ==
    /\ driver = "poll" /\ ~noOpeners
    /\ pending = NoCaller /\ requests = <<>> /\ ~handles
    /\ noOpeners' = TRUE
    /\ UNCHANGED <<call, handles, requests, pending, driver, inbound, wire>>

\* poll_new_outbound is not ready while too many substreams are unacknowledged.
OutboundReady == pending # NoCaller /\ unacked < AckBacklog

\* Step::Opened: a substream, or an error of yamux, for the pending request.
Opened ==
    /\ driver = "poll" /\ OutboundReady
    /\ \/ CallGoto(pending, "stream") /\ unacked' = unacked + 1
       \/ CallGoto(pending, "error")  /\ UNCHANGED unacked
    /\ pending' = NoCaller
    /\ UNCHANGED <<handles, requests, noOpeners, driver, inbound, connUp, arriving, polled>>

\* Step::Inbound: poll_next_inbound returns the next substream of the peer. It
\* is polled only when poll_new_outbound has nothing ready.
TakeInbound ==
    /\ driver = "poll" /\ ~OutboundReady
    /\ polled < arriving
    /\ polled' = polled + 1 /\ hand' = <<polled + 1>>
    /\ driver' = "deliver"
    /\ UNCHANGED <<opening, inQueue, acceptor, accepted, connUp, arriving, unacked>>

\* Mutation: a substream that finds the queue full is dropped (try_send).
BugDeliverDropsWhenFull ==
    /\ driver = "deliver"
    /\ inQueue' = IF acceptor = "held" /\ Len(inQueue) < QueueCap
                    THEN inQueue \o hand ELSE inQueue
    /\ hand' = <<>> /\ driver' = "poll"
    /\ UNCHANGED <<opening, acceptor, accepted, wire>>

\* Mutation: nothing is sent, and nothing dropped, without an Acceptor.
BugDeliverNeedsAcceptor ==
    /\ driver = "deliver"
    /\ acceptor = "held" /\ Len(inQueue) < QueueCap /\ inQueue' = inQueue \o hand
    /\ hand' = <<>> /\ driver' = "poll"
    /\ UNCHANGED <<opening, acceptor, accepted, wire>>

\* inbound_tx.send waits for room, and polls nothing meanwhile; without an
\* Acceptor the substream is dropped.
Deliver ==
    /\ driver = "deliver"
    /\ \/ /\ acceptor = "held" /\ Len(inQueue) < QueueCap
          /\ inQueue' = inQueue \o hand
       \/ acceptor # "held" /\ UNCHANGED inQueue
    /\ hand' = <<>> /\ driver' = "poll"
    /\ UNCHANGED <<opening, acceptor, accepted, wire>>

\* Step::Done: the connection failed or was closed. What the peer had opened
\* and yamux has not read may be lost.
Done ==
    /\ driver = "poll" /\ ~OutboundReady /\ ~connUp
    /\ driver' = "closing"
    /\ UNCHANGED <<opening, inbound, wire>>

\* poll_close has returned and drive drops pending and both queues' ends.
Returned ==
    /\ driver = "closing"
    /\ driver' = "gone"
    /\ pending' = NoCaller /\ requests' = <<>>
    /\ UNCHANGED <<call, handles, noOpeners, inbound, wire>>

----------------------------------------------------------------------------
(* The Acceptor.                                                           *)

Accept ==
    /\ acceptor = "held" /\ inQueue # <<>> /\ Len(accepted) < Accepts
    /\ accepted' = Append(accepted, Head(inQueue)) /\ inQueue' = Tail(inQueue)
    /\ UNCHANGED <<opening, driver, hand, acceptor, wire>>

\* accept returns None when drive is gone and its queue is empty.
AcceptNone ==
    /\ acceptor = "held" /\ inQueue = <<>> /\ driver = "gone" /\ Len(accepted) < Accepts
    /\ acceptor' = "ended"
    /\ UNCHANGED <<opening, driver, hand, inQueue, accepted, wire>>

\* The Acceptor is dropped, with what is in its queue (connect_destination
\* drops it when it returns).
DropAcceptor ==
    /\ acceptor = "held"
    /\ acceptor' = "dropped" /\ inQueue' = <<>>
    /\ UNCHANGED <<opening, driver, hand, accepted, wire>>

----------------------------------------------------------------------------
(* yamux and the peer.                                                     *)

PeerOpens ==
    /\ connUp /\ arriving < Inbound
    /\ arriving' = arriving + 1
    /\ UNCHANGED <<opening, driver, inbound, connUp, polled, unacked>>

\* An acknowledgement is read while the connection is polled.
Acked ==
    /\ driver = "poll" /\ connUp /\ unacked > 0
    /\ unacked' = unacked - 1
    /\ UNCHANGED <<opening, driver, inbound, connUp, arriving, polled>>

\* The connection fails, or the peer closes it.
ConnEnds ==
    /\ connUp /\ connUp' = FALSE
    /\ UNCHANGED <<opening, driver, inbound, arriving, polled, unacked>>

----------------------------------------------------------------------------

Init ==
    /\ call = [c \in Callers |-> "idle"] /\ handles = TRUE
    /\ requests = <<>> /\ pending = NoCaller /\ noOpeners = FALSE
    /\ driver = "poll" /\ hand = <<>>
    /\ inQueue = <<>> /\ acceptor = "held" /\ accepted = <<>>
    /\ connUp = TRUE /\ arriving = 0 /\ polled = 0 /\ unacked = 0

CallStep(c) == OpenSend(c) \/ OpenSendFails(c) \/ OpenRecvFails(c)
Drive       == TakeRequest \/ OpenersGone \/ Opened \/ TakeInbound \/ Deliver \/ Done \/ Returned
Wire        == PeerOpens \/ Acked \/ ConnEnds

Next ==
    \/ \E c \in Callers : OpenCall(c) \/ CallStep(c)
    \/ DropOpeners \/ Drive
    \/ Accept \/ AcceptNone \/ DropAcceptor
    \/ Wire

\* The executor polls a task that was woken; drive, woken by a request and by
\* an inbound substream, looks at both in every poll. A peer whose own drive is
\* not blocked acknowledges. The owner of the Acceptor asks for substreams until
\* it has Accepts of them; nobody has to open one, to leave or to drop a handle.
Fairness ==
    /\ \A c \in Callers : WF_vars(CallStep(c))
    /\ WF_vars(TakeRequest) /\ WF_vars(OpenersGone) /\ WF_vars(Opened)
    /\ WF_vars(TakeInbound) /\ WF_vars(Deliver) /\ WF_vars(Done) /\ WF_vars(Returned)
    /\ WF_vars(Acked)
    /\ WF_vars(Accept) /\ WF_vars(AcceptNone)

Spec     == Init /\ [][Next]_vars
FairSpec == Spec /\ Fairness

----------------------------------------------------------------------------

TypeOK ==
    /\ call \in [Callers -> CallStates] /\ handles \in BOOLEAN
    /\ requests \in Seq(Callers) /\ Len(requests) <= QueueCap
    /\ pending \in Callers \cup {NoCaller} /\ noOpeners \in BOOLEAN
    /\ driver \in DriverStates
    /\ hand \in Seq(Nat) /\ (hand # <<>> <=> driver = "deliver") /\ Len(hand) <= 1
    /\ inQueue \in Seq(Nat) /\ Len(inQueue) <= QueueCap
    /\ acceptor \in {"held", "dropped", "ended"} /\ accepted \in Seq(Nat)
    /\ connUp \in BOOLEAN
    /\ arriving \in 0 .. Inbound /\ polled \in 0 .. arriving
    /\ unacked \in 0 .. AckBacklog

\* Opener::open says "multiplexer connection closed" only when drive is gone:
\* no request that got into the queue is forgotten while the connection lives.
DisconnectedMeansGone ==
    \A c \in Callers : call[c] = "disconnected" => driver = "gone"

\* Acceptor::accept returns the substreams of the peer in the order they were
\* opened, without a gap: none is lost between yamux, drive and the queue, also
\* when the queue is full. The order matters because a source serves the
\* first destination it accepts.
InboundInOrder ==
    LET seen == IF acceptor = "dropped" THEN accepted ELSE accepted \o inQueue \o hand
    IN  /\ \A i \in 1 .. Len(seen) : seen[i] = i
        /\ acceptor = "held" => Len(seen) = polled

\* Opener::open returns whatever the other users of the connection do (openers
\* and peers that come at the same time, an Acceptor dropped, the connection
\* lost), as long as no more substreams arrive than are accepted and fit the
\* queue: drive polls nothing while it waits for room there.
OpenReturns ==
    Inbound <= Accepts + QueueCap => \A c \in Callers : Opening(c) ~> ~Opening(c)

\* The owner of the Acceptor gets the substreams it asks for once the peer has
\* opened them, or the connection has ended and accept returns None, or it drops
\* the Acceptor: also after the last Opener has gone, which is how a source
\* waits for its destination.
StreamsArrive ==
    \A n \in 1 .. Accepts :
        arriving >= n ~> \/ Len(accepted) >= n
                         \/ acceptor = "ended" /\ ~connUp
                         \/ acceptor = "dropped"
=============================================================================
