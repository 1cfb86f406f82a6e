----------------------------- MODULE Mux_proofs -----------------------------
(***************************************************************************)
(* What Mux guarantees for any number of callers, any queue capacity and   *)
(* any load: types, no open request forgotten, inbound substreams in order *)
(* and without a gap.                                                      *)
(***************************************************************************)
EXTENDS Mux, SequenceTheorems, TLAPS

USE CallersAssumption, CapsAssumption, LoadAssumption

\* drive owes an answer to every call that waits for one, until it is gone.
WaitersOwed ==
    \A c \in Callers : call[c] = "waiting" => ReplyOwed(c) \/ driver = "gone"

\* The substreams accepted, queued and in drive's hand are numbered through.
Numbered ==
    /\ \A i \in 1 .. Len(accepted) : accepted[i] = i
    /\ acceptor = "held" =>
         /\ \A i \in 1 .. Len(inQueue) : inQueue[i] = Len(accepted) + i
         /\ \A i \in 1 .. Len(hand) : hand[i] = Len(accepted) + Len(inQueue) + i
         /\ Len(accepted) + Len(inQueue) + Len(hand) = polled
    /\ acceptor # "held" => inQueue = <<>>
    /\ acceptor = "ended" => driver = "gone"

----------------------------------------------------------------------------

\* Each step of Mux keeps the type invariant.
LEMMA TypeStep == TypeOK /\ [Next]_vars => TypeOK'
<1> SUFFICES ASSUME TypeOK, [Next]_vars PROVE TypeOK'
  OBVIOUS
<1> USE DEF TypeOK, CallStates, DriverStates, CallGoto, opening, inbound, wire
<1>1. ASSUME NEW c \in Callers, OpenCall(c) \/ OpenSendFails(c) \/ OpenRecvFails(c)
      PROVE  TypeOK'
  BY <1>1 DEF OpenCall, OpenSendFails, OpenRecvFails
<1>2. ASSUME NEW c \in Callers, OpenSend(c) PROVE TypeOK'
  BY <1>2 DEF OpenSend
<1>3. CASE DropOpeners \/ OpenersGone \/ Done
  BY <1>3 DEF DropOpeners, OpenersGone, Done
<1>4. CASE TakeRequest
  BY <1>4 DEF TakeRequest
<1>5. CASE Opened
  BY <1>5 DEF Opened, OutboundReady
<1>6. CASE TakeInbound
  BY <1>6 DEF TakeInbound
<1>7. CASE Deliver
  <2>1. CASE acceptor = "held"
    <3>1. inQueue' = inQueue \o hand /\ Len(inQueue) < QueueCap
      BY <1>7, <2>1 DEF Deliver
    <3>2. inQueue \o hand \in Seq(Nat) /\ Len(inQueue \o hand) = Len(inQueue) + Len(hand)
      OBVIOUS
    <3> QED
      BY <1>7, <3>1, <3>2 DEF Deliver
  <2>2. CASE acceptor # "held"
    BY <1>7, <2>2 DEF Deliver
  <2> QED
    BY <2>1, <2>2
<1>8. CASE Returned
  BY <1>8 DEF Returned
<1>9. CASE Accept
  BY <1>9 DEF Accept
<1>10. CASE AcceptNone
  BY <1>10 DEF AcceptNone
<1>11. CASE DropAcceptor
  <2>1. <<>> \in Seq(Nat) /\ Len(<<>>) = 0
    OBVIOUS
  <2> QED
    BY <1>11, <2>1 DEF DropAcceptor
<1>12. CASE PeerOpens
  BY <1>12 DEF PeerOpens
<1>13. CASE Acked
  BY <1>13 DEF Acked
<1>14. CASE ConnEnds
  BY <1>14 DEF ConnEnds
<1>15. CASE UNCHANGED vars
  BY <1>15 DEF vars
<1> QED
  BY <1>1, <1>2, <1>3, <1>4, <1>5, <1>6, <1>7, <1>8, <1>9, <1>10, <1>11, <1>12, <1>13,
     <1>14, <1>15
  DEF Next, CallStep, Drive, Wire

\* The initial state of Mux is typed.
LEMMA TypeInit == Init => TypeOK
<1>1. <<>> \in Seq(Nat) /\ <<>> \in Seq(Callers) /\ Len(<<>>) = 0
  OBVIOUS
<1> SUFFICES ASSUME Init PROVE TypeOK
  OBVIOUS
<1>2. call \in [Callers -> CallStates]
  BY DEF Init, CallStates
<1>3. Len(requests) <= QueueCap /\ Len(hand) <= 1 /\ Len(inQueue) <= QueueCap
  BY <1>1 DEF Init
<1>4. hand # <<>> <=> driver = "deliver"
  BY DEF Init
<1>5. /\ requests \in Seq(Callers) /\ hand \in Seq(Nat)
      /\ inQueue \in Seq(Nat) /\ accepted \in Seq(Nat)
  BY <1>1 DEF Init
<1>6. arriving \in 0 .. Inbound /\ polled \in 0 .. arriving /\ unacked \in 0 .. AckBacklog
  BY DEF Init
<1>7. /\ handles \in BOOLEAN /\ noOpeners \in BOOLEAN /\ connUp \in BOOLEAN
      /\ pending \in Callers \cup {NoCaller} /\ driver \in DriverStates
      /\ acceptor \in {"held", "dropped", "ended"}
  BY DEF Init, DriverStates
<1> QED
  BY <1>2, <1>3, <1>4, <1>5, <1>6, <1>7 DEF TypeOK

\* The variables of Mux keep their types, whatever the callers, the queue
\* capacities and the load: neither queue of spawn_driver grows past its
\* capacity, and drive holds a substream exactly while it delivers one.
THEOREM TypeCorrect == Spec => []TypeOK
  BY TypeInit, TypeStep, PTL DEF Spec

----------------------------------------------------------------------------
(* Open requests. A call is told "disconnected" when nobody owns the       *)
(* sending half of its oneshot; that this means drive is gone takes the    *)
(* fact that a request is always in the queue or pending until then.       *)

Answers == TypeOK /\ WaitersOwed /\ DisconnectedMeansGone

\* Each step keeps what is owed to the calls of Opener::open.
LEMMA AnswersStep == Answers /\ [Next]_vars => Answers'
<1> SUFFICES ASSUME Answers, [Next]_vars PROVE WaitersOwed' /\ DisconnectedMeansGone'
  BY TypeStep DEF Answers
<1> USE DEF Answers, WaitersOwed, DisconnectedMeansGone, ReplyOwed, CallGoto,
            opening, inbound, wire
<1>t. /\ call \in [Callers -> CallStates] /\ requests \in Seq(Callers)
      /\ pending \in Callers \cup {NoCaller}
  BY DEF TypeOK
<1>1. ASSUME NEW c \in Callers, OpenCall(c) \/ OpenSendFails(c) \/ OpenRecvFails(c)
      PROVE  WaitersOwed' /\ DisconnectedMeansGone'
  BY <1>t, <1>1 DEF OpenCall, OpenSendFails, OpenRecvFails
<1>2. ASSUME NEW c \in Callers, OpenSend(c)
      PROVE  WaitersOwed' /\ DisconnectedMeansGone'
  <2>1. /\ Len(requests') = Len(requests) + 1 /\ requests'[Len(requests) + 1] = c
        /\ \A i \in 1 .. Len(requests) : requests'[i] = requests[i]
        /\ Len(requests) \in Nat
    BY <1>t, <1>2 DEF OpenSend
  <2>2. ASSUME NEW d \in Callers, call'[d] = "waiting" PROVE ReplyOwed(d)' \/ driver' = "gone"
    <3>1. CASE d = c
      BY <2>1, <3>1
    <3>2. CASE d # c
      <4>1. call[d] = "waiting" /\ driver' = driver /\ pending' = pending
        BY <1>t, <1>2, <2>2, <3>2 DEF OpenSend
      <4> QED
        BY <2>1, <4>1
    <3> QED
      BY <3>1, <3>2
  <2> QED
    BY <1>t, <1>2, <2>2 DEF OpenSend
<1>3. CASE TakeRequest
  <2>1. /\ pending' = requests[1] /\ Len(requests') = Len(requests) - 1
        /\ \A i \in 1 .. Len(requests') : requests'[i] = requests[i + 1]
        /\ Len(requests) \in Nat \ {0}
    BY <1>t, <1>3 DEF TakeRequest
  <2>2. ASSUME NEW d \in Callers, call'[d] = "waiting" PROVE ReplyOwed(d)' \/ driver' = "gone"
    <3>1. call[d] = "waiting" /\ driver' = driver /\ pending # d /\ driver # "gone"
      BY <1>3, <2>2 DEF TakeRequest
    <3>2. PICK i \in 1 .. Len(requests) : requests[i] = d
      BY <3>1
    <3>3. CASE i = 1
      BY <2>1, <3>2, <3>3
    <3>4. CASE i # 1
      <4>1. i - 1 \in 1 .. Len(requests') /\ requests'[i - 1] = d
        BY <2>1, <3>2, <3>4
      <4> QED
        BY <4>1
    <3> QED
      BY <3>3, <3>4
  <2> QED
    BY <1>3, <2>2 DEF TakeRequest
<1>4. CASE Opened
  BY <1>t, <1>4 DEF Opened, OutboundReady
<1>5. CASE Returned
  BY <1>5 DEF Returned
<1>6. CASE Deliver \/ TakeInbound \/ Done
  BY <1>6 DEF Deliver, TakeInbound, Done
<1>7. CASE DropOpeners \/ OpenersGone \/ Accept \/ AcceptNone \/ DropAcceptor
  BY <1>7 DEF DropOpeners, OpenersGone, Accept, AcceptNone, DropAcceptor
<1>8. CASE Wire
  BY <1>8 DEF Wire, PeerOpens, Acked, ConnEnds
<1>9. CASE UNCHANGED vars
  BY <1>9 DEF vars
<1> QED
  BY <1>1, <1>2, <1>3, <1>4, <1>5, <1>6, <1>7, <1>8, <1>9 DEF Next, CallStep, Drive

\* Opener::open reports a closed connection only once drive is gone, for any
\* number of callers and any capacity of the queue of requests.
THEOREM NoRequestForgotten == Spec => []DisconnectedMeansGone
<1>1. Init => WaitersOwed /\ DisconnectedMeansGone
  BY DEF Init, WaitersOwed, DisconnectedMeansGone
<1>2. Init => TypeOK
  BY TypeInit
<1>3. Answers => DisconnectedMeansGone
  BY DEF Answers
<1> QED
  BY <1>1, <1>2, <1>3, AnswersStep, PTL DEF Spec, Answers

----------------------------------------------------------------------------
(* Inbound substreams. The concatenation in InboundInOrder is taken apart  *)
(* (Numbered), so that each step moves one substream between two parts.    *)

Order == TypeOK /\ Numbered

\* Each step keeps the inbound substreams numbered through.
LEMMA OrderStep == Order /\ [Next]_vars => Order'
<1> SUFFICES ASSUME Order, [Next]_vars PROVE Numbered'
  BY TypeStep DEF Order
<1> USE DEF Order, opening, inbound, wire
<1>t. /\ hand \in Seq(Nat) /\ inQueue \in Seq(Nat) /\ accepted \in Seq(Nat)
      /\ Len(hand) <= 1 /\ (hand # <<>> <=> driver = "deliver")
      /\ polled \in Nat /\ acceptor \in {"held", "dropped", "ended"}
  BY DEF TypeOK
<1>1. CASE TakeInbound
  <2>1. hand = <<>> /\ Len(hand) = 0 /\ Len(hand') = 1 /\ hand'[1] = polled + 1
    BY <1>t, <1>1 DEF TakeInbound
  <2> QED
    BY <1>t, <1>1, <2>1 DEF TakeInbound, Numbered
<1>2. CASE Deliver
  <2>1. Len(hand) = 1 /\ Len(hand') = 0
    <3>1. hand # <<>> /\ hand' = <<>>
      BY <1>t, <1>2 DEF Deliver
    <3>2. Len(hand) \in Nat \ {0}
      BY <1>t, <3>1, EmptySeq
    <3>3. Len(<<>>) = 0
      OBVIOUS
    <3>4. Len(hand) = 1
      <4>1. Len(hand) <= 1
        BY DEF TypeOK
      <4> HIDE DEF Order
      <4> DEFINE n == Len(hand)
      <4>2. n \in Nat \ {0} /\ n <= 1
        BY <3>2, <4>1
      <4> HIDE DEF n
      <4>3. n = 1
        BY <4>2
      <4> QED
        BY <4>3 DEF n
    <3>5. Len(hand') = 0
      BY <3>1, <3>3
    <3> QED
      BY <3>4, <3>5
  <2>2. CASE acceptor = "held"
    <3>1. /\ Len(inQueue') = Len(inQueue) + 1
          /\ \A i \in 1 .. Len(inQueue) : inQueue'[i] = inQueue[i]
          /\ inQueue'[Len(inQueue) + 1] = hand[1]
          /\ Len(inQueue) \in Nat
      <4>1. inQueue' = inQueue \o hand
        BY <1>2, <2>2 DEF Deliver
      <4>2. Len(inQueue) \in Nat
        BY <1>t, LenProperties
      <4>3. /\ Len(inQueue \o hand) = Len(inQueue) + Len(hand)
            /\ \A i \in 1 .. Len(inQueue) + Len(hand) : (inQueue \o hand)[i] =
                 IF i <= Len(inQueue) THEN inQueue[i] ELSE hand[i - Len(inQueue)]
        BY <1>t, ConcatProperties
      <4> QED
        BY <2>1, <4>1, <4>2, <4>3
    <3>2. \A i \in 1 .. Len(inQueue') : inQueue'[i] = Len(accepted) + i
      <4>1. /\ \A i \in 1 .. Len(inQueue) : inQueue[i] = Len(accepted) + i
            /\ hand[1] = Len(accepted) + Len(inQueue) + 1
        BY <2>1, <2>2 DEF Numbered
      <4>2. Len(accepted) \in Nat
        BY <1>t, LenProperties
      <4> QED
        BY <3>1, <4>1, <4>2
    <3> QED
      BY <1>t, <1>2, <2>1, <2>2, <3>1, <3>2 DEF Deliver, Numbered
  <2>3. CASE acceptor # "held"
    BY <1>2, <2>3 DEF Deliver, Numbered
  <2> QED
    BY <2>2, <2>3
<1>3. CASE Accept
  <2>1. /\ Len(accepted') = Len(accepted) + 1 /\ Len(inQueue') = Len(inQueue) - 1
        /\ \A i \in 1 .. Len(accepted) : accepted'[i] = accepted[i]
        /\ accepted'[Len(accepted) + 1] = inQueue[1]
        /\ \A i \in 1 .. Len(inQueue') : inQueue'[i] = inQueue[i + 1]
        /\ Len(accepted) \in Nat /\ Len(inQueue) \in Nat \ {0}
    BY <1>t, <1>3 DEF Accept
  <2>2. inQueue[1] = Len(accepted) + 1
    BY <1>3, <2>1 DEF Accept, Numbered
  <2>3. \A i \in 1 .. Len(accepted') : accepted'[i] = i
    BY <2>1, <2>2 DEF Numbered
  <2>4. \A i \in 1 .. Len(inQueue') : inQueue'[i] = Len(accepted') + i
    BY <1>3, <2>1 DEF Accept, Numbered
  <2> QED
    <3>1. /\ acceptor = "held" /\ acceptor' = acceptor
          /\ hand' = hand /\ driver' = driver /\ polled' = polled
      BY <1>3 DEF Accept
    <3>2. /\ \A i \in 1 .. Len(hand') : hand'[i] = Len(accepted') + Len(inQueue') + i
          /\ Len(accepted') + Len(inQueue') + Len(hand') = polled'
      <4>1. Len(hand) \in Nat
        BY <1>t, LenProperties
      <4> QED
        BY <2>1, <3>1, <4>1 DEF Numbered
    <3> QED
      BY <2>3, <2>4, <3>1, <3>2 DEF Numbered
<1>4. CASE AcceptNone
  BY <1>4 DEF AcceptNone, Numbered
<1>5. CASE DropAcceptor
  BY <1>5 DEF DropAcceptor, Numbered
<1>6. CASE TakeRequest \/ OpenersGone \/ Opened \/ DropOpeners
  BY <1>6 DEF TakeRequest, OpenersGone, Opened, DropOpeners, Numbered
<1>7. CASE Done \/ Returned
  <2>1. UNCHANGED <<inbound, polled>> /\ (acceptor = "ended" => driver' = "gone")
    BY <1>7 DEF Done, Returned, Numbered
  <2> QED
    BY <2>1 DEF Numbered
<1>8. CASE Wire
  BY <1>8 DEF Wire, PeerOpens, Acked, ConnEnds, Numbered
<1>9. ASSUME NEW c \in Callers, OpenCall(c) \/ CallStep(c) PROVE Numbered'
  BY <1>9 DEF OpenCall, CallStep, OpenSend, OpenSendFails, OpenRecvFails, Numbered
<1>10. CASE UNCHANGED vars
  BY <1>10 DEF vars, Numbered
<1> QED
  BY <1>1, <1>2, <1>3, <1>4, <1>5, <1>6, <1>7, <1>8, <1>9, <1>10 DEF Next, Drive

\* What is numbered through is in order, without a gap.
LEMMA NumberedInOrder == Order => InboundInOrder
<1> SUFFICES ASSUME Order PROVE InboundInOrder
  OBVIOUS
<1>t. /\ hand \in Seq(Nat) /\ inQueue \in Seq(Nat) /\ accepted \in Seq(Nat)
      /\ (hand # <<>> <=> driver = "deliver")
      /\ acceptor \in {"held", "dropped", "ended"}
  BY DEF Order, TypeOK
<1> DEFINE queued == accepted \o inQueue
           seen   == queued \o hand
<1>1. /\ queued \in Seq(Nat) /\ Len(queued) = Len(accepted) + Len(inQueue)
      /\ \A i \in 1 .. Len(queued) :
           queued[i] = IF i <= Len(accepted) THEN accepted[i] ELSE inQueue[i - Len(accepted)]
  BY <1>t
<1>2. /\ Len(seen) = Len(queued) + Len(hand)
      /\ \A i \in 1 .. Len(seen) :
           seen[i] = IF i <= Len(queued) THEN queued[i] ELSE hand[i - Len(queued)]
  <2> HIDE DEF queued
  <2> QED
    BY <1>t, <1>1, ConcatProperties
<1>3. CASE acceptor = "held"
  <2>1. \A i \in 1 .. Len(queued) : queued[i] = i
    BY <1>t, <1>1, <1>3 DEF Order, Numbered
  <2>2. /\ \A i \in 1 .. Len(hand) : hand[i] = Len(queued) + i
        /\ Len(queued) + Len(hand) = polled
        /\ Len(queued) \in Nat /\ Len(hand) \in Nat
    BY <1>t, <1>1, <1>3 DEF Order, Numbered
  <2>3. /\ \A i \in 1 .. Len(seen) : seen[i] = i
        /\ Len(seen) = polled
    <3> HIDE DEF queued, seen
    <3>1. ASSUME NEW i \in 1 .. Len(seen) PROVE seen[i] = i
      <4>1. CASE i <= Len(queued)
        BY <1>2, <2>1, <2>2, <3>1, <4>1
      <4>2. CASE ~(i <= Len(queued))
        <5>1. i - Len(queued) \in 1 .. Len(hand)
          BY <1>2, <2>2, <3>1, <4>2
        <5>2. hand[i - Len(queued)] = Len(queued) + (i - Len(queued))
          BY <2>2, <5>1
        <5> QED
          BY <1>2, <2>2, <3>1, <4>2, <5>2
      <4> QED
        BY <4>1, <4>2
    <3> QED
      BY <1>2, <2>2, <3>1
  <2> QED
    BY <1>3, <2>3 DEF InboundInOrder
<1>4. CASE acceptor = "dropped"
  BY <1>4 DEF Order, Numbered, InboundInOrder
<1>5. CASE acceptor = "ended"
  <2>1. inQueue = <<>> /\ hand = <<>>
    BY <1>t, <1>5 DEF Order, Numbered
  <2>2. accepted \o inQueue \o hand = accepted
    BY <1>t, <2>1
  <2> QED
    BY <1>5, <2>2 DEF Order, Numbered, InboundInOrder
<1> QED
  BY <1>t, <1>3, <1>4, <1>5

\* Acceptor::accept hands out the peer's substreams in the order they were
\* opened and without a gap, for any capacity of the inbound queue and any load.
THEOREM AcceptsInOrder == Spec => []InboundInOrder
<1>1. Init => Numbered
  BY DEF Init, Numbered
<1> QED
  BY <1>1, TypeInit, OrderStep, NumberedInOrder, PTL DEF Spec, Order
=============================================================================
