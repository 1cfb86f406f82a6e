SPECIFICATION FairSpec
CONSTANTS
    Callers = {c1, c2, c3}
    NoCaller = NoCaller
    QueueCap = 1
    AckBacklog = 1
    Accepts = 2
    Inbound <- MCInbound
INVARIANTS TypeOK DisconnectedMeansGone InboundInOrder
PROPERTIES OpenReturns StreamsArrive
CHECK_DEADLOCK FALSE
