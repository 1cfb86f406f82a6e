SPECIFICATION FairSpec
CONSTANTS
    p1 = p1
    p2 = p2
    d1 = d1
    d2 = d2
    ch1 = ch1
    NoProvider = NoProvider
    Providers = {p1, p2}
    Consumers = {d1, d2}
    Channels = {ch1}
    Chan <- SharedChan
    ServerSecret = FALSE
    SecretClients = {p2}
    MaxConns = 1
    CtrlWindow = 1
    Leavers = {p1, p2, d1}
    MaxClients = 3
INVARIANTS TypeOK NoDanglingEntry PermitsConserved
PROPERTIES Answered EntryFreed RelayReleased
CHECK_DEADLOCK FALSE
