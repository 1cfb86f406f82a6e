SPECIFICATION Spec
CONSTANTS
    p1 = p1
    p2 = p2
    d1 = d1
    d2 = d2
    ch1 = ch1
    NoProvider = NoProvider
    Providers = {p1, p2}
    Consumers = {d1, d2}
    Channels = {ch1}
    Chan <- SharedChan
    ServerSecret = FALSE
    SecretClients = {}
    MaxConns = 1
    CtrlWindow = 1
    Leavers = {}
    MaxClients = 4
INVARIANT OkMeansReachable
CHECK_DEADLOCK FALSE
