SPECIFICATION FairSpec
CONSTANTS
    Clients = {"a", "b"}
    Kinds = {"carriers", "public", "vhost"}
    Extra = 1
    MaxConns = 3
    Target = 1
    MaxSlots = 2
    DirectCap = 1
    Visitors = {v1}
    MaxSignals = 2
    MaxFaults = 2
INVARIANTS OwnEntry DirectBounded DirectOwner DialsBounded
PROPERTIES Redialed PortFreed
CHECK_DEADLOCK FALSE
