SPECIFICATION Spec
CONSTANTS
    Payloads <- OnePayload
    ChunkSize = 2
    Window = 2
    MaxVersion = 0
    Reverts = FALSE
    Faults = {"break"}
INVARIANT DestinationOkMeansWhole
CHECK_DEADLOCK FALSE
