SPECIFICATION FairSpec
CONSTANTS
    Payloads <- LegalPayloads
    ChunkSize = 2
    Window = 2
    MaxVersion = 0
    Reverts = FALSE
    Faults = {}
PROPERTY RunSucceeds
CHECK_DEADLOCK FALSE
