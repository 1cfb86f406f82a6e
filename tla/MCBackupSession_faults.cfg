SPECIFICATION FairSpec
CONSTANTS
    Payloads <- MCPayloads
    ChunkSize = 2
    Window = 2
    MaxVersion = 2
    Reverts = FALSE
    Faults = {"break", "crash", "corrupt", "module", "stall", "reject", "exit_loss"}
INVARIANTS TypeOK NothingBeforeApproval AppliedInOrder AuditSound DoneMeansWhole
PROPERTIES KeepsContract BothReturn
CHECK_DEADLOCK FALSE
