SPECIFICATION Spec
CONSTANTS
    Settings <- MCSettings
    MaxU64 = 127
    MaxFails = 10
INVARIANT DelayDoubles
CHECK_DEADLOCK FALSE
