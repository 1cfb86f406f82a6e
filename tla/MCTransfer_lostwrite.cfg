SPECIFICATION Spec
CONSTANTS
    Files <- MCFiles
    Tasks <- MCTasks
    FileOf <- MCFileOf
    Parallel = 2
    FlushEvery = 2
    Cases <- MCCases
    Existing = {}
    MaxWrites = 1
    MaxFaults = 1
INVARIANT OkMeansThere
CHECK_DEADLOCK FALSE
