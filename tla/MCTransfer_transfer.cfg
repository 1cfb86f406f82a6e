SPECIFICATION FairSpec
CONSTANTS
    Files <- MCFiles
    Tasks <- MCTasks
    FileOf <- MCFileOf
    Parallel = 2
    FlushEvery = 2
    Cases <- MCCases
    Existing = {"root", "f2"}
    MaxWrites = 1
    MaxFaults = 1
INVARIANTS OkMeansDelivered FreshIsFresh
PROPERTIES CommitsWhole OldOrNew Recovers
CHECK_DEADLOCK FALSE
