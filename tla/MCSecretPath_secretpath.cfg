SPECIFICATION FairSpec
CONSTANTS
    Providers = {"p", "q"}
    Consumers = {"c"}
    ChanCap = 1
    MaxAttempts = 2
    MaxFaults = 2
INVARIANTS AnswersOwnOffer Brokered TokenIsOwn
PROPERTIES AttemptEnds LeavesClosed
CHECK_DEADLOCK FALSE
