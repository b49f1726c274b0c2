SPECIFICATION FairSpec
CONSTANTS
    NumDispatchers = 2
    MaxRequests = 2
    Outcomes = {"done", "blocked"}
    SpuriousWakeups = FALSE
PROPERTY SentRequestIsAssigned
CHECK_DEADLOCK FALSE
