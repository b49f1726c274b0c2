SPECIFICATION Spec
CONSTANTS
    NumDispatchers = 2
    MaxRequests = 2
    Outcomes = {"done", "blocked"}
    SpuriousWakeups = FALSE
INVARIANT FrontHasSession
CHECK_DEADLOCK FALSE
