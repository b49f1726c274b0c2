SPECIFICATION ServerSpec
CONSTANTS
    NumDispatchers = 2
    MaxRequests = 3
    Outcomes = {"done", "blocked", "retry"}
    SpuriousWakeups = FALSE
    Sockets = {4, 5}
    MaxConnections = 2
INVARIANT StrangersOnlyAfterClose
INVARIANT NoOvertaking
CHECK_DEADLOCK FALSE
