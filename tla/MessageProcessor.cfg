SPECIFICATION FairSpec
CONSTANTS
    NumDispatchers = 2
    MaxRequests = 5
    Outcomes = {"done", "blocked"}
    SpuriousWakeups = TRUE
INVARIANT TypeOK
INVARIANT HeldExactlyOnce
INVARIANT NoSleepOnWork
PROPERTY DistributesRequests
PROPERTY WokenProcessorDrains
PROPERTY EverySessionGetsItsTurn
CHECK_DEADLOCK FALSE
