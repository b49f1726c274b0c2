SPECIFICATION Spec
CONSTANTS
    Sockets = {f1, f2}
    Requests <- MCRequests
    BufSize = 6
    MaxConnections = 3
    MaxRequests = 2
INVARIANT TypeOK
INVARIANT WholePiecesArriveIntact
INVARIANT GarbledNeedsFullBuffer
CHECK_DEADLOCK FALSE
