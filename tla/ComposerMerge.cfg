SPECIFICATION Spec
CONSTANTS
    Sockets = {f1}
    Requests <- MCRequests
    BufSize = 6
    MaxConnections = 1
    MaxRequests = 1
INVARIANT PiecesAreJoined
CHECK_DEADLOCK FALSE
