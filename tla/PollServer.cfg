SPECIFICATION FairSpec
CONSTANTS
    listen_sd = 3
    Descriptors = {4, 5}
    Slots = 7
    NfdsLimit = 3
    MaxBacklog = 1
    MaxSends = 1
INVARIANT TypeOK
INVARIANT TableHoldsOpenDescriptors
INVARIANT EventsBelongToConnection
INVARIANT TableFits
PROPERTY CloseOnlyAfterClient
PROPERTY LeftConnectionIsClosed
PROPERTY WaitingClientIsAccepted
