SPECIFICATION FairSpec
CONSTANTS
    Workers = {w1}
    MaxPacketSize = 1
    Sizes = {0, 1, 2}
    Window = 3
    MaxRequests = 4
INVARIANT ResponsesInOrder
INVARIANT WriteDriven
PROPERTY ImplementsRpcChannel
CHECK_DEADLOCK FALSE
