SPECIFICATION FairSpec
CONSTANTS
    Workers = {w1, w2}
    MaxPacketSize = 1
    Sizes = {1, 2}
    Window = 2
    MaxRequests = 3
INVARIANT TypeOK
INVARIANT RequestsSequential
INVARIANT ClosedOnlyForSize
PROPERTY ReleasedAfterClose
CHECK_DEADLOCK FALSE
