SPECIFICATION FairSpec
CONSTANTS
    HeaderBytes = 2
    Prefixes = 4
    RequestBytes = 2
    ResponseSizes = {2, 4}
    MaxPacket = 2
    Handshakes = {TRUE, FALSE}
    MaxCalls = 3
INVARIANT TypeOK
INVARIANT OwnAnswer
INVARIANT AtMostOnce
PROPERTY EveryCallReturns
CHECK_DEADLOCK FALSE
