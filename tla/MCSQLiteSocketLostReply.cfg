SPECIFICATION FairSpec
CONSTANTS
    Workers = {w1, w2}
    MaxPacketSize = 1
    Sizes = {1}
    Window = 1
    MaxRequests = 2
PROPERTY AnsweredEventually
CHECK_DEADLOCK FALSE
