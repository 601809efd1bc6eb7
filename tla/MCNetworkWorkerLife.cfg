SPECIFICATION FairSpec
CONSTANTS
    w1 = w1
    w2 = w2
    c1 = c1
    c2 = c2
    c3 = c3
    Threads = {w1, w2}
    Clients = {c1, c2, c3}
    Setups <- EverySetup
    Kinds = {"hold", "free", "first", "throws"}
    NoClient = NoClient
INVARIANT TypeOK
INVARIANT AcceptLoopArmed
INVARIANT OnlySessionsServed
INVARIANT WaysToEnd
PROPERTY AllowedServed
PROPERTY StopsAfterSignal
CHECK_DEADLOCK FALSE
