SPECIFICATION FairSpec
CONSTANTS
    Conns = {c1, c2}
    NWorkers = 1
    Names = {"db"}
    Files = {"db"}
    Resolve <- NoAliases
    Requests <- Waiting
    AuthOn = FALSE
    WalModes = {TRUE}
    MaxRecords = 1
    MaxDeletes = 0
PROPERTY EveryRequestAnswered
PROPERTY HandlesReleased
