SPECIFICATION FairSpec
CONSTANTS
    Conns = {c1, c2}
    NWorkers = 2
    Names = {"db"}
    Files = {"db"}
    Resolve <- NoAliases
    Requests <- ExclusiveAndRead
    AuthOn = FALSE
    WalModes = {FALSE}
    MaxRecords = 0
    MaxDeletes = 0
PROPERTY EveryRequestAnswered
