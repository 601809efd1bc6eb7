SPECIFICATION Spec
CONSTANTS
    Conns = {c1, c2}
    NWorkers = 2
    Names = {"db"}
    Files = {"db"}
    Resolve <- NoAliases
    Requests <- WritesAndDeletions
    AuthOn = FALSE
    WalModes = {TRUE}
    MaxRecords = 2
    MaxDeletes = 1
PROPERTY AckedInDatabase
