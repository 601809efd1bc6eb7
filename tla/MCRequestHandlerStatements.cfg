SPECIFICATION Spec
CONSTANTS
    Conns = {c1, c2}
    NWorkers = 2
    Names = {"db"}
    Files = {"db"}
    Resolve <- NoAliases
    Requests <- SteppedStatements
    AuthOn = FALSE
    WalModes = {TRUE, FALSE}
    MaxRecords = 2
    MaxDeletes = 0
SYMMETRY ConnSymmetry
INVARIANT AckedStored
INVARIANT AbortedNotStored
INVARIANT WritersSerialised
INVARIANT ReadsStable
PROPERTY ImplementsStore
