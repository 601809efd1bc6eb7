SPECIFICATION Spec
CONSTANTS
    Conns = {c1, c2}
    NWorkers = 1
    Names = {"db", "./db"}
    Files = {"db"}
    Resolve <- OneFile
    Requests <- EveryCommand
    AuthOn = TRUE
    WalModes = {FALSE}
    MaxRecords = 1
    MaxDeletes = 1
SYMMETRY ConnSymmetry
INVARIANT TypeOK
INVARIANT AuthGate
INVARIANT OwnDeleteFresh
